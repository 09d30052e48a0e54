--------------------------- MODULE MCServingApn ----------------------------
\* Instances of ServingApn for TLC: two sites, each with a worker and one
\* thread of the API.
EXTENDS ServingApn, TLC

\* As many requests as leave room for the faults; and of the states with an
\* overlap, or with two causes, only the first are visited: from there on all
\* but the types is excused.
Bounded ==
  /\ requests + faults <= MaxRequests
  /\ "overlap" \notin cause
  /\ Cardinality(cause) <= 1

CONSTANTS site1, site2, hss1, hss2, api1, api2

TwoSites == [t \in Thread |-> IF t \in {hss1, api1} THEN site1 ELSE site2]

\* The two sites, each with its threads, change places.
Swap == site1 :> site2 @@ site2 :> site1 @@ hss1 :> hss2 @@ hss2 :> hss1
        @@ api1 :> api2 @@ api2 :> api1

Symmetry == {Swap} \cup Permutations(Ip)
=============================================================================
