---------------------------- MODULE MCEmergency ----------------------------
\* Instances of Emergency for TLC: two sites, each with a worker and one
\* thread of the API.
EXTENDS Emergency, TLC

\* As many requests as leave room for a fault or for rows to expire; and of
\* the states with an overlap, or with two causes, only the first are visited.
Bounded ==
  /\ requests + faults + clock <= MaxRequests
  /\ faults + clock <= 1
  /\ "overlap" \notin cause
  /\ Cardinality(cause) <= 1

CONSTANTS site1, site2, hss1, hss2, api1, api2

TwoSites == [t \in Thread |-> IF t \in {hss1, api1} THEN site1 ELSE site2]

\* The two sites, each with its threads, change places.
Swap == site1 :> site2 @@ site2 :> site1 @@ hss1 :> hss2 @@ hss2 :> hss1
        @@ api1 :> api2 @@ api2 :> api1

Swaps == {Swap, [v \in DOMAIN Swap |-> v]}

\* UEs, addresses and calls are interchangeable, and so are the sites.
Symmetry == {f @@ g @@ h @@ i : f \in Swaps, g \in Permutations(Ip),
                                h \in Permutations(Ue),
                                i \in Permutations(Call)}
=============================================================================
