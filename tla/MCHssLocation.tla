--------------------------- MODULE MCHssLocation ---------------------------
\* Instances of HssLocation for TLC: two sites, each with a worker and one
\* thread of the API.
EXTENDS HssLocation, TLC

\* Three requests, or two and a fault; and of the states with two causes or
\* more only the first are visited: what the properties say of the part
\* concerned is excused from there on.
Bounded == requests + faults <= 3 /\ Cardinality(cause) <= 1

CONSTANTS site1, site2, hss1, hss2, api1, api2

TwoSites == [t \in Thread |-> IF t \in {hss1, api1} THEN site1 ELSE site2]

\* The two sites, each with its threads, change places.
Swap == site1 :> site2 @@ site2 :> site1 @@ hss1 :> hss2 @@ hss2 :> hss1
        @@ api1 :> api2 @@ api2 :> api1

Symmetry == Permutations(Mme) \cup Permutations(Cscf) \cup {Swap}
=============================================================================
