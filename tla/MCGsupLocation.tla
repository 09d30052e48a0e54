--------------------------- MODULE MCGsupLocation ---------------------------
(* Instances of GsupLocation for TLC: the peers are MSCs. *)
EXTENDS GsupLocation, TLC

CONSTANTS c1, c2, c3, m1, m2

\* c3 is m1 coming back on a new connection: in good order, and with the
\* third request only when m1 is alone.
Bounded ==
  link[c3] # "new" =>
    /\ orderly
    /\ link[c1] \in {"lost", "closed"}
    /\ requests <= IF link[c2] = "new" THEN 3 ELSE 2

Ids == [c \in Conn |-> IF c = c2 THEN m2 ELSE m1]
Roles == [c \in Conn |-> "msc"]

\* Three requests in good order, two when they overlap.
Requests == [d \in BOOLEAN |-> IF d THEN 3 ELSE 2]

Symmetry == Permutations(Known)
=============================================================================
