--------------------------- MODULE MCEpdgSession ---------------------------
(* Instances of EpdgSession for TLC. *)
EXTENDS EpdgSession, TLC

CONSTANTS ue1, ue2, child1, child2

\* Each UE has a child of its own, named after its ue_id.
OwnChild == [ue \in UE |-> IF ue = ue1 THEN child1 ELSE child2]

\* The shipped default, one child for all, and a child per UE.
EmptyOrFixed == {child1, NoChild}

\* The IMSI that StartDelete chooses is never read.
Symmetry == Permutations(Thread) \cup Permutations(IMSI)
=============================================================================
