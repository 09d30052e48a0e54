--------------------------- MODULE MCRadiusBridge ---------------------------
(* Instances of RadiusBridge for TLC. *)
EXTENDS RadiusBridge, TLC

Symmetry == Permutations(Conv) \cup Permutations(User)
=============================================================================
