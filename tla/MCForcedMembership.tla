--------------------------- MODULE MCForcedMembership ---------------------------
(* Values for the constants of ForcedMembership.                               *)
EXTENDS ForcedMembership, TLC

CONSTANTS m1, m2

MCMessages == {m1, m2}
Symmetry == Permutations(MCMessages)
=============================================================================
