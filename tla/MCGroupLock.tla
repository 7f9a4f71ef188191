------------------------------ MODULE MCGroupLock ------------------------------
(* Instances of GroupLock for TLC. *)
EXTENDS GroupLock, TLC

CONSTANTS e1, e2, e3, text, media, readonly

Symmetry == Permutations({e1, e2, e3})

===============================================================================
