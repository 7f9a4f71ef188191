------------------------------ MODULE MCStartGate ------------------------------
(* Instances of StartGate for TLC. *)
EXTENDS StartGate, TLC

CONSTANTS m1, m2, n1, n2, n3, h1, h2, b1, b2

Symmetry == Permutations(Handlers)

===============================================================================
