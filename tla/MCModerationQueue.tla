--------------------------- MODULE MCModerationQueue ---------------------------
(* Instances of ModerationQueue for TLC. *)
EXTENDS ModerationQueue, TLC

CONSTANTS u1, h1, w1, w2

(* An ordinary key, and the text of the reserved key of row 1's release. *)
OneText == {[form |-> "text", of |-> 1]}
ReservedText == {[form |-> "reverse", of |-> 1]}
NoKeys == {}

Symmetry == Permutations({w1, w2})

===============================================================================
