------------------------------- MODULE MCEdits -------------------------------
(* Values for the constants of Edits.                                        *)
EXTENDS Edits

CONSTANTS b1, b2, hi, there

MCBots == {b1, b2}
MCTexts == {hi, there}
=============================================================================
