------------------------------- MODULE MCHarness -------------------------------
(* Values for the constants of Harness.                                        *)
EXTENDS Harness, TLC

CONSTANTS t1, t2

MCTasks == {t1, t2}
Symmetry == Permutations(MCTasks)

MCPlans == {<<TRUE>>, <<TRUE, FALSE>>}
MCChain == <<"code", "tool">>
=============================================================================
