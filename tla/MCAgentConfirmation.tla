-------------------------- MODULE MCAgentConfirmation --------------------------
(* Two confirmations and two callbacks of AgentConfirmation for TLC. *)
EXTENDS AgentConfirmation

CONSTANTS c1, c2, k1, k2

===============================================================================
