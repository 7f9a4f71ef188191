------------------------------- MODULE SingleUse -------------------------------
(***************************************************************************)
(* What a confirmation promises: each is decided once, by a claim or by a  *)
(* cancellation, and only a claimed one runs, once.  AgentConfirmation     *)
(* implements it.                                                          *)
(***************************************************************************)
EXTENDS Naturals

CONSTANT Confirmations

VARIABLES decision,     \* confirmation -> how it was decided
          runs          \* confirmation -> times its operation was started

Decision == {"open", "claimed", "cancelled"}

Init ==
    /\ decision = [c \in Confirmations |-> "open"]
    /\ runs = [c \in Confirmations |-> 0]

Decide(c, d) ==
    /\ decision[c] = "open"
    /\ decision' = [decision EXCEPT ![c] = d]
    /\ UNCHANGED runs

Run(c) ==
    /\ decision[c] = "claimed"
    /\ runs[c] = 0
    /\ runs' = [runs EXCEPT ![c] = 1]
    /\ UNCHANGED decision

Next ==
    \E c \in Confirmations :
        Decide(c, "claimed") \/ Decide(c, "cancelled") \/ Run(c)

Spec == Init /\ [][Next]_<<decision, runs>>

===============================================================================
