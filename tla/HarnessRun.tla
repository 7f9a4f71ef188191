------------------------------- MODULE HarnessRun -------------------------------
(***************************************************************************)
(* A run of the harness (harness/state.py) and what the executor           *)
(* (harness/executor.py) makes of it: cancel, approve or deny a step that  *)
(* asks for confirmation, replace the rest of the plan, record what a tool *)
(* returned, and go on to the next await.  The observer                    *)
(* (harness/observer.py) reads a run and says what it expects of it.       *)
(*                                                                         *)
(* A run is a record and an operation an operator on it: between two       *)
(* awaits the executor loads a copy, changes it and saves it with nothing  *)
(* in between, so that each is one step of Harness.tla.                    *)
(*                                                                         *)
(* Tasks and answers name a step by its identifier, "001" and so on: its   *)
(* place in the first plan, and counted on from the index in a plan that   *)
(* replaces the rest.  When tasks have crossed the index may lie beyond    *)
(* the last step; then a later identifier is not a place, and may be there *)
(* twice.  What the tool of a step would do is told by the number of the   *)
(* plan the step comes from.                                               *)
(***************************************************************************)
EXTENDS Integers, Sequences

CONSTANTS
    MaxSteps,       \* MAX_STEPS, 8
    MaxToolCalls,   \* MAX_TOOL_CALLS, 12
    MaxReplans      \* MAX_REPLANS, 2

ASSUME RunAssumption ==
    /\ MaxSteps \in Nat \ {0}
    /\ MaxToolCalls \in Nat \ {0}
    /\ MaxReplans \in Nat

RunStatus == {"pending", "running", "waiting", "finished", "failed", "cancelled"}
Terminal == {"finished", "failed", "cancelled"}
StepStatus == RunStatus \cup {"skipped"}
Settled == Terminal \cup {"skipped"}
Error == {"none", "cancelled", "max_steps", "tool_calls", "runtime", "all_failed", "partial"}

NoResult == -1
Plan == 0 .. MaxReplans

\* ran counts how often the tool was called, up to 2; it is not in the code.
Step == [id : 1 .. MaxSteps, plan : Plan, confirm : BOOLEAN, status : StepStatus,
         result : {NoResult} \cup Plan, ran : 0 .. 2]

\* The runtime is kept as whether it has used up the budget.
Run == [status : RunStatus, steps : Seq(Step), index : Nat, calls : Nat,
        replans : 0 .. MaxReplans, spent : BOOLEAN, cancel : BOOLEAN,
        pending : Nat, error : Error]

NewSteps(plan, before, confirms) ==
    [i \in DOMAIN confirms |->
        [id |-> before + i, plan |-> plan, confirm |-> confirms[i], status |-> "pending",
         result |-> NoResult, ran |-> 0]]

NewRun(confirms) ==
    [status |-> "pending", steps |-> NewSteps(0, 0, confirms), index |-> 0, calls |-> 0,
     replans |-> 0, spent |-> FALSE, cancel |-> FALSE, pending |-> 0, error |-> "none"]

\* What an executor was built with; the default one and that of one turn of
\* an investigation.
Default == [steps |-> MaxSteps, calls |-> MaxToolCalls]
OneStep == [steps |-> 1, calls |-> 1]

IsOver(run) == run.status \in Terminal

\* The places of the steps with an identifier, and the first of them.
Places(run, id) == {i \in DOMAIN run.steps : run.steps[i].id = id}
Place(run, id) == CHOOSE i \in Places(run, id) : \A j \in Places(run, id) : i <= j

-----------------------------------------------------------------------------
(* Cancel, confirmation, replan                                             *)

Cancelled(run) ==
    IF IsOver(run) THEN run
    ELSE [run EXCEPT
            !.status = "cancelled",
            !.cancel = TRUE,
            !.error = IF @ = "none" THEN "cancelled" ELSE @,
            !.steps = [i \in DOMAIN @ |->
                        IF @[i].status \in {"pending", "running", "waiting"}
                        THEN [@[i] EXCEPT !.status = "cancelled"]
                        ELSE @[i]]]

Awaited(run, id) ==
    Places(run, id) # {} /\ run.steps[Place(run, id)].status = "waiting"

Approved(run, id) ==
    [run EXCEPT !.status = IF @ = "waiting" THEN "running" ELSE @,
                !.pending = 0,
                !.steps[Place(run, id)] = [@ EXCEPT !.status = "pending", !.confirm = FALSE]]

Denied(run, id) ==
    [run EXCEPT !.status = IF @ = "waiting" THEN "running" ELSE @,
                !.pending = 0,
                !.index = @ + 1,
                !.steps[Place(run, id)].status = "skipped"]

CanReplan(run, confirms) ==
    /\ ~IsOver(run)
    /\ run.replans < MaxReplans
    /\ Len(confirms) + run.index <= MaxSteps

Replanned(run, confirms) ==
    [run EXCEPT !.steps = SubSeq(@, 1, IF run.index < Len(@) THEN run.index ELSE Len(@))
                            \o NewSteps(run.replans + 1, run.index, confirms),
                !.replans = @ + 1,
                !.status = IF @ = "waiting" THEN @ ELSE "running"]

-----------------------------------------------------------------------------
(* The loop of arun, from one await to the next                             *)

\* The first step from the current one on that is not settled, or the end.
FirstOpen(run) ==
    CHOOSE j \in run.index .. Len(run.steps) :
        /\ j < Len(run.steps) => run.steps[j + 1].status \notin Settled
        /\ \A k \in run.index .. j - 1 : run.steps[k + 1].status \in Settled

HasStep(run, status) == \E i \in DOMAIN run.steps : run.steps[i].status = status

Finished(run) ==
    IF run.steps # <<>> /\ ~HasStep(run, "finished")
    THEN [run EXCEPT !.status = "failed", !.error = "all_failed"]
    ELSE [run EXCEPT !.status = "finished",
                     !.error = IF HasStep(run, "failed") THEN "partial" ELSE @]

Failed(run, error) == [run EXCEPT !.status = "failed", !.error = error]

Paused(run) ==
    [run EXCEPT !.status = "waiting",
                !.pending = run.steps[run.index + 1].id,
                !.steps[run.index + 1].status = "waiting"]

Called(run) ==
    [run EXCEPT !.steps[run.index + 1].status = "running",
                !.steps[run.index + 1].ran = IF @ = 0 THEN 1 ELSE 2]

\* Which budget is used up, if one is.
Exceeded(run, limit) ==
    IF run.index >= limit.steps \/ Len(run.steps) > limit.steps THEN "max_steps"
    ELSE IF run.calls >= limit.calls THEN "tool_calls"
    ELSE IF run.spent THEN "runtime"
    ELSE "none"

\* The run when the loop returns or awaits a tool.  It awaits the tool of the
\* current step exactly if the status is "running".
Settle(run, limit) ==
    LET open == [run EXCEPT !.index = FirstOpen(run)]
    IN  IF IsOver(run) \/ run.status = "waiting" THEN run
        ELSE IF run.index >= Len(run.steps) THEN Finished(run)
        ELSE IF Exceeded(run, limit) # "none" THEN Failed(run, Exceeded(run, limit))
        ELSE IF open.index = Len(run.steps) THEN Finished(open)
        ELSE IF run.steps[open.index + 1].confirm THEN Paused(open)
        ELSE Called(open)

Started(run, limit) ==
    IF IsOver(run) THEN run
    ELSE IF run.cancel THEN Cancelled(run)
    ELSE Settle([run EXCEPT !.status = "running"], limit)

\* resume: answers to the prompt, if there are any, and then the loop.  An
\* answer for a step that does not wait is passed over.
Answered(run, id, ok) ==
    IF ~Awaited(run, id) THEN run
    ELSE IF ok THEN Approved(run, id) ELSE Denied(run, id)

Resumed(run, limit) == IF run.status = "waiting" THEN run ELSE Started(run, limit)

AnsweredAndResumed(run, id, ok, limit) ==
    IF IsOver(run) THEN run ELSE Started(Answered(run, id, ok), limit)

\* The tool of a step, called for the plan it was called for, has returned, or
\* it has failed or run out of time.
FaultyRecorded(run, id, plan, ok, slow) ==
    [run EXCEPT !.steps[Place(run, id)] =
                    [@ EXCEPT !.status = IF ok THEN "finished" ELSE "pending",
                              !.result = IF ok THEN plan ELSE NoResult],
                !.calls = @ + 1,
                !.spent = @ \/ slow]

Recorded(run, id, plan, ok, slow) ==
    [run EXCEPT !.steps[Place(run, id)] =
                    [@ EXCEPT !.status = IF ok THEN "finished" ELSE "failed",
                              !.result = IF ok THEN plan ELSE NoResult],
                !.calls = @ + 1,
                !.spent = @ \/ slow,
                !.index = @ + 1]

-----------------------------------------------------------------------------
(* The observer                                                             *)

AtEnd(run) == run.index >= MaxSteps \/ run.index >= Len(run.steps)

AsksFirst(step) == step.status = "waiting" \/ step.confirm

FaultyVerdict(run) ==
    IF run.status = "cancelled" \/ run.cancel THEN "FAIL"
    ELSE IF run.status = "finished" THEN "FINISH"
    ELSE IF run.status = "failed" THEN "FAIL"
    ELSE IF run.status = "waiting" THEN "WAIT"
    ELSE IF run.calls >= MaxToolCalls \/ run.spent THEN "FAIL"
    ELSE IF AtEnd(run) THEN "FINISH"
    ELSE IF AsksFirst(run.steps[run.index + 1]) THEN "WAIT"
    ELSE "CONTINUE"

Verdict(run) ==
    IF run.status = "cancelled" \/ run.cancel THEN "FAIL"
    ELSE IF run.status = "finished" THEN "FINISH"
    ELSE IF run.status = "failed" THEN "FAIL"
    ELSE IF run.status = "waiting" THEN "WAIT"
    ELSE IF run.calls >= MaxToolCalls \/ run.spent THEN "FAIL"
    ELSE IF run.replans < MaxReplans /\ run.index > 0 /\ run.steps[run.index].status = "failed"
         THEN "REPLAN"
    ELSE IF AtEnd(run)
         THEN (IF run.steps = <<>> \/ HasStep(run, "finished") THEN "FINISH" ELSE "FAIL")
    ELSE IF AsksFirst(run.steps[run.index + 1]) THEN "WAIT"
    ELSE "CONTINUE"
=============================================================================
