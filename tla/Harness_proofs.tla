------------------------------ MODULE Harness_proofs ------------------------------
(***************************************************************************)
(* The harness, for any number of steps, tool calls, replans and stored    *)
(* runs, any plans, tasks and investigations, and a chain of any steps.    *)
(*                                                                         *)
(* First what each operator of HarnessRun makes of a run, then the         *)
(* inductive invariant Inv, then one lemma for each step of Harness, and   *)
(* the theorems.  A step also leaves the runs that are over alone (Final). *)
(***************************************************************************)
EXTENDS Harness, TLAPS, WellFoundedInduction, NaturalsInduction

(***************************************************************************)
(* Operators on runs: the places of steps, and that what they make of a    *)
(* run is a run.                                                           *)
(***************************************************************************)

(* A set of natural numbers has a least one. *)
LEMMA Least ==
    ASSUME NEW S \in SUBSET Nat, S # {}
    PROVE  \E i \in S : \A j \in S : i <= j
<1>1. PICK i \in S : \A j \in S : ~ (<<j, i>> \in OpToRel(<, Nat))
  BY NatLessThanWellFounded, WFMin, Zenon
<1>2. \A j \in S : ~(j < i)
  BY <1>1 DEF OpToRel
<1> QED BY <1>2

LEMMA RunFields ==
    ASSUME NEW run \in Run
    PROVE  /\ run.status \in RunStatus /\ run.steps \in Seq(Step)
           /\ run.index \in Nat /\ run.calls \in Nat /\ run.replans \in 0 .. MaxReplans
           /\ run.spent \in BOOLEAN /\ run.cancel \in BOOLEAN
           /\ run.pending \in Nat /\ run.error \in Error
           /\ Len(run.steps) \in Nat /\ DOMAIN run.steps = 1 .. Len(run.steps)
           /\ \A i \in 1 .. Len(run.steps) : run.steps[i] \in Step
  BY DEF Run

LEMMA StepFields ==
    ASSUME NEW step \in Step
    PROVE  /\ step.id \in 1 .. MaxSteps /\ step.plan \in Plan /\ step.confirm \in BOOLEAN
           /\ step.status \in StepStatus /\ step.result \in {NoResult} \cup Plan
           /\ step.ran \in 0 .. 2
  BY DEF Step

(* A step of a run is replaced by another. *)
LEMMA PutStep ==
    ASSUME NEW steps \in Seq(Step), NEW i \in 1 .. Len(steps), NEW step \in Step
    PROVE  /\ [steps EXCEPT ![i] = step] \in Seq(Step)
           /\ Len([steps EXCEPT ![i] = step]) = Len(steps)
           /\ DOMAIN [steps EXCEPT ![i] = step] = 1 .. Len(steps)
           /\ [steps EXCEPT ![i] = step][i] = step
           /\ \A j \in 1 .. Len(steps) : j # i => [steps EXCEPT ![i] = step][j] = steps[j]
  OBVIOUS

LEMMA PlaceIsThere ==
    ASSUME NEW run \in Run, NEW id, Places(run, id) # {}
    PROVE  /\ Place(run, id) \in 1 .. Len(run.steps)
           /\ run.steps[Place(run, id)].id = id
<1>1. Places(run, id) \in SUBSET Nat
  BY RunFields DEF Places
<1>2. \E i \in Places(run, id) : \A j \in Places(run, id) : i <= j
  BY <1>1, Least
<1>3. Place(run, id) \in Places(run, id)
  BY <1>2 DEF Place
<1> QED BY <1>3, RunFields DEF Places

LEMMA FirstOpenIs ==
    ASSUME NEW run \in Run, run.index <= Len(run.steps)
    PROVE  /\ FirstOpen(run) \in run.index .. Len(run.steps)
           /\ FirstOpen(run) < Len(run.steps) =>
                run.steps[FirstOpen(run) + 1].status \notin Settled
           /\ \A k \in run.index .. FirstOpen(run) - 1 : run.steps[k + 1].status \in Settled
<1> DEFINE Open == {j \in run.index .. Len(run.steps) :
                      j < Len(run.steps) => run.steps[j + 1].status \notin Settled}
<1>1. Open \in SUBSET Nat /\ Open # {}
  BY RunFields
<1>2. PICK j \in Open : \A k \in Open : j <= k
  BY <1>1, Least
<1>3. \A k \in run.index .. j - 1 : run.steps[k + 1].status \in Settled
  BY <1>2, RunFields
<1>4. j \in run.index .. Len(run.steps)
  BY <1>2
<1>5. j < Len(run.steps) => run.steps[j + 1].status \notin Settled
  BY <1>2
<1> QED BY <1>3, <1>4, <1>5 DEF FirstOpen

(* What an operator leaves alone of a run that is over. *)
Frozen(run, next) ==
    IsOver(run) =>
        /\ next.status = run.status
        /\ next.error = run.error
        /\ Len(next.steps) = Len(run.steps)
        /\ \A i \in DOMAIN run.steps : next.steps[i].ran = run.steps[i].ran

LEMMA CancelledIs ==
    ASSUME NEW run \in Run
    PROVE  /\ Cancelled(run) \in Run
           /\ Len(Cancelled(run).steps) = Len(run.steps)
           /\ IsOver(Cancelled(run))
<1>1. CASE IsOver(run)
  BY <1>1 DEF Cancelled
<1>2. CASE ~IsOver(run)
  <2> DEFINE steps == [i \in DOMAIN run.steps |->
                        IF run.steps[i].status \in {"pending", "running", "waiting"}
                        THEN [run.steps[i] EXCEPT !.status = "cancelled"]
                        ELSE run.steps[i]]
             error == IF run.error = "none" THEN "cancelled" ELSE run.error
  <2>1. ASSUME NEW step \in Step PROVE [step EXCEPT !.status = "cancelled"] \in Step
    BY DEF Step, StepStatus, RunStatus
  <2>2. steps \in Seq(Step) /\ Len(steps) = Len(run.steps)
    <3>1. DOMAIN steps = 1 .. Len(run.steps) /\ Len(run.steps) \in Nat
      BY RunFields
    <3>2. \A i \in 1 .. Len(run.steps) : steps[i] \in Step
      BY <2>1, RunFields
    <3>3. steps = [i \in 1 .. Len(run.steps) |-> steps[i]]
      BY <3>1
    <3> HIDE DEF steps
    <3>4. steps \in [1 .. Len(run.steps) -> Step]
      BY <3>2, <3>3, Zenon
    <3> QED BY <3>1, <3>4
  <2>3. error \in Error
    BY RunFields DEF Error
  <2> HIDE DEF steps, error
  <2>4. Cancelled(run) = [run EXCEPT !.status = "cancelled", !.cancel = TRUE,
                                     !.error = error, !.steps = steps]
    BY <1>2 DEF Cancelled, steps, error
  <2> QED BY <2>2, <2>3, <2>4 DEF Run, RunStatus, IsOver, Terminal
<1> QED BY <1>1, <1>2

(* All steps but one are as they were, and that one is of the same plan.   *)
OnlyStep(run, next, i) ==
    /\ Len(next.steps) = Len(run.steps)
    /\ \A j \in 1 .. Len(run.steps) : j # i => next.steps[j] = run.steps[j]
    /\ next.steps[i].id = run.steps[i].id
    /\ next.steps[i].plan = run.steps[i].plan

SameBudget(run, next) ==
    next.calls = run.calls /\ next.spent = run.spent /\ next.cancel = run.cancel

LEMMA ApprovedIs ==
    ASSUME NEW run \in Run, NEW id, Places(run, id) # {}
    PROVE  LET next == Approved(run, id)
           IN  /\ next \in Run
               /\ Frozen(run, next)
               /\ OnlyStep(run, next, Place(run, id))
               /\ ~next.steps[Place(run, id)].confirm
               /\ next.steps[Place(run, id)].status = "pending"
               /\ next.steps[Place(run, id)].ran = run.steps[Place(run, id)].ran
               /\ next.index = run.index
               /\ next.status = (IF run.status = "waiting" THEN "running" ELSE run.status)
               /\ SameBudget(run, next)
<1> DEFINE i == Place(run, id)
           step == [run.steps[i] EXCEPT !.status = "pending", !.confirm = FALSE]
           steps == [run.steps EXCEPT ![i] = step]
           status == IF run.status = "waiting" THEN "running" ELSE run.status
           next == Approved(run, id)
<1>1. i \in 1 .. Len(run.steps) /\ run.steps[i] \in Step
  BY PlaceIsThere, RunFields
<1>2. /\ step \in Step /\ step.ran = run.steps[i].ran
      /\ step.id = run.steps[i].id /\ step.plan = run.steps[i].plan
      /\ step.status = "pending" /\ ~step.confirm
  BY <1>1 DEF Step, StepStatus, RunStatus
<1>3. next = [run EXCEPT !.status = status, !.pending = 0, !.steps = steps]
  BY <1>1, RunFields DEF Approved
<1> HIDE DEF step
<1>4. /\ steps \in Seq(Step) /\ Len(steps) = Len(run.steps)
      /\ \A j \in 1 .. Len(run.steps) : steps[j].ran = run.steps[j].ran
      /\ \A j \in 1 .. Len(run.steps) : j # i => steps[j] = run.steps[j]
      /\ steps[i] = step
  BY <1>1, <1>2, PutStep, RunFields
<1>5. status \in RunStatus
  BY RunFields DEF RunStatus
<1>6. IsOver(run) => status = run.status
  BY DEF IsOver, Terminal
<1> HIDE DEF next, steps, status
<1>7. next \in Run
  BY <1>3, <1>4, <1>5 DEF Run
<1>8. Frozen(run, next)
  BY <1>3, <1>4, <1>6, RunFields DEF Run, Frozen
<1>9. next.steps = steps /\ next.index = run.index /\ next.status = status
  BY <1>3, <1>4 DEF Run
<1>10. SameBudget(run, next)
  BY <1>3 DEF Run, SameBudget
<1>11. OnlyStep(run, next, i)
  BY <1>2, <1>4, <1>9 DEF OnlyStep
<1> QED BY <1>2, <1>4, <1>7, <1>8, <1>9, <1>10, <1>11 DEF next, status, i

LEMMA DeniedIs ==
    ASSUME NEW run \in Run, NEW id, Places(run, id) # {}
    PROVE  LET next == Denied(run, id)
           IN  /\ next \in Run
               /\ Frozen(run, next)
               /\ OnlyStep(run, next, Place(run, id))
               /\ next.steps[Place(run, id)].status = "skipped"
               /\ next.steps[Place(run, id)].confirm = run.steps[Place(run, id)].confirm
               /\ next.steps[Place(run, id)].ran = run.steps[Place(run, id)].ran
               /\ next.index = run.index + 1
               /\ next.status = (IF run.status = "waiting" THEN "running" ELSE run.status)
               /\ SameBudget(run, next)
<1> DEFINE i == Place(run, id)
           step == [run.steps[i] EXCEPT !.status = "skipped"]
           steps == [run.steps EXCEPT ![i] = step]
           status == IF run.status = "waiting" THEN "running" ELSE run.status
           index == run.index + 1
           next == Denied(run, id)
<1>1. i \in 1 .. Len(run.steps) /\ run.steps[i] \in Step
  BY PlaceIsThere, RunFields
<1>2. /\ step \in Step /\ step.ran = run.steps[i].ran
      /\ step.id = run.steps[i].id /\ step.plan = run.steps[i].plan
      /\ step.status = "skipped" /\ step.confirm = run.steps[i].confirm
  BY <1>1 DEF Step, StepStatus, RunStatus
<1>3. next = [run EXCEPT !.status = status, !.pending = 0,
                                    !.index = index, !.steps = steps]
  BY <1>1, RunFields DEF Denied
<1> HIDE DEF step
<1>4. /\ steps \in Seq(Step) /\ Len(steps) = Len(run.steps)
      /\ \A j \in 1 .. Len(run.steps) : steps[j].ran = run.steps[j].ran
      /\ \A j \in 1 .. Len(run.steps) : j # i => steps[j] = run.steps[j]
      /\ steps[i] = step
  BY <1>1, <1>2, PutStep, RunFields
<1>5. index \in Nat /\ status \in RunStatus
  BY RunFields DEF RunStatus
<1>6. IsOver(run) => status = run.status
  BY DEF IsOver, Terminal
<1> HIDE DEF next, steps, status, index
<1>7. next \in Run
  BY <1>3, <1>4, <1>5 DEF Run
<1>8. Frozen(run, next)
  BY <1>3, <1>4, <1>6, RunFields DEF Run, Frozen
<1>9. next.steps = steps /\ next.index = index /\ next.status = status
  BY <1>3, <1>4 DEF Run
<1>10. SameBudget(run, next)
  BY <1>3 DEF Run, SameBudget
<1>11. OnlyStep(run, next, i)
  BY <1>2, <1>4, <1>9 DEF OnlyStep
<1> QED BY <1>2, <1>4, <1>7, <1>8, <1>9, <1>10, <1>11 DEF next, status, index, i

LEMMA AnsweredIs ==
    ASSUME NEW run \in Run, NEW id, NEW ok
    PROVE  /\ Answered(run, id, ok) \in Run
           /\ Len(Answered(run, id, ok).steps) = Len(run.steps)
           /\ Frozen(run, Answered(run, id, ok))
<1>1. CASE ~Awaited(run, id)
  BY <1>1 DEF Answered, Frozen
<1>2. CASE Awaited(run, id)
  <2>1. Places(run, id) # {}
    BY <1>2 DEF Awaited
  <2>2. Answered(run, id, ok) \in {Approved(run, id), Denied(run, id)}
    BY <1>2 DEF Answered
  <2> QED BY <2>1, <2>2, ApprovedIs, DeniedIs DEF OnlyStep
<1> QED BY <1>1, <1>2

LEMMA RecordedIs ==
    ASSUME NEW run \in Run, NEW id, Places(run, id) # {}, NEW plan \in Plan,
           NEW ok \in BOOLEAN, NEW slow \in BOOLEAN
    PROVE  LET next == Recorded(run, id, plan, ok, slow)
           IN  /\ next \in Run
               /\ Frozen(run, next)
               /\ OnlyStep(run, next, Place(run, id))
               /\ next.steps[Place(run, id)].status = (IF ok THEN "finished" ELSE "failed")
               /\ ok => next.steps[Place(run, id)].result = plan
               /\ next.steps[Place(run, id)].confirm = run.steps[Place(run, id)].confirm
               /\ next.steps[Place(run, id)].ran = run.steps[Place(run, id)].ran
               /\ next.status = run.status
               /\ next.index = run.index + 1
               /\ next.cancel = run.cancel
<1> DEFINE i == Place(run, id)
           step == [run.steps[i] EXCEPT !.status = IF ok THEN "finished" ELSE "failed",
                                        !.result = IF ok THEN plan ELSE NoResult]
           steps == [run.steps EXCEPT ![i] = step]
           spent == run.spent \/ slow
           index == run.index + 1
           calls == run.calls + 1
           next == Recorded(run, id, plan, ok, slow)
<1>1. i \in 1 .. Len(run.steps) /\ run.steps[i] \in Step
  BY PlaceIsThere, RunFields
<1>2. /\ step \in Step /\ step.ran = run.steps[i].ran
      /\ step.id = run.steps[i].id /\ step.plan = run.steps[i].plan
      /\ step.confirm = run.steps[i].confirm
      /\ step.status = (IF ok THEN "finished" ELSE "failed")
      /\ ok => step.result = plan
  BY <1>1 DEF Step, StepStatus, RunStatus
<1>3. next =
        [run EXCEPT !.steps = steps, !.calls = calls, !.spent = spent, !.index = index]
  BY <1>1, RunFields DEF Recorded
<1> HIDE DEF step
<1>4. /\ steps \in Seq(Step) /\ Len(steps) = Len(run.steps)
      /\ \A j \in 1 .. Len(run.steps) : steps[j].ran = run.steps[j].ran
      /\ \A j \in 1 .. Len(run.steps) : j # i => steps[j] = run.steps[j]
      /\ steps[i] = step
  BY <1>1, <1>2, PutStep, RunFields
<1>5. spent \in BOOLEAN /\ index \in Nat /\ calls \in Nat
  BY RunFields
<1> HIDE DEF next, steps, spent, index, calls
<1>6. next \in Run
  BY <1>3, <1>4, <1>5 DEF Run
<1>7. Frozen(run, next)
  BY <1>3, <1>4, <1>5, RunFields DEF Run, Frozen
<1>8. /\ Len(next.steps) = Len(run.steps) /\ next.status = run.status
      /\ next.index = index /\ next.cancel = run.cancel /\ next.steps = steps
  BY <1>3, <1>4 DEF Run
<1>9. OnlyStep(run, next, i)
  BY <1>2, <1>4, <1>8 DEF OnlyStep
<1> QED BY <1>2, <1>4, <1>6, <1>7, <1>8, <1>9 DEF next, index

LEMMA FinishedIs ==
    ASSUME NEW run \in Run
    PROVE  /\ Finished(run) \in Run
           /\ Finished(run).steps = run.steps
           /\ Finished(run).index = run.index
           /\ Finished(run).status =
                IF run.steps = <<>> \/ HasStep(run, "finished") THEN "finished" ELSE "failed"
<1> DEFINE error == IF HasStep(run, "failed") THEN "partial" ELSE run.error
<1>1. error \in Error
  BY RunFields DEF Error
<1> HIDE DEF error
<1>2. \/ /\ ~(run.steps = <<>> \/ HasStep(run, "finished"))
         /\ Finished(run) = [run EXCEPT !.status = "failed", !.error = "all_failed"]
      \/ /\ run.steps = <<>> \/ HasStep(run, "finished")
         /\ Finished(run) = [run EXCEPT !.status = "finished", !.error = error]
  BY DEF Finished, error
<1> DEFINE next == Finished(run)
<1> HIDE DEF next
<1>3. next \in Run /\ next.steps = run.steps /\ next.index = run.index
  BY <1>1, <1>2 DEF Run, RunStatus, Error, next
<1> QED BY <1>2, <1>3 DEF Run, next

LEMMA FailedIs ==
    ASSUME NEW run \in Run, NEW error \in Error
    PROVE  /\ Failed(run, error) \in Run
           /\ Failed(run, error).steps = run.steps
           /\ Failed(run, error).index = run.index
           /\ Failed(run, error).status = "failed"
  BY DEF Failed, Run, RunStatus

LEMMA PausedIs ==
    ASSUME NEW run \in Run, run.index < Len(run.steps)
    PROVE  LET next == Paused(run)
           IN  /\ next \in Run
               /\ OnlyStep(run, next, run.index + 1)
               /\ next.steps[run.index + 1].status = "waiting"
               /\ next.steps[run.index + 1].confirm = run.steps[run.index + 1].confirm
               /\ next.steps[run.index + 1].ran = run.steps[run.index + 1].ran
               /\ next.index = run.index
               /\ next.status = "waiting"
               /\ SameBudget(run, next)
<1> DEFINE i == run.index + 1
           step == [run.steps[i] EXCEPT !.status = "waiting"]
           steps == [run.steps EXCEPT ![i] = step]
           pending == run.steps[i].id
           next == Paused(run)
<1>1. i \in 1 .. Len(run.steps) /\ run.steps[i] \in Step
  BY RunFields
<1>2. /\ step \in Step /\ pending \in Nat /\ step.id = run.steps[i].id
      /\ step.plan = run.steps[i].plan /\ step.confirm = run.steps[i].confirm
      /\ step.ran = run.steps[i].ran /\ step.status = "waiting"
  BY <1>1, RunAssumption DEF Step, StepStatus, RunStatus
<1>3. next = [run EXCEPT !.status = "waiting", !.pending = pending, !.steps = steps]
  BY <1>1, RunFields DEF Paused
<1> HIDE DEF step
<1>4. /\ steps \in Seq(Step) /\ Len(steps) = Len(run.steps)
      /\ \A j \in 1 .. Len(run.steps) : j # i => steps[j] = run.steps[j]
      /\ steps[i] = step
  BY <1>1, <1>2, PutStep, RunFields
<1> HIDE DEF next, steps, pending
<1>5. /\ next \in Run /\ next.steps = steps /\ next.index = run.index
      /\ next.status = "waiting"
  BY <1>2, <1>3, <1>4 DEF Run, RunStatus
<1>6. SameBudget(run, next)
  BY <1>3 DEF Run, SameBudget
<1>7. OnlyStep(run, next, i)
  BY <1>2, <1>4, <1>5 DEF OnlyStep
<1> QED BY <1>2, <1>4, <1>5, <1>6, <1>7 DEF next

LEMMA CalledIs ==
    ASSUME NEW run \in Run, run.index < Len(run.steps)
    PROVE  LET next == Called(run)
           IN  /\ next \in Run
               /\ OnlyStep(run, next, run.index + 1)
               /\ next.steps[run.index + 1].status = "running"
               /\ next.steps[run.index + 1].confirm = run.steps[run.index + 1].confirm
               /\ next.steps[run.index + 1].ran =
                    (IF run.steps[run.index + 1].ran = 0 THEN 1 ELSE 2)
               /\ next.index = run.index
               /\ next.status = run.status
               /\ SameBudget(run, next)
<1> DEFINE i == run.index + 1
           step == [run.steps[i] EXCEPT !.status = "running", !.ran = IF @ = 0 THEN 1 ELSE 2]
           steps == [run.steps EXCEPT ![i] = step]
           next == Called(run)
<1>1. i \in 1 .. Len(run.steps) /\ run.steps[i] \in Step
  BY RunFields
<1>2. /\ step \in Step /\ step.id = run.steps[i].id
      /\ step.plan = run.steps[i].plan /\ step.confirm = run.steps[i].confirm
      /\ step.ran = (IF run.steps[i].ran = 0 THEN 1 ELSE 2) /\ step.status = "running"
  <2> DEFINE ran == IF run.steps[i].ran = 0 THEN 1 ELSE 2
  <2>1. ran \in 0 .. 2
    OBVIOUS
  <2>2. step = [run.steps[i] EXCEPT !.status = "running", !.ran = ran]
    OBVIOUS
  <2> HIDE DEF ran, step
  <2>3. step \in Step
    BY <1>1, <2>1, <2>2 DEF Step, StepStatus, RunStatus
  <2>4. /\ step.id = run.steps[i].id /\ step.plan = run.steps[i].plan
        /\ step.confirm = run.steps[i].confirm
        /\ step.ran = ran /\ step.status = "running"
    BY <1>1, <2>2 DEF Step
  <2> QED BY <2>3, <2>4 DEF ran
<1>3. next = [run EXCEPT !.steps = steps]
  BY <1>1, RunFields DEF Called
<1> HIDE DEF step
<1>4. /\ steps \in Seq(Step) /\ Len(steps) = Len(run.steps)
      /\ \A j \in 1 .. Len(run.steps) : j # i => steps[j] = run.steps[j]
      /\ steps[i] = step
  BY <1>1, <1>2, PutStep, RunFields
<1> HIDE DEF next, steps
<1>5. /\ next \in Run /\ next.steps = steps /\ next.index = run.index
      /\ next.status = run.status
  BY <1>2, <1>3, <1>4 DEF Run
<1>6. SameBudget(run, next)
  BY <1>3 DEF Run, SameBudget
<1>7. OnlyStep(run, next, i)
  BY <1>2, <1>4, <1>5 DEF OnlyStep
<1> QED BY <1>2, <1>4, <1>5, <1>6, <1>7 DEF next

(* The run with its index at the first open step. *)
LEMMA OpenedIs ==
    ASSUME NEW run \in Run, NEW index \in Nat, NEW open, open = [run EXCEPT !.index = index]
    PROVE  /\ open \in Run
           /\ open.index = index
           /\ open.steps = run.steps
           /\ open.status = run.status
           /\ SameBudget(run, open)
  BY DEF Run, SameBudget

(* What the loop makes of a run: the branches of Settle.                   *)
LEMMA SettleCases ==
    ASSUME NEW run \in Run, NEW limit, NEW open, open = [run EXCEPT !.index = FirstOpen(run)]
    PROVE  \/ /\ IsOver(run) \/ run.status = "waiting"
              /\ Settle(run, limit) = run
           \/ /\ ~IsOver(run) /\ run.status # "waiting"
              /\ run.index >= Len(run.steps)
              /\ Settle(run, limit) = Finished(run)
           \/ /\ ~IsOver(run) /\ run.status # "waiting"
              /\ run.index < Len(run.steps)
              /\ Exceeded(run, limit) # "none"
              /\ Settle(run, limit) = Failed(run, Exceeded(run, limit))
           \/ /\ ~IsOver(run) /\ run.status # "waiting"
              /\ run.index < Len(run.steps)
              /\ Exceeded(run, limit) = "none"
              /\ \/ /\ open.index = Len(run.steps)
                    /\ Settle(run, limit) = Finished(open)
                 \/ /\ open.index # Len(run.steps)
                    /\ run.steps[open.index + 1].confirm
                    /\ Settle(run, limit) = Paused(open)
                 \/ /\ open.index # Len(run.steps)
                    /\ ~run.steps[open.index + 1].confirm
                    /\ Settle(run, limit) = Called(open)
  BY RunFields DEF Settle

LEMMA ExceededIs ==
    ASSUME NEW run, NEW limit
    PROVE  Exceeded(run, limit) \in Error
  BY DEF Exceeded, Error

LEMMA SettleIs ==
    ASSUME NEW run \in Run, NEW limit
    PROVE  /\ Settle(run, limit) \in Run
           /\ Len(Settle(run, limit).steps) = Len(run.steps)
           /\ Frozen(run, Settle(run, limit))
           /\ Settle(run, limit).status = "running" =>
                Settle(run, limit).index < Len(Settle(run, limit).steps)
<1> DEFINE open == [run EXCEPT !.index = FirstOpen(run)]
           next == Settle(run, limit)
<1>1. ASSUME run.index < Len(run.steps)
      PROVE  /\ open \in Run /\ open.steps = run.steps
             /\ open.index # Len(run.steps) => open.index < Len(open.steps)
  <2>1. FirstOpen(run) \in run.index .. Len(run.steps)
    BY <1>1, FirstOpenIs, RunFields
  <2>2. FirstOpen(run) \in Nat
    BY <2>1, RunFields
  <2>3. open \in Run /\ open.steps = run.steps /\ open.index = FirstOpen(run)
    BY <2>2, OpenedIs
  <2> QED BY <2>1, <2>3, RunFields
<1>2. CASE next = run /\ (IsOver(run) \/ run.status = "waiting")
  BY <1>2 DEF Frozen, IsOver, Terminal
<1>3. CASE next = Finished(run) /\ ~IsOver(run)
  BY <1>3, FinishedIs DEF Frozen
<1>4. CASE next = Failed(run, Exceeded(run, limit)) /\ ~IsOver(run)
  BY <1>4, FailedIs, ExceededIs DEF Frozen
<1>5. CASE /\ ~IsOver(run) /\ run.index < Len(run.steps)
           /\ next = Finished(open)
  BY <1>1, <1>5, FinishedIs DEF Frozen
<1>6. CASE /\ ~IsOver(run) /\ run.index < Len(run.steps)
           /\ open.index # Len(run.steps)
           /\ next = Paused(open)
  BY <1>1, <1>6, PausedIs DEF Frozen, OnlyStep
<1>7. CASE /\ ~IsOver(run) /\ run.index < Len(run.steps)
           /\ open.index # Len(run.steps)
           /\ next = Called(open)
  BY <1>1, <1>7, CalledIs DEF Frozen, OnlyStep
<1> QED BY <1>2, <1>3, <1>4, <1>5, <1>6, <1>7, SettleCases

LEMMA StartedIs ==
    ASSUME NEW run \in Run, NEW limit
    PROVE  /\ Started(run, limit) \in Run
           /\ Len(Started(run, limit).steps) = Len(run.steps)
           /\ Frozen(run, Started(run, limit))
           /\ Started(run, limit).status = "running" =>
                Started(run, limit).index < Len(Started(run, limit).steps)
<1> DEFINE begun == [run EXCEPT !.status = "running"]
<1>1. begun \in Run /\ begun.steps = run.steps
  BY DEF Run, RunStatus
<1> HIDE DEF begun
<1>2. CASE IsOver(run)
  BY <1>2 DEF Started, Frozen, IsOver, Terminal
<1>3. CASE ~IsOver(run) /\ run.cancel
  BY <1>3, CancelledIs DEF Started, Frozen, IsOver, Terminal
<1>4. CASE ~IsOver(run) /\ ~run.cancel
  <2>1. Started(run, limit) = Settle(begun, limit)
    BY <1>4 DEF Started, begun
  <2> QED BY <1>1, <1>4, <2>1, SettleIs DEF Frozen
<1> QED BY <1>2, <1>3, <1>4

LEMMA ResumedIs ==
    ASSUME NEW run \in Run, NEW limit
    PROVE  /\ Resumed(run, limit) \in Run
           /\ Len(Resumed(run, limit).steps) = Len(run.steps)
           /\ Frozen(run, Resumed(run, limit))
           /\ Resumed(run, limit).status = "running" =>
                Resumed(run, limit).index < Len(Resumed(run, limit).steps)
  BY StartedIs DEF Resumed, Frozen

LEMMA AnsweredAndResumedIs ==
    ASSUME NEW run \in Run, NEW id, NEW ok, NEW limit
    PROVE  LET next == AnsweredAndResumed(run, id, ok, limit)
           IN  /\ next \in Run
               /\ Len(next.steps) = Len(run.steps)
               /\ Frozen(run, next)
               /\ next.status = "running" => next.index < Len(next.steps)
<1>1. CASE IsOver(run)
  BY <1>1 DEF AnsweredAndResumed, Frozen, IsOver, Terminal
<1>2. CASE ~IsOver(run)
  <2>1. AnsweredAndResumed(run, id, ok, limit) = Started(Answered(run, id, ok), limit)
    BY <1>2 DEF AnsweredAndResumed
  <2>2. Answered(run, id, ok) \in Run /\ Len(Answered(run, id, ok).steps) = Len(run.steps)
    BY AnsweredIs
  <2> QED BY <1>2, <2>1, <2>2, StartedIs DEF Frozen
<1> QED BY <1>1, <1>2

LEMMA NewStepsAre ==
    ASSUME NEW plan \in Plan, NEW before \in Nat, NEW confirms \in Seq(BOOLEAN),
           before + Len(confirms) <= MaxSteps
    PROVE  /\ NewSteps(plan, before, confirms) \in Seq(Step)
           /\ Len(NewSteps(plan, before, confirms)) = Len(confirms)
           /\ \A i \in 1 .. Len(confirms) :
                NewSteps(plan, before, confirms)[i] =
                    [id |-> before + i, plan |-> plan, confirm |-> confirms[i],
                     status |-> "pending", result |-> NoResult, ran |-> 0]
<1> DEFINE steps == NewSteps(plan, before, confirms)
<1>1. \A i \in 1 .. Len(confirms) :
        steps[i] = [id |-> before + i, plan |-> plan, confirm |-> confirms[i],
                    status |-> "pending", result |-> NoResult, ran |-> 0]
  BY DEF NewSteps
<1>2. DOMAIN steps = 1 .. Len(confirms) /\ Len(confirms) \in Nat
  BY DEF NewSteps
<1>3. ASSUME NEW i \in 1 .. Len(confirms)
      PROVE  [id |-> before + i, plan |-> plan, confirm |-> confirms[i],
              status |-> "pending", result |-> NoResult, ran |-> 0] \in Step
  BY <1>2, RunAssumption DEF Step, StepStatus, RunStatus
<1>4. steps = [i \in 1 .. Len(confirms) |-> steps[i]]
  BY <1>2 DEF NewSteps
<1> HIDE DEF steps
<1>5. steps \in [1 .. Len(confirms) -> Step]
  BY <1>1, <1>3, <1>4, Zenon
<1>6. steps \in Seq(Step) /\ Len(steps) = Len(confirms)
  BY <1>2, <1>5
<1> QED BY <1>1, <1>6 DEF steps

LEMMA NewRunIs ==
    ASSUME NEW confirms \in Seq(BOOLEAN), Len(confirms) <= MaxSteps
    PROVE  /\ NewRun(confirms) \in Run
           /\ NewRun(confirms).steps = NewSteps(0, 0, confirms)
<1> DEFINE steps == NewSteps(0, 0, confirms)
<1>1. steps \in Seq(Step)
  BY NewStepsAre, RunAssumption DEF Plan
<1>2. 0 \in 0 .. MaxReplans
  BY RunAssumption
<1> HIDE DEF steps
<1>3. NewRun(confirms) = [status |-> "pending", steps |-> steps, index |-> 0, calls |-> 0,
        replans |-> 0, spent |-> FALSE, cancel |-> FALSE, pending |-> 0, error |-> "none"]
  BY DEF NewRun, steps
<1> QED BY <1>1, <1>2, <1>3 DEF Run, RunStatus, Error, steps

(* The rest of the plan is replaced: which steps stay, and which are new.  *)
LEMMA ReplannedIs ==
    ASSUME NEW run \in Run, NEW confirms \in Seq(BOOLEAN), CanReplan(run, confirms)
    PROVE  LET next == Replanned(run, confirms)
               kept == IF run.index < Len(run.steps) THEN run.index ELSE Len(run.steps)
           IN  /\ next \in Run
               /\ Len(next.steps) = kept + Len(confirms)
               /\ Len(next.steps) <= MaxSteps
               /\ \A i \in 1 .. kept : next.steps[i] = run.steps[i]
               /\ \A i \in 1 .. Len(confirms) : next.steps[kept + i] =
                    [id |-> run.index + i, plan |-> run.replans + 1, confirm |-> confirms[i],
                     status |-> "pending", result |-> NoResult, ran |-> 0]
               /\ next.index = run.index
               /\ next.status = IF run.status = "waiting" THEN "waiting" ELSE "running"
               /\ SameBudget(run, next)
<1> DEFINE next == Replanned(run, confirms)
           kept == IF run.index < Len(run.steps) THEN run.index ELSE Len(run.steps)
           new == NewSteps(run.replans + 1, run.index, confirms)
           steps == SubSeq(run.steps, 1, kept) \o new
           replans == run.replans + 1
           status == IF run.status = "waiting" THEN run.status ELSE "running"
<1>1. kept \in 0 .. Len(run.steps) /\ kept <= run.index /\ Len(confirms) \in Nat
  BY RunFields
<1>2. replans \in Plan /\ run.index + Len(confirms) <= MaxSteps
  BY RunFields, RunAssumption DEF CanReplan, Plan
<1>3. /\ new \in Seq(Step) /\ Len(new) = Len(confirms)
      /\ \A i \in 1 .. Len(confirms) : new[i] =
            [id |-> run.index + i, plan |-> run.replans + 1, confirm |-> confirms[i],
             status |-> "pending", result |-> NoResult, ran |-> 0]
  BY <1>2, NewStepsAre, RunFields
<1>4. next = [run EXCEPT !.steps = steps, !.replans = replans, !.status = status]
  BY RunFields DEF Replanned
<1> HIDE DEF kept, new
<1>5. SubSeq(run.steps, 1, kept) \in Seq(Step)
  BY <1>1, RunFields
<1>6. Len(SubSeq(run.steps, 1, kept)) = kept
  BY <1>1, RunFields
<1>7. \A i \in 1 .. kept : SubSeq(run.steps, 1, kept)[i] = run.steps[i]
  BY <1>1, RunFields
<1>8. /\ steps \in Seq(Step) /\ Len(steps) = kept + Len(confirms)
      /\ \A i \in 1 .. kept : steps[i] = run.steps[i]
      /\ \A i \in 1 .. Len(confirms) : steps[kept + i] = new[i]
  BY <1>1, <1>3, <1>5, <1>6, <1>7
<1>9. status \in RunStatus /\ status = (IF run.status = "waiting" THEN "waiting" ELSE "running")
  BY DEF RunStatus
<1>10. replans \in 0 .. MaxReplans
  BY <1>2 DEF Plan
<1> HIDE DEF next, steps, replans, status
<1>11. next \in Run /\ next.steps = steps /\ next.index = run.index /\ next.status = status
  BY <1>4, <1>8, <1>9, <1>10 DEF Run
<1>12. SameBudget(run, next)
  BY <1>4 DEF Run, SameBudget
<1>13. Len(next.steps) <= MaxSteps
  BY <1>1, <1>2, <1>8, <1>11, RunAssumption, RunFields
<1> QED BY <1>3, <1>8, <1>9, <1>11, <1>12, <1>13 DEF next, kept

(***************************************************************************)
(* The types, and which runs the store may hold: an identifier that a run  *)
(* is about to get is not in it, also after older runs were pushed out.    *)
(***************************************************************************)

RunId == ({"api", "other"} \cup Requests) \X Nat

Awaiting == [step : 0 .. MaxSteps, plan : Plan]

Local == [pc : {"idle", "turn", "plan", "tool", "done", "raised"}, det : BOOLEAN,
          turn : Nat, calls : Nat, late : BOOLEAN, seen : Seq(What),
          verdict : {"", "FINISH"}]

TypeInv ==
    /\ order \in Seq(RunId)
    /\ Len(order) <= MaxRuns
    /\ runs \in [{order[i] : i \in DOMAIN order} -> Run]
    /\ task \in [Tasks -> Awaiting]
    /\ request \in [Requests -> Local]
    /\ created \in BOOLEAN
    /\ others \in 0 .. MaxOthers
    /\ crossed \in BOOLEAN

KnownInv ==
    /\ Stored(ApiRun) => created /\ Len(runs[ApiRun].steps) <= MaxSteps
    /\ created \/ \A t \in Tasks : task[t] = Idle
    /\ \A n \in Nat : Stored(<<"other", n>>) => n <= others

(***************************************************************************)
(* An investigation: what it has seen, the runs it has in the store, and   *)
(* what its own run, which is running until it is done, tells of it.       *)
(***************************************************************************)

\* The run of a turn, while its tool is awaited.
Launched(turn) == Started(TurnRun(turn), OneStep)

\* Each turn that is over has shown the planner one thing.
SeenInv(q) ==
    /\ At(q, "idle") => request[q].calls = 0 /\ request[q].seen = <<>> /\ request[q].turn = 0
    /\ request[q].turn <= MaxSteps
    /\ Len(request[q].seen) <= request[q].turn
    /\ At(q, "turn") => Len(request[q].seen) = request[q].turn
    /\ request[q].pc \in {"plan", "tool"} => Len(request[q].seen) + 1 = request[q].turn

RunsInv(q) ==
    /\ \A n \in Nat : Stored(<<q, n>>) =>
        /\ ~At(q, "idle")
        /\ n <= request[q].turn
        /\ At(q, "plan") => n < request[q].turn
    /\ At(q, "tool") /\ Stored(StepRun(q)) => runs[StepRun(q)] = Launched(request[q].turn)

Tells(q, run) ==
    /\ run.status = (IF At(q, "done") THEN "finished" ELSE "running")
    /\ ~run.cancel
    /\ Len(run.steps) = request[q].calls
    /\ run.calls = request[q].calls

RequestInv(q) ==
    /\ SeenInv(q)
    /\ RunsInv(q)
    /\ ~At(q, "idle") /\ Stored(RequestRun(q)) => Tells(q, runs[RequestRun(q)])

(***************************************************************************)
(* The run of the executor's callers, as long as it was not crossed.       *)
(***************************************************************************)

\* Of each step: it is named by its place, and called once and when confirmed.
StepOrderly(run, i) ==
    LET step == run.steps[i]
    IN  /\ step.id = i
        /\ step.ran <= 1
        /\ step.confirm => step.ran = 0
        /\ step.status = "finished" => step.ran = 1 /\ step.result = step.plan
        /\ step.status = "failed" => step.ran = 1
        /\ step.status = "cancelled" => IsOver(run)
        /\ step.status = "waiting" => step.confirm
        /\ i <= run.index => step.status \in Settled
        /\ i > run.index => step.status \in {"pending", "waiting", "running", "cancelled"}
        /\ i > run.index + 1 => step.ran = 0 /\ step.status \in {"pending", "cancelled"}

Orderly(run) ==
    /\ run.index <= Len(run.steps)
    /\ Len(run.steps) <= MaxSteps
    /\ \A i \in DOMAIN run.steps : StepOrderly(run, i)

\* A run that is not over can go on.
Healthy(run) ==
    ~IsOver(run) => ~run.cancel /\ run.calls < MaxToolCalls /\ ~run.spent

\* What the current step is like when no task awaits its tool, and when one does.
Quiet(run) ==
    run.index < Len(run.steps) /\ ~IsOver(run) =>
        LET step == run.steps[run.index + 1]
        IN  step.ran = 0 /\ step.status \in {"pending", "waiting"}

Busy(run, awaited) ==
    /\ run.index < Len(run.steps)
    /\ run.status \in {"running", "cancelled"}
    /\ awaited.step = run.index + 1
    /\ LET step == run.steps[run.index + 1]
       IN  /\ step.plan = awaited.plan
           /\ step.ran = 1
           /\ ~step.confirm
           /\ step.status \in {"running", "cancelled"}

Steady(run, awaited) ==
    /\ Orderly(run)
    /\ Healthy(run)
    /\ awaited = Idle => Quiet(run)
    /\ awaited # Idle => Busy(run, awaited)

ApiInv ==
    Stored(ApiRun) /\ ~crossed =>
        /\ \A t, u \in Tasks : task[t] # Idle /\ task[u] # Idle => t = u
        /\ \A t \in Tasks : task[t] # Idle => Steady(runs[ApiRun], task[t])
        /\ (\A t \in Tasks : task[t] = Idle) => Steady(runs[ApiRun], Idle)

Inv ==
    /\ TypeInv
    /\ KnownInv
    /\ \A q \in Requests : RequestInv(q)
    /\ ApiInv

(***************************************************************************)
(* The store: what creating and saving a run does to it.                   *)
(***************************************************************************)

LEMMA TypeFacts ==
    ASSUME TypeInv
    PROVE  /\ \A id \in DOMAIN runs : id \in RunId /\ runs[id] \in Run
           /\ \A t \in Tasks : task[t] \in Awaiting
           /\ \A q \in Requests : request[q] \in Local
<1>1. \A i \in DOMAIN order : order[i] \in RunId
  BY DEF TypeInv
<1>2. DOMAIN runs = {order[i] : i \in DOMAIN order}
  BY DEF TypeInv
<1> QED BY <1>1, <1>2 DEF TypeInv

(* A run of the store that a step neither changes nor puts there. *)
Untouched(id) ==
    id \in DOMAIN runs' => id \in DOMAIN runs /\ runs'[id] = runs[id]

StoreTypes ==
    /\ order \in Seq(RunId)
    /\ Len(order) <= MaxRuns
    /\ runs \in [{order[i] : i \in DOMAIN order} -> Run]

LEMMA CreateIs ==
    ASSUME StoreTypes, NEW id \in RunId, NEW run \in Run, Create(id, run)
    PROVE  /\ StoreTypes'
           /\ id \in DOMAIN runs' => runs'[id] = run
           /\ \A k : k # id => Untouched(k)
<1> DEFINE all == Append(order, id)
           kept == IF Len(all) > MaxRuns THEN Tail(all) ELSE all
<1>1. all \in Seq(RunId) /\ Len(all) = Len(order) + 1 /\ all # <<>>
  BY DEF StoreTypes
<1>2. \A i \in DOMAIN all : all[i] \in {order[j] : j \in DOMAIN order} \cup {id}
  BY DEF StoreTypes
<1> HIDE DEF all
<1>3. kept \in Seq(RunId) /\ Len(kept) <= MaxRuns
  <2>1. Len(order) \in Nat /\ Len(order) <= MaxRuns
    BY DEF StoreTypes
  <2> QED BY <1>1, <2>1, HarnessAssumption
<1>4. \A i \in DOMAIN kept : kept[i] \in {order[j] : j \in DOMAIN order} \cup {id}
  <2>1. CASE Len(all) > MaxRuns
    <3>1. kept = Tail(all)
      BY <2>1
    <3>2. \A i \in DOMAIN kept : i + 1 \in DOMAIN all /\ kept[i] = all[i + 1]
      BY <1>1, <3>1
    <3> QED BY <1>2, <3>2
  <2>2. CASE ~(Len(all) > MaxRuns)
    BY <1>2, <2>2
  <2> QED BY <2>1, <2>2
<1>5. /\ order' = kept
      /\ runs' = [k \in {kept[i] : i \in DOMAIN kept} |-> IF k = id THEN run ELSE runs[k]]
  BY DEF Create, all
<1> HIDE DEF kept
<1>6. DOMAIN runs = {order[j] : j \in DOMAIN order}
  BY DEF StoreTypes
<1>7. \A k \in DOMAIN runs' : k \in DOMAIN runs \cup {id}
  BY <1>4, <1>5, <1>6
<1>8. \A k \in DOMAIN runs' : runs'[k] = IF k = id THEN run ELSE runs[k]
  BY <1>5
<1>9. StoreTypes'
  <2>1. \A k \in DOMAIN runs : runs[k] \in Run
    BY DEF StoreTypes
  <2>2. \A k \in DOMAIN runs' : runs'[k] \in Run
    BY <1>7, <1>8, <2>1
  <2>3. runs' \in [{order'[i] : i \in DOMAIN order'} -> Run]
    BY <1>5, <2>2
  <2> QED BY <1>3, <1>5, <2>3 DEF StoreTypes
<1> QED BY <1>7, <1>8, <1>9 DEF Untouched

LEMMA SaveIs ==
    ASSUME StoreTypes, NEW id \in DOMAIN runs, NEW run \in Run, Save(id, run)
    PROVE  /\ StoreTypes'
           /\ DOMAIN runs' = DOMAIN runs
           /\ runs'[id] = run
           /\ \A k : k # id => Untouched(k)
  BY DEF StoreTypes, Save, Untouched

(***************************************************************************)
(* The run of a turn: how it is when its tool is called, and what is made  *)
(* of it when the tool has ended.                                          *)
(***************************************************************************)

LEMMA TurnRunIs ==
    ASSUME NEW turn \in 1 .. MaxSteps
    PROVE  /\ TurnRun(turn) \in Run
           /\ TurnRun(turn).status = "pending"
           /\ TurnRun(turn).index = 0 /\ TurnRun(turn).calls = 0
           /\ ~TurnRun(turn).spent /\ ~TurnRun(turn).cancel
           /\ Len(TurnRun(turn).steps) = 1
           /\ TurnRun(turn).steps[1].id = turn
           /\ ~TurnRun(turn).steps[1].confirm
           /\ TurnRun(turn).steps[1].status = "pending"
<1> DEFINE one == <<FALSE>>
           none == <<>>
           before == turn - 1
           new == NewRun(none)
           steps == NewSteps(0, before, one)
           run == TurnRun(turn)
<1>1. /\ one \in Seq(BOOLEAN) /\ Len(one) = 1 /\ ~one[1]
      /\ none \in Seq(BOOLEAN) /\ Len(none) <= MaxSteps
      /\ before \in Nat /\ before + Len(one) <= MaxSteps /\ before + 1 = turn /\ 0 \in Plan
  BY RunAssumption DEF Plan
<1>2. run = [new EXCEPT !.steps = steps]
  BY DEF TurnRun
<1>3. new.status = "pending" /\ new.index = 0 /\ new.calls = 0 /\ ~new.spent /\ ~new.cancel
  BY DEF NewRun
<1> HIDE DEF one, none, before, run
<1>4. /\ steps \in Seq(Step) /\ Len(steps) = 1
      /\ steps[1] = [id |-> before + 1, plan |-> 0, confirm |-> one[1], status |-> "pending",
                     result |-> NoResult, ran |-> 0]
  <2>1. /\ steps \in Seq(Step) /\ Len(steps) = Len(one)
        /\ \A i \in 1 .. Len(one) :
            steps[i] = [id |-> before + i, plan |-> 0, confirm |-> one[i], status |-> "pending",
                        result |-> NoResult, ran |-> 0]
    BY <1>1, NewStepsAre
  <2> HIDE DEF steps
  <2>2. 1 \in 1 .. Len(one)
    BY <1>1
  <2> QED BY <1>1, <2>1, <2>2
<1>5. new \in Run
  BY <1>1, NewRunIs
<1>6. steps[1].id = turn /\ ~steps[1].confirm /\ steps[1].status = "pending"
  BY <1>1, <1>4
<1> HIDE DEF new, steps
<1>7. /\ run \in Run /\ run.steps = steps /\ run.status = new.status /\ run.index = new.index
      /\ run.calls = new.calls /\ run.spent = new.spent /\ run.cancel = new.cancel
  BY <1>2, <1>4, <1>5 DEF Run
<1> QED BY <1>3, <1>4, <1>6, <1>7 DEF run

LEMMA LaunchedIs ==
    ASSUME NEW turn \in 1 .. MaxSteps
    PROVE  /\ Launched(turn) \in Run
           /\ Launched(turn).status = "running"
           /\ Launched(turn).index = 0
           /\ Len(Launched(turn).steps) = 1
           /\ Launched(turn).steps[1].id = turn
<1> DEFINE new == TurnRun(turn)
           begun == [new EXCEPT !.status = "running"]
           open == [begun EXCEPT !.index = FirstOpen(begun)]
           launched == Launched(turn)
<1>1. /\ new \in Run /\ new.status = "pending" /\ new.index = 0 /\ new.calls = 0
      /\ ~new.spent /\ ~new.cancel
      /\ Len(new.steps) = 1 /\ new.steps[1].id = turn
      /\ ~new.steps[1].confirm /\ new.steps[1].status = "pending"
  BY TurnRunIs
<1>2. launched = Started(new, OneStep)
  BY DEF Launched
<1> HIDE DEF new, launched
<1>3. /\ begun \in Run /\ begun.steps = new.steps /\ begun.index = 0 /\ begun.calls = 0
      /\ ~begun.spent /\ begun.status = "running"
  BY <1>1 DEF Run, RunStatus
<1>4. launched = Settle(begun, OneStep)
  BY <1>1, <1>2, Zenon DEF Started, IsOver, Terminal
<1> HIDE DEF begun
<1>5. Exceeded(begun, OneStep) = "none"
  <2>1. OneStep.steps = 1 /\ OneStep.calls = 1
    BY DEF OneStep
  <2>2. ~(begun.index >= OneStep.steps) /\ ~(begun.calls >= OneStep.calls)
    BY <1>3, <2>1
  <2>3. ~(Len(begun.steps) > OneStep.steps)
    <3>1. Len(begun.steps) = 1
      BY <1>1, <1>3
    <3> QED BY <2>1, <3>1
  <2>4. ~begun.spent
    BY <1>3
  <2> QED BY <2>2, <2>3, <2>4, Zenon DEF Exceeded
<1>6. FirstOpen(begun) = 0
  BY <1>1, <1>3, FirstOpenIs DEF Settled, Terminal
<1>7. open \in Run /\ open.index = 0 /\ open.steps = new.steps /\ open.status = "running"
  BY <1>3, <1>6, OpenedIs
<1>8. launched = Called(open)
  <2>1. begun.index < Len(begun.steps) /\ ~IsOver(begun) /\ begun.status # "waiting"
    BY <1>1, <1>3 DEF IsOver, Terminal
  <2>2. open.index # Len(begun.steps) /\ ~begun.steps[open.index + 1].confirm
    BY <1>1, <1>3, <1>7
  <2> QED BY <1>3, <1>4, <1>5, <2>1, <2>2, RunFields DEF Settle
<1> HIDE DEF open
<1>9. open.index < Len(open.steps)
  BY <1>1, <1>7
<1>10. /\ launched \in Run /\ launched.status = open.status /\ launched.index = open.index
       /\ OnlyStep(open, launched, open.index + 1)
  BY <1>7, <1>8, <1>9, CalledIs
<1> QED BY <1>1, <1>7, <1>10 DEF OnlyStep, launched

\* What is made of it when the tool has ended.
Ended(turn, ok) == Settle(Recorded(Launched(turn), turn, 0, ok, FALSE), OneStep)

LEMMA EndedIs ==
    ASSUME NEW turn \in 1 .. MaxSteps, NEW ok \in BOOLEAN
    PROVE  /\ Ended(turn, ok) \in Run
           /\ Len(Ended(turn, ok).steps) = 1
           /\ Ended(turn, ok).steps[1] \in Step
           /\ Ended(turn, ok).steps[1].id = turn
           /\ Ended(turn, ok).steps[1].status = IF ok THEN "finished" ELSE "failed"
<1> DEFINE run == Launched(turn)
           slow == FALSE
           recorded == Recorded(run, turn, 0, ok, slow)
           ended == Ended(turn, ok)
<1>1. /\ run \in Run /\ run.status = "running" /\ run.index = 0 /\ Len(run.steps) = 1
      /\ run.steps[1].id = turn
  BY LaunchedIs
<1>2. ended = Settle(recorded, OneStep)
  BY DEF Ended
<1> HIDE DEF run, ended
<1>3. Places(run, turn) = {1}
  BY <1>1, RunFields DEF Places
<1>4. Place(run, turn) = 1
  BY <1>3 DEF Place
<1>5. 0 \in Plan /\ slow \in BOOLEAN /\ Places(run, turn) # {}
  BY <1>3, RunAssumption DEF Plan
<1> HIDE DEF slow
<1>6. /\ recorded \in Run /\ Len(recorded.steps) = Len(run.steps)
      /\ recorded.status = run.status /\ recorded.index = run.index + 1
      /\ recorded.steps[Place(run, turn)].status = (IF ok THEN "finished" ELSE "failed")
      /\ recorded.steps[Place(run, turn)].id = run.steps[Place(run, turn)].id
  BY <1>1, <1>5, RecordedIs DEF OnlyStep
<1>7. /\ recorded.index = 1 /\ Len(recorded.steps) = 1 /\ recorded.status = "running"
      /\ recorded.steps[1].status = (IF ok THEN "finished" ELSE "failed")
      /\ recorded.steps[1].id = turn
  BY <1>1, <1>4, <1>6
<1>8. ended = Finished(recorded)
  <2>1. ~(IsOver(recorded) \/ recorded.status = "waiting")
    BY <1>7 DEF IsOver, Terminal
  <2>2. recorded.index >= Len(recorded.steps)
    <3>1. recorded.index = 1 /\ Len(recorded.steps) = 1
      BY <1>7
    <3> HIDE DEF recorded
    <3> QED BY <3>1
  <2> QED BY <1>2, <2>1, <2>2, Zenon DEF Settle
<1>9. ended \in Run /\ ended.steps = recorded.steps
  BY <1>6, <1>8, FinishedIs
<1>10. recorded.steps[1] \in Step
  BY <1>6, <1>7, RunFields
<1> QED BY <1>6, <1>7, <1>9, <1>10 DEF ended

(***************************************************************************)
(* Steps that leave something alone keep what is said of it.               *)
(***************************************************************************)

Final == \A id \in DOMAIN runs \cap DOMAIN runs' : Frozen(runs[id], runs'[id])

LEMMA UntouchedFrozen ==
    ASSUME NEW id \in DOMAIN runs \cap DOMAIN runs', Untouched(id)
    PROVE  Frozen(runs[id], runs'[id])
  BY DEF Untouched, Frozen

LEMMA RequestKept ==
    ASSUME NEW q \in Requests, RequestInv(q), request'[q] = request[q],
           request[q].turn \in Nat, \A n \in Nat : Untouched(<<q, n>>)
    PROVE  RequestInv(q)'
<1>1. SeenInv(q)'
  BY DEF RequestInv, SeenInv, At
<1>2. RunsInv(q)'
  BY DEF RequestInv, RunsInv, At, Stored, StepRun, Untouched
<1>3. ~At(q, "idle")' /\ Stored(RequestRun(q))' => Tells(q, runs[RequestRun(q)])'
  <2> SUFFICES ASSUME ~At(q, "idle")', Stored(RequestRun(q))'
               PROVE  Tells(q, runs[RequestRun(q)])'
    OBVIOUS
  <2>1. Untouched(RequestRun(q))
    BY DEF RequestRun
  <2>2. Stored(RequestRun(q)) /\ runs'[RequestRun(q)] = runs[RequestRun(q)] /\ ~At(q, "idle")
    BY <2>1 DEF Untouched, Stored, At, RequestRun
  <2>3. Tells(q, runs[RequestRun(q)])
    BY <2>2 DEF RequestInv
  <2> QED BY <2>2, <2>3 DEF Tells, At, RequestRun
<1> QED BY <1>1, <1>2, <1>3 DEF RequestInv

LEMMA ApiKept ==
    ASSUME ApiInv, Untouched(ApiRun), UNCHANGED <<task, crossed>>
    PROVE  ApiInv'
  BY DEF ApiInv, Untouched, Stored, ApiRun

(* A step of investigation q: it touches only runs of its own.             *)
LEMMA RequestStep ==
    ASSUME Inv, NEW q \in Requests, StoreTypes', NEW local \in Local,
           request' = [request EXCEPT ![q] = local],
           UNCHANGED <<task, created, others, crossed>>,
           \A r \in {"api", "other"} \cup (Requests \ {q}) : \A n \in Nat : Untouched(<<r, n>>),
           RequestInv(q)'
    PROVE  Inv'
<1>1. TypeInv'
  BY DEF Inv, TypeInv, StoreTypes
<1>2. Untouched(ApiRun)
  BY DEF ApiRun
<1>3. KnownInv'
  <2>1. \A n \in Nat : Untouched(<<"other", n>>)
    OBVIOUS
  <2> QED BY <1>2, <2>1 DEF Inv, KnownInv, Untouched, Stored, ApiRun
<1>4. ApiInv'
  BY <1>2, ApiKept DEF Inv
<1>5. ASSUME NEW r \in Requests, r # q PROVE RequestInv(r)'
  <2>1. request'[r] = request[r] /\ request[r].turn \in Nat
    BY <1>5 DEF Inv, TypeInv, Local
  <2> QED BY <1>5, <2>1, RequestKept DEF Inv
<1> QED BY <1>1, <1>3, <1>4, <1>5 DEF Inv

(* A step on the run of the executor's callers, but for ApiInv.            *)
LEMMA ApiStep ==
    ASSUME Inv, Stored(ApiRun), NEW run \in Run, Save(ApiRun, run),
           Frozen(runs[ApiRun], run), Len(run.steps) <= MaxSteps,
           task' \in [Tasks -> Awaiting], crossed' \in BOOLEAN,
           UNCHANGED <<request, created, others>>
    PROVE  /\ TypeInv' /\ KnownInv' /\ \A q \in Requests : RequestInv(q)'
           /\ Final
           /\ runs'[ApiRun] = run
<1>1. StoreTypes /\ ApiRun \in DOMAIN runs
  BY DEF Inv, TypeInv, StoreTypes, Stored
<1>2. /\ StoreTypes' /\ DOMAIN runs' = DOMAIN runs /\ runs'[ApiRun] = run
      /\ \A k : k # ApiRun => Untouched(k)
  BY <1>1, SaveIs
<1>3. TypeInv'
  BY <1>2 DEF Inv, TypeInv, StoreTypes
<1>4. KnownInv'
  <2>1. created
    BY DEF Inv, KnownInv
  <2>2. \A n \in Nat : <<"other", n>> # ApiRun
    BY DEF ApiRun
  <2> QED BY <1>2, <2>1, <2>2 DEF Inv, KnownInv, Stored, ApiRun
<1>5. ASSUME NEW q \in Requests PROVE RequestInv(q)'
  <2>1. request'[q] = request[q] /\ request[q].turn \in Nat
    BY DEF Inv, TypeInv, Local
  <2>2. \A n \in Nat : <<q, n>> # ApiRun
    BY HarnessAssumption DEF ApiRun
  <2> QED BY <1>2, <2>1, <2>2, RequestKept DEF Inv
<1>6. Final
  BY <1>2, UntouchedFrozen DEF Final
<1> QED BY <1>2, <1>3, <1>4, <1>5, <1>6

(***************************************************************************)
(* The steps of an investigation.                                          *)
(***************************************************************************)

LEMMA StoreTyped == ASSUME Inv PROVE StoreTypes
  BY DEF Inv, TypeInv, StoreTypes

LEMMA LocalFields ==
    ASSUME Inv, NEW q \in Requests
    PROVE  /\ request[q] \in Local
           /\ request[q].turn \in Nat /\ request[q].turn <= MaxSteps
           /\ request[q].calls \in Nat
           /\ request[q].seen \in Seq(What) /\ Len(request[q].seen) \in Nat
           /\ RequestInv(q)
<1>1. request[q] \in Local
  BY DEF Inv, TypeInv
<1>2. request[q].seen \in Seq(What)
  BY <1>1 DEF Local
<1>3. Len(request[q].seen) \in Nat
  BY <1>2
<1>4. RequestInv(q) /\ request[q].turn <= MaxSteps
  BY DEF Inv, RequestInv, SeenInv
<1> QED BY <1>1, <1>2, <1>3, <1>4 DEF Local

(* Its own variables change, not the store.                                *)
LEMMA LocalStep ==
    ASSUME Inv, NEW q \in Requests, NEW local \in Local,
           request' = [request EXCEPT ![q] = local],
           UNCHANGED <<order, runs, task, created, others, crossed>>,
           request[q].pc \in {"turn", "plan", "tool"},
           local.pc \in {"turn", "plan", "raised"},
           local.calls = request[q].calls,
           local.turn >= request[q].turn,
           local.turn <= MaxSteps,
           Len(local.seen) <= local.turn,
           local.pc = "turn" => Len(local.seen) = local.turn,
           local.pc = "plan" => local.turn > request[q].turn /\ Len(local.seen) + 1 = local.turn
    PROVE  Inv' /\ Final
<1>1. request'[q] = local /\ \A k : Untouched(k)
  BY DEF Inv, TypeInv, Untouched
<1>2. StoreTypes'
  BY StoreTyped DEF StoreTypes
<1>3. request[q].turn \in Nat /\ local.turn \in Nat /\ RequestInv(q)
  BY LocalFields DEF Local
<1>4. SeenInv(q)'
  BY <1>1, <1>3 DEF RequestInv, SeenInv, At
<1>5. RunsInv(q)'
  BY <1>1, <1>3 DEF RequestInv, RunsInv, At, Stored, StepRun
<1>6. Stored(RequestRun(q)) => Tells(q, runs[RequestRun(q)])'
  <2> SUFFICES ASSUME Stored(RequestRun(q)) PROVE Tells(q, runs[RequestRun(q)])'
    OBVIOUS
  <2>1. Tells(q, runs[RequestRun(q)])
    BY <1>3 DEF RequestInv, At
  <2> QED BY <1>1, <2>1 DEF Tells, At
<1>7. RequestInv(q)'
  BY <1>4, <1>5, <1>6 DEF RequestInv, Stored, RequestRun
<1>8. Final
  BY <1>1, UntouchedFrozen DEF Final
<1> QED BY <1>1, <1>2, <1>7, <1>8, RequestStep

LEMMA DeadlineStep ==
    ASSUME Inv, NEW q \in Requests, Deadline(q)
    PROVE  Inv' /\ Final
<1> DEFINE local == [request[q] EXCEPT !.late = TRUE]
<1>1. local \in Local
  BY LocalFields DEF Local
<1>2. request' = [request EXCEPT ![q] = local]
  BY DEF Deadline
<1>3. request'[q] = local /\ \A k : Untouched(k)
  BY <1>2 DEF Inv, TypeInv, Deadline, Untouched
<1>4. /\ local.pc = request[q].pc /\ local.turn = request[q].turn
      /\ local.calls = request[q].calls /\ local.seen = request[q].seen
  BY LocalFields DEF Local
<1> HIDE DEF local
<1>5. RequestInv(q) /\ UNCHANGED runs
  BY LocalFields DEF Deadline
<1>6. SeenInv(q)' /\ RunsInv(q)'
  BY <1>3, <1>4, <1>5 DEF RequestInv, SeenInv, RunsInv, At, Stored, StepRun
<1>7. ~At(q, "idle")' /\ Stored(RequestRun(q))' => Tells(q, runs[RequestRun(q)])'
  BY <1>3, <1>4, <1>5 DEF RequestInv, Tells, At, Stored, RequestRun
<1>8. RequestInv(q)' /\ StoreTypes'
  BY <1>6, <1>7, StoreTyped DEF RequestInv, StoreTypes, Deadline
<1>9. Final
  BY <1>3, UntouchedFrozen DEF Final
<1> QED BY <1>1, <1>2, <1>3, <1>8, <1>9, RequestStep DEF Deadline

LEMMA NoSteps == NewSteps(0, 0, <<>>) = <<>>
  BY DEF NewSteps

LEMMA BeginStep ==
    ASSUME Inv, NEW q \in Requests, Begin(q)
    PROVE  Inv' /\ Final
<1> DEFINE none == <<>>
           new == NewRun(none)
           run == [new EXCEPT !.status = "running"]
           local == [request[q] EXCEPT !.pc = "turn"]
<1>0. none \in Seq(BOOLEAN) /\ Len(none) = 0 /\ Len(none) <= MaxSteps
      /\ 0 + Len(none) <= MaxSteps /\ 0 \in Plan
  BY RunAssumption DEF Plan
<1> HIDE DEF none
<1>1. new \in Run /\ new.steps = NewSteps(0, 0, none)
  BY <1>0, NewRunIs
<1>2. ~new.cancel /\ new.calls = 0
  BY DEF NewRun
<1>3. Len(new.steps) = 0
  <2>1. NewSteps(0, 0, none) = none
    BY NoSteps DEF none
  <2> QED BY <1>0, <1>1, <2>1
<1> HIDE DEF new
<1>4. run \in Run /\ run.status = "running" /\ ~run.cancel /\ run.calls = 0 /\ Len(run.steps) = 0
  BY <1>1, <1>2, <1>3 DEF Run, RunStatus
<1> HIDE DEF run
<1>5. /\ RequestRun(q) \in RunId /\ Create(RequestRun(q), run)
      /\ request' = [request EXCEPT ![q] = local]
      /\ At(q, "idle") /\ RequestInv(q)
      /\ UNCHANGED <<task, created, others, crossed>>
  BY LocalFields DEF RunId, RequestRun, Begin, new, run, none
<1>6. /\ StoreTypes' /\ \A k : k # RequestRun(q) => Untouched(k)
      /\ RequestRun(q) \in DOMAIN runs' => runs'[RequestRun(q)] = run
  BY <1>4, <1>5, StoreTyped, CreateIs
<1>7. /\ local \in Local /\ local.pc = "turn" /\ local.turn = request[q].turn
      /\ local.calls = request[q].calls /\ local.seen = request[q].seen
  BY LocalFields DEF Local
<1>8. request'[q] = local
  BY <1>5 DEF Inv, TypeInv
<1> HIDE DEF local
<1>9. ~Stored(RequestRun(q)) /\ \A n \in Nat : ~Stored(<<q, n>>)
  BY <1>5 DEF RequestInv, RunsInv, RequestRun
<1>10. local.turn = 0 /\ local.calls = 0 /\ local.seen = <<>>
  BY <1>5, <1>7, LocalFields DEF RequestInv, SeenInv
<1>11. SeenInv(q)'
  <2>1. Len(local.seen) = 0 /\ 0 <= MaxSteps
    BY <1>10, RunAssumption
  <2> QED BY <1>7, <1>8, <1>10, <2>1 DEF SeenInv, At
<1>12. RunsInv(q)'
  <2>1. ASSUME NEW n \in Nat, Stored(<<q, n>>)' PROVE n = 0
    BY <1>6, <1>9, <2>1 DEF Stored, Untouched, RequestRun
  <2> QED BY <1>7, <1>8, <1>10, <2>1 DEF RunsInv, At
<1>13. Stored(RequestRun(q))' => Tells(q, runs[RequestRun(q)])'
  BY <1>4, <1>6, <1>7, <1>8, <1>10 DEF Tells, At, Stored, RequestRun
<1>14. RequestInv(q)'
  BY <1>11, <1>12, <1>13 DEF RequestInv
<1>15. Final
  BY <1>6, <1>9, UntouchedFrozen DEF Final, Stored
<1>16. \A r \in {"api", "other"} \cup (Requests \ {q}) : \A n \in Nat : Untouched(<<r, n>>)
  BY <1>6, HarnessAssumption DEF RequestRun
<1> QED BY <1>5, <1>6, <1>7, <1>14, <1>15, <1>16, RequestStep


(***************************************************************************)
(* The end of an investigation.  Its run is running until then, so that to *)
(* finish it changes nothing that is final.                                *)
(***************************************************************************)

LEMMA FinalizesStep ==
    ASSUME Inv, NEW q \in Requests,
           request[q].pc \in {"turn", "plan"}, Finalizes(q),
           UNCHANGED <<task, created, others, crossed>>
    PROVE  Inv' /\ Final
<1> DEFINE run == Synced(q, "finished")
           verdict == IF Stored(RequestRun(q)) THEN Verdict(run) ELSE ""
           local == [request[q] EXCEPT !.pc = "done", !.verdict = verdict]
<1>1. /\ request[q] \in Local /\ RequestInv(q) /\ request[q].turn \in Nat
      /\ request[q].calls \in Nat
  BY LocalFields
<1>2. request' = [request EXCEPT ![q] = local]
  <2>1. request \in [Requests -> Local]
    BY DEF Inv, TypeInv
  <2>2. request' = [request EXCEPT ![q].pc = "done", ![q].verdict = verdict]
    BY DEF Finalizes
  <2> HIDE DEF verdict
  <2> QED BY <2>1, <2>2
<1>3. IF Stored(RequestRun(q)) THEN Save(RequestRun(q), run) ELSE UNCHANGED <<order, runs>>
  BY DEF Finalizes
<1>4. ASSUME Stored(RequestRun(q))
      PROVE  /\ run \in Run
             /\ run.status = "finished" /\ run.steps = runs[RequestRun(q)].steps
             /\ run.cancel = runs[RequestRun(q)].cancel
             /\ run.calls = request[q].calls
             /\ Tells(q, runs[RequestRun(q)])
             /\ runs[RequestRun(q)].status = "running"
             /\ ~run.cancel
  <2> DEFINE old == runs[RequestRun(q)]
  <2>1. old \in Run
    BY <1>4, TypeFacts DEF Stored, Inv
  <2>2. Tells(q, old)
    BY <1>1, <1>4 DEF RequestInv, At
  <2>3. old.status = "running" /\ ~old.cancel
    BY <2>2 DEF Tells, At
  <2>4. run = [old EXCEPT !.status = "finished", !.calls = request[q].calls]
    BY DEF Synced
  <2> HIDE DEF old, run
  <2>5. /\ run \in Run /\ run.status = "finished" /\ run.steps = old.steps
        /\ run.cancel = old.cancel /\ run.calls = request[q].calls
    BY <1>1, <2>1, <2>4 DEF Run, RunStatus
  <2> QED BY <2>2, <2>3, <2>5 DEF old
<1>5. verdict \in {"", "FINISH"}
  <2>1. ASSUME Stored(RequestRun(q)) PROVE Verdict(run) = "FINISH"
    BY <1>4, <2>1 DEF Verdict
  <2> QED BY <2>1
<1> HIDE DEF run, verdict
<1>6. /\ local \in Local /\ local.pc = "done" /\ local.turn = request[q].turn
      /\ local.calls = request[q].calls /\ local.seen = request[q].seen
  BY <1>1, <1>5 DEF Local
<1> HIDE DEF local
<1>7. request'[q] = local
  BY <1>2 DEF Inv, TypeInv
<1>8. SeenInv(q)'
  BY <1>1, <1>6, <1>7 DEF RequestInv, SeenInv, At
<1>9. CASE Stored(RequestRun(q))
  <2>1. /\ StoreTypes' /\ DOMAIN runs' = DOMAIN runs /\ runs'[RequestRun(q)] = run
        /\ \A k : k # RequestRun(q) => Untouched(k)
    BY <1>3, <1>4, <1>9, StoreTyped, SaveIs DEF Stored
  <2>2. RunsInv(q)'
    BY <1>1, <1>6, <1>7, <2>1 DEF RequestInv, RunsInv, At, Stored
  <2>3. Tells(q, runs[RequestRun(q)])'
    <3>1. runs[RequestRun(q)]' = run /\ At(q, "done")'
      BY <1>6, <1>7, <2>1 DEF RequestRun, At
    <3> QED BY <1>4, <1>6, <1>7, <1>9, <3>1 DEF Tells
  <2>4. RequestInv(q)'
    BY <1>8, <2>2, <2>3 DEF RequestInv
  <2>5. Final
    BY <1>4, <1>9, <2>1, UntouchedFrozen DEF Final, Frozen, IsOver, Terminal
  <2>6. \A r \in {"api", "other"} \cup (Requests \ {q}) : \A n \in Nat : Untouched(<<r, n>>)
    BY <2>1, HarnessAssumption DEF RequestRun
  <2> QED BY <1>2, <1>6, <2>1, <2>4, <2>5, <2>6, RequestStep
<1>10. CASE ~Stored(RequestRun(q))
  <2>1. UNCHANGED <<order, runs>> /\ \A k : Untouched(k)
    BY <1>3, <1>10 DEF Untouched
  <2>2. StoreTypes'
    BY <2>1, StoreTyped DEF StoreTypes
  <2>3. RunsInv(q)'
    BY <1>1, <1>6, <1>7, <2>1 DEF RequestInv, RunsInv, At, Stored
  <2>4. RequestInv(q)'
    BY <1>8, <1>10, <2>1, <2>3 DEF RequestInv, Stored, RequestRun
  <2>5. Final
    BY <2>1, UntouchedFrozen DEF Final
  <2> QED BY <1>2, <1>6, <2>1, <2>2, <2>4, <2>5, RequestStep
<1> QED BY <1>9, <1>10

(* A tool of the investigation is called: the run of the turn is new.      *)
LEMMA CallToolStep ==
    ASSUME Inv, NEW q \in Requests, NEW turn \in 1 .. MaxSteps, CallTool(q, turn),
           request[q].pc \in {"turn", "plan"}, turn >= request[q].turn,
           \A n \in Nat : Stored(<<q, n>>) => n < turn,
           Len(request[q].seen) + 1 = turn,
           UNCHANGED <<task, created, others, crossed>>
    PROVE  Inv' /\ Final
<1>1. /\ request[q] \in Local /\ RequestInv(q) /\ request[q].turn \in Nat
      /\ request[q].calls \in Nat /\ request[q].seen \in Seq(What)
      /\ Len(request[q].seen) \in Nat /\ turn \in Nat
  BY LocalFields, RunAssumption
<1>2. request \in [Requests -> Local]
  BY DEF Inv, TypeInv
<1>3. CASE request[q].calls >= MaxToolCalls \/ request[q].late
  <2> DEFINE seen == Append(request[q].seen, "denied")
             local == [request[q] EXCEPT !.turn = turn, !.pc = "turn", !.seen = seen]
  <2>1. seen \in Seq(What) /\ Len(seen) = Len(request[q].seen) + 1
    BY <1>1 DEF What
  <2>2. /\ request' = [request EXCEPT ![q].turn = turn, ![q].pc = "turn", ![q].seen = seen]
        /\ UNCHANGED <<order, runs>>
    BY <1>2, <1>3 DEF CallTool
  <2> HIDE DEF seen
  <2>3. request' = [request EXCEPT ![q] = local]
    BY <1>2, <2>2
  <2>4. /\ local \in Local /\ local.pc = "turn" /\ local.turn = turn
        /\ local.calls = request[q].calls /\ local.seen = seen
    BY <1>1, <2>1 DEF Local
  <2> HIDE DEF local
  <2>5. Len(local.seen) <= local.turn
    BY <1>1, <2>1, <2>4
  <2>6. Len(local.seen) = local.turn /\ local.turn <= MaxSteps
    BY <1>1, <2>1, <2>4, RunAssumption
  <2> QED BY <2>2, <2>3, <2>4, <2>5, <2>6, LocalStep
<1>4. CASE ~(request[q].calls >= MaxToolCalls \/ request[q].late)
  <2> DEFINE local == [request[q] EXCEPT !.turn = turn, !.pc = "tool"]
             id == <<q, turn>>
  <2>1. Create(id, Launched(turn)) /\ request' = [request EXCEPT ![q].turn = turn, ![q].pc = "tool"]
    BY <1>4 DEF CallTool, Launched
  <2>2. request' = [request EXCEPT ![q] = local]
    BY <1>2, <2>1
  <2>3. /\ local \in Local /\ local.pc = "tool" /\ local.turn = turn
        /\ local.calls = request[q].calls /\ local.seen = request[q].seen
    BY <1>1 DEF Local
  <2> HIDE DEF local
  <2>4. request'[q] = local
    BY <1>2, <2>2
  <2>5. id \in RunId /\ ~Stored(id)
    BY DEF RunId
  <2>6. id # RequestRun(q)
    BY <1>1 DEF RequestRun
  <2> HIDE DEF id
  <2>7. /\ StoreTypes' /\ \A k : k # id => Untouched(k)
        /\ id \in DOMAIN runs' => runs'[id] = Launched(turn)
    BY <2>1, <2>5, StoreTyped, LaunchedIs, CreateIs
  <2>8. SeenInv(q)'
    BY <1>1, <2>3, <2>4 DEF SeenInv, At
  <2>9. RunsInv(q)'
    <3>1. \A n \in Nat : Stored(<<q, n>>)' => n <= turn
      BY <1>1, <2>7 DEF id, Stored, Untouched
    <3>2. StepRun(q)' = id
      BY <2>3, <2>4 DEF StepRun, id
    <3> QED BY <2>3, <2>4, <2>7, <3>1, <3>2 DEF RunsInv, At, Stored
  <2>10. Stored(RequestRun(q))' => Tells(q, runs[RequestRun(q)])'
    <3> SUFFICES ASSUME Stored(RequestRun(q))' PROVE Tells(q, runs[RequestRun(q)])'
      OBVIOUS
    <3>1. Stored(RequestRun(q)) /\ runs'[RequestRun(q)] = runs[RequestRun(q)]
      BY <2>6, <2>7 DEF Stored, Untouched, RequestRun
    <3>2. Tells(q, runs[RequestRun(q)])
      BY <1>1, <3>1 DEF RequestInv, At
    <3> QED BY <2>3, <2>4, <3>1, <3>2 DEF Tells, At, RequestRun
  <2>11. RequestInv(q)'
    BY <2>8, <2>9, <2>10 DEF RequestInv
  <2>12. Final
    BY <2>5, <2>7, UntouchedFrozen DEF Final, Stored
  <2>13. \A r \in {"api", "other"} \cup (Requests \ {q}) : \A n \in Nat : Untouched(<<r, n>>)
    BY <2>7, HarnessAssumption DEF id
  <2> QED BY <2>2, <2>3, <2>7, <2>11, <2>12, <2>13, RequestStep
<1> QED BY <1>3, <1>4

LEMMA NextOfChainStep ==
    ASSUME Inv, NEW q \in Requests, NextOfChain(q)
    PROVE  Inv' /\ Final
<1> DEFINE turn == request[q].turn + 1
<1>1. /\ request[q] \in Local /\ RequestInv(q) /\ request[q].turn \in Nat
      /\ request[q].seen \in Seq(What) /\ Len(request[q].seen) \in Nat
  BY LocalFields
<1>2. request \in [Requests -> Local]
  BY DEF Inv, TypeInv
<1>3. request[q].pc = "turn" /\ UNCHANGED <<task, created, others, crossed>>
  BY DEF NextOfChain, At
<1>4. /\ turn \in Nat /\ turn > request[q].turn /\ Len(request[q].seen) + 1 = turn
  BY <1>1, <1>3 DEF RequestInv, SeenInv, At
<1>5. CASE Finalizes(q)
  BY <1>3, <1>5, FinalizesStep
<1>6. CASE turn <= MaxSteps /\ CallTool(q, turn)
  <2>1. \A n \in Nat : Stored(<<q, n>>) => n < turn
    BY <1>1, <1>4 DEF RequestInv, RunsInv
  <2> HIDE DEF turn
  <2> QED BY <1>1, <1>3, <1>4, <1>6, <2>1, CallToolStep
<1>7. ASSUME turn <= MaxSteps, UNCHANGED <<order, runs>>, NEW what \in {"code", "denied"},
             request' = [request EXCEPT ![q].turn = turn, ![q].seen = Append(@, what)]
      PROVE  Inv' /\ Final
  <2> DEFINE seen == Append(request[q].seen, what)
             local == [request[q] EXCEPT !.turn = turn, !.seen = seen]
  <2>1. seen \in Seq(What) /\ Len(seen) = Len(request[q].seen) + 1
    BY <1>1 DEF What
  <2>2. request' = [request EXCEPT ![q].turn = turn, ![q].seen = seen]
    BY <1>2, <1>7
  <2> HIDE DEF seen, turn
  <2>3. request' = [request EXCEPT ![q] = local]
    BY <1>2, <2>2
  <2>4. /\ local \in Local /\ local.pc = "turn" /\ local.turn = turn
        /\ local.calls = request[q].calls /\ local.seen = seen
    BY <1>1, <1>3, <1>4, <2>1 DEF Local
  <2> HIDE DEF local
  <2>5. Len(local.seen) <= local.turn /\ local.turn >= request[q].turn
    BY <1>1, <1>4, <2>1, <2>4
  <2>6. Len(local.seen) = local.turn /\ local.turn <= MaxSteps
    BY <1>1, <1>4, <1>7, <2>1, <2>4
  <2> QED BY <1>3, <1>7, <2>3, <2>4, <2>5, <2>6, LocalStep
<1>8. \/ Finalizes(q)
      \/ /\ turn <= Len(Chain)
         /\ \/ CallTool(q, turn)
            \/ /\ UNCHANGED <<order, runs>>
               /\ \E what \in {"code", "denied"} :
                      request' = [request EXCEPT ![q].turn = turn, ![q].seen = Append(@, what)]
  BY DEF NextOfChain
<1>9. turn <= Len(Chain) => turn <= MaxSteps
  BY <1>4, HarnessAssumption, RunAssumption
<1> QED BY <1>5, <1>6, <1>7, <1>8, <1>9

LEMMA PlannerCallsToolStep ==
    ASSUME Inv, NEW q \in Requests, PlannerCallsTool(q)
    PROVE  Inv' /\ Final
<1>1. RequestInv(q) /\ request[q].turn \in Nat
  BY LocalFields
<1>2. /\ request[q].pc = "plan" /\ CallTool(q, request[q].turn)
      /\ UNCHANGED <<task, created, others, crossed>>
  BY DEF PlannerCallsTool, At
<1>3. /\ \A n \in Nat : Stored(<<q, n>>) => n < request[q].turn
      /\ Len(request[q].seen) + 1 = request[q].turn
  BY <1>1, <1>2 DEF RequestInv, RunsInv, SeenInv, At
<1>4. request[q].turn \in 1 .. MaxSteps
  BY <1>3, LocalFields
<1> QED BY <1>1, <1>2, <1>3, <1>4, CallToolStep

LEMMA PlannerCallsNoToolStep ==
    ASSUME Inv, NEW q \in Requests, PlannerCallsNoTool(q)
    PROVE  Inv' /\ Final
<1>1. /\ request[q] \in Local /\ RequestInv(q) /\ request[q].turn \in Nat
      /\ request[q].seen \in Seq(What) /\ Len(request[q].seen) \in Nat
      /\ request \in [Requests -> Local]
  BY LocalFields DEF Inv, TypeInv
<1>2. PICK what \in {"code", "denied"} : Sees(q, what)
  BY DEF PlannerCallsNoTool
<1> DEFINE seen == Append(request[q].seen, what)
           local == [request[q] EXCEPT !.pc = "turn", !.seen = seen]
<1>3. seen \in Seq(What) /\ Len(seen) = Len(request[q].seen) + 1
  BY <1>1 DEF What
<1>4. request' = [request EXCEPT ![q].pc = "turn", ![q].seen = seen]
  BY <1>1, <1>2 DEF Sees
<1> HIDE DEF seen
<1>5. request' = [request EXCEPT ![q] = local]
  BY <1>1, <1>4
<1>6. /\ local \in Local /\ local.pc = "turn" /\ local.turn = request[q].turn
      /\ local.calls = request[q].calls /\ local.seen = seen
  BY <1>1, <1>3 DEF Local
<1> HIDE DEF local
<1>7. request[q].pc = "plan" /\ Len(request[q].seen) + 1 = request[q].turn
  BY <1>1 DEF PlannerCallsNoTool, RequestInv, SeenInv, At
<1>8. Len(local.seen) <= local.turn /\ local.turn >= request[q].turn
  BY <1>1, <1>3, <1>6, <1>7
<1>9. Len(local.seen) = local.turn /\ local.turn <= MaxSteps
  BY <1>1, <1>3, <1>6, <1>7, LocalFields
<1> QED BY <1>5, <1>6, <1>7, <1>8, <1>9, LocalStep DEF PlannerCallsNoTool

LEMMA AskPlannerStep ==
    ASSUME Inv, NEW q \in Requests, AskPlanner(q)
    PROVE  Inv' /\ Final
<1>1. /\ request[q] \in Local /\ RequestInv(q) /\ request[q].turn \in Nat
      /\ request[q].seen \in Seq(What) /\ Len(request[q].seen) \in Nat
      /\ request \in [Requests -> Local]
  BY LocalFields DEF Inv, TypeInv
<1>2. request[q].pc = "turn" /\ UNCHANGED <<task, created, others, crossed>>
  BY DEF AskPlanner, At
<1>3. CASE Finalizes(q)
  BY <1>2, <1>3, FinalizesStep
<1>4. CASE ~Finalizes(q)
  <2> DEFINE turn == request[q].turn + 1
             local == [request[q] EXCEPT !.pc = "plan", !.turn = turn]
  <2>1. request' = [request EXCEPT ![q].pc = "plan", ![q].turn = turn] /\ UNCHANGED <<order, runs>>
    BY <1>1, <1>4 DEF AskPlanner
  <2>2. /\ turn \in Nat /\ turn <= MaxSteps /\ turn > request[q].turn
        /\ Len(request[q].seen) + 1 = turn
    <3>1. ~(request[q].turn >= MaxTurns)
      BY <1>4 DEF AskPlanner
    <3>2. turn <= MaxSteps
      BY <1>1, <3>1, HarnessAssumption, RunAssumption
    <3> QED BY <1>1, <1>2, <3>2 DEF RequestInv, SeenInv, At
  <2> HIDE DEF turn
  <2>3. request' = [request EXCEPT ![q] = local]
    BY <1>1, <2>1
  <2>4. /\ local \in Local /\ local.pc = "plan" /\ local.turn = turn
        /\ local.calls = request[q].calls /\ local.seen = request[q].seen
    BY <1>1, <2>2 DEF Local
  <2> HIDE DEF local
  <2>5. /\ Len(local.seen) <= local.turn /\ local.turn >= request[q].turn
        /\ local.turn <= MaxSteps /\ Len(local.seen) + 1 = local.turn
    BY <1>1, <2>2, <2>4
  <2> QED BY <1>2, <2>1, <2>2, <2>3, <2>4, <2>5, LocalStep
<1> QED BY <1>3, <1>4

LEMMA PlannerEndsStep ==
    ASSUME Inv, NEW q \in Requests, PlannerFinishes(q) \/ PlannerTimesOut(q) \/ PlannerFails(q)
    PROVE  Inv' /\ Final
<1>1. /\ request[q] \in Local /\ RequestInv(q) /\ request[q].turn \in Nat
      /\ request[q].seen \in Seq(What) /\ Len(request[q].seen) \in Nat
      /\ request \in [Requests -> Local]
  BY LocalFields DEF Inv, TypeInv
<1>2. request[q].pc = "plan" /\ UNCHANGED <<task, created, others, crossed>>
  BY DEF PlannerFinishes, PlannerTimesOut, PlannerFails, At
<1>3. CASE Finalizes(q)
  BY <1>2, <1>3, FinalizesStep
<1>4. CASE /\ request' = [request EXCEPT ![q].pc = "raised", ![q].det = TRUE]
           /\ UNCHANGED <<order, runs>>
  <2> DEFINE local == [request[q] EXCEPT !.pc = "raised", !.det = TRUE]
  <2>1. request' = [request EXCEPT ![q] = local]
    BY <1>1, <1>4
  <2>2. /\ local \in Local /\ local.pc = "raised" /\ local.turn = request[q].turn
        /\ local.calls = request[q].calls /\ local.seen = request[q].seen
    BY <1>1 DEF Local
  <2> HIDE DEF local
  <2>3. /\ Len(local.seen) <= local.turn /\ local.turn >= request[q].turn
        /\ local.turn <= MaxSteps
    BY <1>1, <2>2 DEF RequestInv, SeenInv
  <2> QED BY <1>2, <1>4, <2>1, <2>2, <2>3, LocalStep
<1> QED BY <1>3, <1>4 DEF PlannerFinishes, PlannerTimesOut, PlannerFails

(* The tool of a turn has ended: the run of the turn is finished, and the  *)
(* run of the investigation has one more step, if they are still there.    *)
LEMMA ToolEndsStep ==
    ASSUME Inv, NEW q \in Requests, NEW outcome \in Outcomes, ToolEnds(q, outcome)
    PROVE  Inv' /\ Final
<1> DEFINE ok == outcome = "result"
           final == Ended(request[q].turn, ok)
           old == runs[RequestRun(q)]
           run == Appended(q, final.steps[1])
           seen == Append(request[q].seen, outcome)
           calls == request[q].calls + 1
           local == [request[q] EXCEPT !.pc = "turn", !.calls = calls, !.seen = seen]
           lost == [request[q] EXCEPT !.pc = "raised"]
<1>1. /\ request[q] \in Local /\ RequestInv(q) /\ request[q].turn \in Nat
      /\ request[q].calls \in Nat
      /\ request[q].seen \in Seq(What) /\ Len(request[q].seen) \in Nat
      /\ request \in [Requests -> Local]
  BY LocalFields DEF Inv, TypeInv
<1>2. /\ request[q].pc = "tool" /\ Len(request[q].seen) + 1 = request[q].turn
      /\ UNCHANGED <<order, task, created, others, crossed>>
  BY <1>1 DEF ToolEnds, RequestInv, SeenInv, At
<1>3. request[q].turn \in 1 .. MaxSteps
  BY <1>1, <1>2, LocalFields
<1>4. CASE ~Stored(StepRun(q))
  <2>1. request' = [request EXCEPT ![q].pc = "raised"] /\ UNCHANGED <<order, runs>>
    BY <1>2, <1>4 DEF ToolEnds
  <2>2. request' = [request EXCEPT ![q] = lost]
    BY <1>1, <2>1
  <2>3. /\ lost \in Local /\ lost.pc = "raised" /\ lost.turn = request[q].turn
        /\ lost.calls = request[q].calls /\ lost.seen = request[q].seen
    BY <1>1 DEF Local
  <2> HIDE DEF lost
  <2>4. Len(lost.seen) <= lost.turn /\ lost.turn >= request[q].turn /\ lost.turn <= MaxSteps
    BY <1>1, <1>2, <1>3, <2>3
  <2> QED BY <1>2, <2>1, <2>2, <2>3, <2>4, LocalStep
<1>5. CASE Stored(StepRun(q))
  <2>1. runs[StepRun(q)] = Launched(request[q].turn) /\ Launched(request[q].turn).status = "running"
    BY <1>1, <1>2, <1>3, <1>5, LaunchedIs DEF RequestInv, RunsInv, At
  <2>2. /\ runs' = [id \in DOMAIN runs |->
                        IF id = StepRun(q) THEN final
                        ELSE IF id = RequestRun(q) THEN run ELSE runs[id]]
        /\ request' = [request EXCEPT ![q].pc = "turn", ![q].calls = calls, ![q].seen = seen]
    BY <1>1, <1>5, <2>1 DEF ToolEnds, Ended
  <2>3. StepRun(q) # RequestRun(q)
    BY <1>1, <1>2 DEF StepRun, RequestRun
  <2>4. final \in Run /\ final.steps[1] \in Step
    BY <1>3, EndedIs
  <2>5. /\ seen \in Seq(What) /\ Len(seen) = Len(request[q].seen) + 1 /\ calls \in Nat
    BY <1>1 DEF What
  <2>6. ASSUME Stored(RequestRun(q))
        PROVE  /\ old \in Run /\ Tells(q, old) /\ run \in Run
               /\ run.status = "running" /\ ~run.cancel /\ old.status = "running"
               /\ run.calls = calls /\ Len(run.steps) = calls
    <3>1. old \in Run /\ Tells(q, old)
      BY <1>1, <1>2, <2>6, TypeFacts DEF Stored, Inv, RequestInv, At
    <3> DEFINE step == final.steps[1]
               steps == Append(old.steps, step)
               index == Len(old.steps) + 1
    <3>2. /\ old.status = "running" /\ ~old.cancel /\ Len(old.steps) = request[q].calls
          /\ old.calls = request[q].calls
      BY <1>2, <3>1 DEF Tells, At
    <3>3. run = [old EXCEPT !.steps = steps, !.index = index, !.calls = calls]
      BY DEF Appended
    <3>4. old.steps \in Seq(Step) /\ Len(old.steps) \in Nat
      BY <3>1, RunFields
    <3> HIDE DEF old, run, step, calls, final
    <3>5. step \in Step
      BY <2>4 DEF step
    <3>6. steps \in Seq(Step) /\ Len(steps) = Len(old.steps) + 1 /\ index \in Nat
      BY <3>4, <3>5
    <3>7. Len(steps) = calls
      BY <3>2, <3>6 DEF calls
    <3> HIDE DEF steps, index
    <3>8. /\ run \in Run /\ run.steps = steps /\ run.calls = calls
          /\ run.status = old.status /\ run.cancel = old.cancel
      BY <2>5, <3>1, <3>3, <3>6 DEF Run
    <3> QED BY <3>1, <3>2, <3>7, <3>8
  <2> HIDE DEF seen, calls, final, run, old
  <2>7. request' = [request EXCEPT ![q] = local]
    BY <1>1, <2>2
  <2>8. /\ local \in Local /\ local.pc = "turn" /\ local.turn = request[q].turn
        /\ local.calls = calls /\ local.seen = seen
    BY <1>1, <2>5 DEF Local
  <2> HIDE DEF local
  <2>9. request'[q] = local
    BY <1>1, <2>7
  <2>10. /\ DOMAIN runs' = DOMAIN runs
         /\ Stored(RequestRun(q)) => runs'[RequestRun(q)] = run
         /\ runs'[StepRun(q)] = final
         /\ \A k : k \notin {StepRun(q), RequestRun(q)} => Untouched(k)
    BY <1>5, <2>2, <2>3 DEF Stored, Untouched
  <2>11. StoreTypes'
    <3>1. \A id \in DOMAIN runs : runs[id] \in Run
      BY TypeFacts DEF Inv
    <3>2. \A id \in DOMAIN runs : runs'[id] \in Run
      BY <2>2, <2>4, <2>6, <3>1 DEF Stored
    <3> QED BY <1>2, <2>2, <3>2, StoreTyped DEF StoreTypes
  <2>12. SeenInv(q)'
    BY <1>1, <1>2, <1>3, <2>5, <2>8, <2>9, LocalFields DEF SeenInv, At
  <2>13. RunsInv(q)'
    BY <1>1, <1>2, <2>8, <2>9, <2>10 DEF RequestInv, RunsInv, At, Stored
  <2>14. Stored(RequestRun(q))' => Tells(q, runs[RequestRun(q)])'
    <3> SUFFICES ASSUME Stored(RequestRun(q))' PROVE Tells(q, runs[RequestRun(q)])'
      OBVIOUS
    <3>1. Stored(RequestRun(q)) /\ runs[RequestRun(q)]' = run
      BY <2>10 DEF Stored, RequestRun
    <3>2. ~At(q, "done")' /\ request'[q].calls = calls
      BY <2>8, <2>9 DEF At
    <3> QED BY <2>6, <3>1, <3>2 DEF Tells
  <2>15. RequestInv(q)'
    BY <2>12, <2>13, <2>14 DEF RequestInv
  <2>16. Final
    BY <2>1, <2>6, <2>10, UntouchedFrozen DEF Final, Frozen, IsOver, Terminal, Stored, old
  <2>17. \A r \in {"api", "other"} \cup (Requests \ {q}) : \A n \in Nat : Untouched(<<r, n>>)
    BY <2>10, HarnessAssumption DEF RequestRun, StepRun
  <2> QED BY <1>2, <2>7, <2>8, <2>11, <2>15, <2>16, <2>17, RequestStep
<1> QED BY <1>4, <1>5

(***************************************************************************)
(* New runs of others.                                                     *)
(***************************************************************************)

LEMMA OtherRunStep ==
    ASSUME Inv, OtherRun
    PROVE  Inv' /\ Final
<1> DEFINE id == <<"other", others'>>
           run == NewRun(<<>>)
<1>1. /\ others \in Nat /\ others' = others + 1 /\ others' \in 0 .. MaxOthers
      /\ Create(id, run) /\ UNCHANGED <<task, request, created, crossed>>
  BY HarnessAssumption DEF Inv, TypeInv, OtherRun
<1>2. run \in Run
  <2> DEFINE none == <<>>
  <2>1. none \in Seq(BOOLEAN) /\ Len(none) <= MaxSteps
    BY RunAssumption
  <2> HIDE DEF none
  <2>2. NewRun(none) \in Run
    BY <2>1, NewRunIs
  <2> QED BY <2>2 DEF none
<1>3. id \in RunId
  BY <1>1 DEF RunId
<1>4. ~Stored(id)
  BY <1>1 DEF Inv, KnownInv
<1> HIDE DEF run
<1>5. StoreTypes' /\ \A k : k # id => Untouched(k)
  BY <1>1, <1>2, <1>3, StoreTyped, CreateIs
<1>6. TypeInv'
  BY <1>1, <1>5 DEF Inv, TypeInv, StoreTypes
<1>7. Untouched(ApiRun)
  BY <1>5 DEF ApiRun
<1>8. KnownInv'
  <2>1. \A n \in Nat : Stored(<<"other", n>>)' => n <= others'
    BY <1>1, <1>5 DEF Inv, KnownInv, Stored, Untouched
  <2> QED BY <1>1, <1>7, <2>1 DEF Inv, KnownInv, Stored, Untouched, ApiRun
<1>9. ASSUME NEW q \in Requests PROVE RequestInv(q)'
  <2>1. RequestInv(q) /\ request[q].turn \in Nat /\ \A n \in Nat : Untouched(<<q, n>>)
    BY <1>5, LocalFields, HarnessAssumption
  <2> QED BY <1>1, <2>1, RequestKept
<1>10. ApiInv'
  BY <1>1, <1>7, ApiKept DEF Inv
<1>11. Final
  BY <1>4, <1>5, UntouchedFrozen DEF Final, Stored
<1> QED BY <1>6, <1>8, <1>9, <1>10, <1>11 DEF Inv

LEMMA NewRunSteady ==
    ASSUME NEW confirms \in Seq(BOOLEAN), Len(confirms) <= MaxSteps
    PROVE  Steady(NewRun(confirms), Idle)
<1> DEFINE run == NewRun(confirms)
<1>1. run \in Run /\ run.steps = NewSteps(0, 0, confirms)
  BY NewRunIs
<1>2. /\ run.status = "pending" /\ run.index = 0 /\ run.calls = 0
      /\ ~run.spent /\ ~run.cancel
  BY DEF NewRun
<1>3. 0 \in Plan /\ 0 + Len(confirms) <= MaxSteps /\ Len(confirms) \in Nat
  BY RunAssumption DEF Plan
<1>4. /\ Len(run.steps) = Len(confirms)
      /\ \A i \in 1 .. Len(confirms) : run.steps[i] =
            [id |-> 0 + i, plan |-> 0, confirm |-> confirms[i], status |-> "pending",
             result |-> NoResult, ran |-> 0]
  BY <1>1, <1>3, NewStepsAre
<1> HIDE DEF run
<1>5. \A i \in 1 .. Len(confirms) :
        run.steps[i].id = i /\ run.steps[i].status = "pending" /\ run.steps[i].ran = 0
  <2> SUFFICES ASSUME NEW i \in 1 .. Len(confirms)
               PROVE  run.steps[i].id = i /\ run.steps[i].status = "pending" /\ run.steps[i].ran = 0
    OBVIOUS
  <2>1. run.steps[i] = [id |-> 0 + i, plan |-> 0, confirm |-> confirms[i], status |-> "pending",
                        result |-> NoResult, ran |-> 0]
    BY <1>4
  <2>2. 0 + i = i
    BY <1>3
  <2> QED BY <2>1, <2>2
<1>6. Orderly(run)
  <2>1. DOMAIN run.steps = 1 .. Len(confirms)
    BY <1>1, <1>4, RunFields
  <2>2. ASSUME NEW i \in 1 .. Len(confirms) PROVE StepOrderly(run, i)
    <3>1. i > run.index /\ i # 0
      BY <1>2, <1>3
    <3> QED BY <1>2, <1>5, <3>1 DEF StepOrderly
  <2> QED BY <1>2, <1>3, <1>4, <2>1, <2>2 DEF Orderly
<1>7. Healthy(run)
  BY <1>2, RunAssumption DEF Healthy
<1>8. Quiet(run)
  <2> SUFFICES ASSUME run.index < Len(run.steps)
               PROVE  /\ run.steps[run.index + 1].ran = 0
                      /\ run.steps[run.index + 1].status = "pending"
    BY DEF Quiet
  <2>1. run.index + 1 = 1 /\ 1 \in 1 .. Len(confirms)
    BY <1>2, <1>3, <1>4
  <2> QED BY <1>5, <2>1
<1> QED BY <1>6, <1>7, <1>8 DEF Steady, run

LEMMA CreateRunStep ==
    ASSUME Inv, NEW confirms \in Plans, CreateRun(confirms)
    PROVE  Inv' /\ Final
<1> DEFINE run == NewRun(confirms)
<1>1. /\ ~created /\ created' = TRUE /\ Create(ApiRun, run)
      /\ UNCHANGED <<task, request, others, crossed>>
      /\ Len(confirms) <= MaxSteps /\ confirms \in Seq(BOOLEAN)
  BY HarnessAssumption DEF CreateRun
<1>2. run \in Run /\ run.steps = NewSteps(0, 0, confirms)
  BY <1>1, NewRunIs
<1>3. Len(run.steps) <= MaxSteps
  <2>1. 0 + Len(confirms) <= MaxSteps /\ 0 \in Plan
    BY <1>1, RunAssumption DEF Plan
  <2>2. Len(NewSteps(0, 0, confirms)) = Len(confirms)
    BY <1>1, <2>1, NewStepsAre
  <2> QED BY <1>1, <1>2, <2>2
<1>4. Steady(run, Idle)
  BY <1>1, NewRunSteady
<1> HIDE DEF run
<1>5. ApiRun \in RunId /\ ~Stored(ApiRun) /\ \A t \in Tasks : task[t] = Idle
  BY <1>1 DEF RunId, ApiRun, Inv, KnownInv
<1>6. /\ StoreTypes' /\ \A k : k # ApiRun => Untouched(k)
      /\ Stored(ApiRun)' => runs'[ApiRun] = run
  BY <1>1, <1>2, <1>5, StoreTyped, CreateIs DEF Stored, ApiRun
<1>7. TypeInv'
  BY <1>1, <1>6 DEF Inv, TypeInv, StoreTypes
<1>8. KnownInv'
  <2>1. \A n \in Nat : Untouched(<<"other", n>>)
    BY <1>6 DEF ApiRun
  <2>2. Stored(ApiRun)' => Len(runs[ApiRun].steps)' <= MaxSteps
    BY <1>3, <1>6 DEF ApiRun
  <2> QED BY <1>1, <2>1, <2>2 DEF Inv, KnownInv, Stored, Untouched
<1>9. ASSUME NEW q \in Requests PROVE RequestInv(q)'
  <2>1. RequestInv(q) /\ request[q].turn \in Nat /\ \A n \in Nat : Untouched(<<q, n>>)
    BY <1>6, LocalFields, HarnessAssumption DEF ApiRun
  <2> QED BY <1>1, <2>1, RequestKept
<1>10. ApiInv'
  <2>1. Stored(ApiRun)' => runs[ApiRun]' = run
    BY <1>6 DEF ApiRun
  <2> QED BY <1>1, <1>4, <1>5, <2>1 DEF ApiInv
<1>11. Final
  BY <1>5, <1>6, UntouchedFrozen DEF Final, Stored
<1> QED BY <1>7, <1>8, <1>9, <1>10, <1>11 DEF Inv

(***************************************************************************)
(* The executor's operations on a run that was not crossed.                *)
(***************************************************************************)

LEMMA CancelledSteps ==
    ASSUME NEW run \in Run, ~IsOver(run)
    PROVE  LET next == Cancelled(run)
           IN  /\ next.status = "cancelled" /\ next.index = run.index
               /\ \A i \in 1 .. Len(run.steps) :
                    /\ next.steps[i].id = run.steps[i].id
                    /\ next.steps[i].plan = run.steps[i].plan
                    /\ next.steps[i].confirm = run.steps[i].confirm
                    /\ next.steps[i].result = run.steps[i].result
                    /\ next.steps[i].ran = run.steps[i].ran
                    /\ next.steps[i].status =
                        IF run.steps[i].status \in {"pending", "running", "waiting"}
                        THEN "cancelled" ELSE run.steps[i].status
<1> DEFINE next == Cancelled(run)
           error == IF run.error = "none" THEN "cancelled" ELSE run.error
           steps == [i \in DOMAIN run.steps |->
                        IF run.steps[i].status \in {"pending", "running", "waiting"}
                        THEN [run.steps[i] EXCEPT !.status = "cancelled"]
                        ELSE run.steps[i]]
<1>1. next = [run EXCEPT !.status = "cancelled", !.cancel = TRUE, !.error = error, !.steps = steps]
  BY DEF Cancelled
<1>2. \A i \in 1 .. Len(run.steps) :
        steps[i] = IF run.steps[i].status \in {"pending", "running", "waiting"}
                   THEN [run.steps[i] EXCEPT !.status = "cancelled"]
                   ELSE run.steps[i]
  BY RunFields
<1> HIDE DEF steps, error, next
<1>3. next.status = "cancelled" /\ next.index = run.index /\ next.steps = steps
  BY <1>1 DEF Run
<1>4. ASSUME NEW i \in 1 .. Len(run.steps)
      PROVE  /\ next.steps[i].id = run.steps[i].id
             /\ next.steps[i].plan = run.steps[i].plan
             /\ next.steps[i].confirm = run.steps[i].confirm
             /\ next.steps[i].result = run.steps[i].result
             /\ next.steps[i].ran = run.steps[i].ran
             /\ next.steps[i].status =
                    IF run.steps[i].status \in {"pending", "running", "waiting"}
                    THEN "cancelled" ELSE run.steps[i].status
  <2> DEFINE step == run.steps[i]
  <2>1. step \in Step
    BY RunFields
  <2>2. next.steps[i] = IF step.status \in {"pending", "running", "waiting"}
                        THEN [step EXCEPT !.status = "cancelled"] ELSE step
    BY <1>2, <1>3
  <2> HIDE DEF step
  <2> QED BY <2>1, <2>2 DEF Step, step
<1> QED BY <1>3, <1>4 DEF next

LEMMA CancelledSteady ==
    ASSUME NEW run \in Run, NEW awaited, ~IsOver(run), Steady(run, awaited)
    PROVE  Steady(Cancelled(run), awaited)
<1> DEFINE next == Cancelled(run)
<1>1. next \in Run /\ Len(next.steps) = Len(run.steps) /\ IsOver(next)
  BY CancelledIs
<1>2. /\ next.status = "cancelled" /\ next.index = run.index
      /\ \A i \in 1 .. Len(run.steps) :
            /\ next.steps[i].id = run.steps[i].id
            /\ next.steps[i].plan = run.steps[i].plan
            /\ next.steps[i].confirm = run.steps[i].confirm
            /\ next.steps[i].result = run.steps[i].result
            /\ next.steps[i].ran = run.steps[i].ran
            /\ next.steps[i].status =
                    IF run.steps[i].status \in {"pending", "running", "waiting"}
                    THEN "cancelled" ELSE run.steps[i].status
  BY CancelledSteps
<1> HIDE DEF next
<1>3. /\ run.index \in Nat /\ Len(run.steps) \in Nat
      /\ DOMAIN run.steps = 1 .. Len(run.steps) /\ DOMAIN next.steps = 1 .. Len(run.steps)
  BY <1>1, RunFields
<1>4. Orderly(next)
  <2>1. ASSUME NEW i \in 1 .. Len(run.steps) PROVE StepOrderly(next, i)
    <3>1. StepOrderly(run, i)
      BY <1>3 DEF Steady, Orderly
    <3> QED BY <1>1, <1>2, <3>1 DEF StepOrderly, Settled, Terminal
  <2> QED BY <1>1, <1>2, <1>3, <2>1 DEF Steady, Orderly
<1>5. Healthy(next) /\ Quiet(next)
  BY <1>1 DEF Healthy, Quiet
<1>6. awaited # Idle => Busy(next, awaited)
  <2> SUFFICES ASSUME awaited # Idle PROVE Busy(next, awaited)
    OBVIOUS
  <2>1. Busy(run, awaited)
    BY DEF Steady
  <2>2. run.index + 1 \in 1 .. Len(run.steps)
    BY <1>3, <2>1 DEF Busy
  <2> QED BY <1>1, <1>2, <2>1, <2>2 DEF Busy
<1> QED BY <1>4, <1>5, <1>6 DEF Steady, next

(* A step that waits is the current one, and no tool is awaited then.      *)
LEMMA WaitingIsCurrent ==
    ASSUME NEW run \in Run, NEW awaited, Steady(run, awaited), NEW id, Awaited(run, id)
    PROVE  /\ awaited = Idle
           /\ Place(run, id) = run.index + 1
           /\ run.index < Len(run.steps)
           /\ run.steps[Place(run, id)].ran = 0
<1> DEFINE i == Place(run, id)
<1>1. i \in 1 .. Len(run.steps) /\ run.steps[i].status = "waiting"
  BY PlaceIsThere DEF Awaited
<1>2. run.index \in Nat /\ Len(run.steps) \in Nat /\ DOMAIN run.steps = 1 .. Len(run.steps)
  BY RunFields
<1>3. StepOrderly(run, i) /\ run.steps[i].ran \in 0 .. 2
  BY <1>1, <1>2, RunFields, StepFields DEF Steady, Orderly
<1> HIDE DEF i
<1>4. run.steps[i].confirm /\ run.steps[i].ran = 0
  BY <1>1, <1>3 DEF StepOrderly
<1>5. ~(i <= run.index) /\ ~(i > run.index + 1)
  BY <1>1, <1>3 DEF StepOrderly, Settled, Terminal
<1>6. i = run.index + 1 /\ run.index < Len(run.steps)
  BY <1>1, <1>2, <1>5
<1>7. awaited = Idle
  BY <1>1, <1>6 DEF Steady, Busy
<1> QED BY <1>4, <1>6, <1>7 DEF i

LEMMA AnsweredSteady ==
    ASSUME NEW run \in Run, NEW awaited, NEW id, NEW ok \in BOOLEAN,
           Steady(run, awaited), Awaited(run, id)
    PROVE  Steady(Answered(run, id, ok), awaited)
<1> DEFINE i == Place(run, id)
           next == Answered(run, id, ok)
<1>1. awaited = Idle /\ i = run.index + 1 /\ run.index < Len(run.steps) /\ run.steps[i].ran = 0
  BY WaitingIsCurrent
<1>2. Places(run, id) # {}
  BY DEF Awaited
<1>3. /\ next \in Run /\ OnlyStep(run, next, i) /\ SameBudget(run, next)
      /\ next.status = (IF run.status = "waiting" THEN "running" ELSE run.status)
      /\ next.steps[i].ran = 0
      /\ \/ /\ next.index = run.index
            /\ next.steps[i].status = "pending" /\ ~next.steps[i].confirm
         \/ /\ next.index = run.index + 1
            /\ next.steps[i].status = "skipped"
  BY <1>1, <1>2, ApprovedIs, DeniedIs DEF Answered
<1> HIDE DEF next, i
<1>4. IsOver(next) <=> IsOver(run)
  BY <1>3 DEF IsOver, Terminal
<1>5. /\ run.index \in Nat /\ Len(run.steps) \in Nat
      /\ DOMAIN run.steps = 1 .. Len(run.steps) /\ DOMAIN next.steps = 1 .. Len(run.steps)
      /\ Len(next.steps) = Len(run.steps)
  BY <1>3, RunFields DEF OnlyStep
<1>6. ASSUME NEW j \in 1 .. Len(run.steps) PROVE StepOrderly(run, j)
  BY <1>5 DEF Steady, Orderly
<1>7. Orderly(next)
  <2>1. ASSUME NEW j \in 1 .. Len(run.steps), j # i PROVE StepOrderly(next, j)
    <3>1. next.steps[j] = run.steps[j]
      BY <1>3, <2>1 DEF OnlyStep
    <3>2. next.index \in {run.index, run.index + 1} /\ (j <= run.index \/ j > run.index + 1)
      BY <1>1, <1>3, <1>5, <2>1
    <3>3. (j <= next.index => j <= run.index) /\ (j > next.index => j > run.index)
          /\ (j > next.index + 1 => j > run.index + 1)
      BY <1>5, <3>2
    <3> QED BY <1>4, <1>6, <3>1, <3>3 DEF StepOrderly
  <2>2. StepOrderly(next, i)
    <3>1. next.steps[i].id = i
      BY <1>1, <1>3, <1>5, <1>6 DEF OnlyStep, StepOrderly
    <3>2. ~(i <= run.index) /\ i <= run.index + 1 /\ i \in Nat
      BY <1>1, <1>5
    <3> QED BY <1>3, <1>5, <3>1, <3>2 DEF StepOrderly, Settled
  <2>3. next.index <= Len(next.steps)
    BY <1>1, <1>3, <1>5
  <2> QED BY <1>5, <2>1, <2>2, <2>3 DEF Orderly, Steady
<1>8. Healthy(next)
  BY <1>3, <1>4 DEF Steady, Healthy, SameBudget
<1>9. Quiet(next)
  <2> SUFFICES ASSUME next.index < Len(next.steps), ~IsOver(next)
               PROVE  /\ next.steps[next.index + 1].ran = 0
                      /\ next.steps[next.index + 1].status \in {"pending", "waiting"}
    BY DEF Quiet
  <2>1. CASE next.index = run.index
    BY <1>1, <1>3, <1>5, <2>1
  <2>2. CASE next.index = run.index + 1
    <3> DEFINE j == run.index + 2
    <3>1. j \in 1 .. Len(run.steps) /\ j > run.index + 1 /\ j # i /\ next.index + 1 = j
      BY <1>1, <1>5, <2>2
    <3> HIDE DEF j
    <3>2. next.steps[j] = run.steps[j]
      BY <1>3, <3>1 DEF OnlyStep
    <3>3. StepOrderly(run, j)
      BY <1>6, <3>1
    <3> QED BY <1>4, <3>1, <3>2, <3>3 DEF StepOrderly
  <2> QED BY <1>3, <2>1, <2>2
<1> QED BY <1>1, <1>7, <1>8, <1>9 DEF Steady, next

(* The current step of a run that goes on is open, so that the loop begins *)
(* with it.                                                                *)
LEMMA OpenIsCurrent ==
    ASSUME NEW run \in Run, Orderly(run), Quiet(run), ~IsOver(run)
    PROVE  [run EXCEPT !.index = FirstOpen(run)] = run \/ run.index >= Len(run.steps)
<1> SUFFICES ASSUME run.index < Len(run.steps)
             PROVE  [run EXCEPT !.index = FirstOpen(run)] = run
  BY RunFields
<1>1. /\ FirstOpen(run) \in run.index .. Len(run.steps)
      /\ \A k \in run.index .. FirstOpen(run) - 1 : run.steps[k + 1].status \in Settled
  BY FirstOpenIs DEF Orderly
<1>2. run.steps[run.index + 1].status \notin Settled
  BY DEF Quiet, Settled, Terminal
<1> DEFINE first == FirstOpen(run)
           index == run.index
<1>3. index \in Nat /\ first \in Nat /\ index <= first
  BY <1>1, RunFields
<1>4. index \notin index .. first - 1
  BY <1>1, <1>2
<1> HIDE DEF first, index
<1>5. first = index
  BY <1>3, <1>4
<1>6. FirstOpen(run) = run.index
  BY <1>5 DEF first, index
<1> QED BY <1>6 DEF Run

LEMMA SettleQuiet ==
    ASSUME NEW run \in Run, NEW limit, Orderly(run), Quiet(run),
           ~IsOver(run), run.status # "waiting"
    PROVE  \/ /\ run.index = Len(run.steps)
              /\ Settle(run, limit) = Finished(run)
           \/ /\ run.index < Len(run.steps)
              /\ Exceeded(run, limit) # "none"
              /\ Settle(run, limit) = Failed(run, Exceeded(run, limit))
           \/ /\ run.index < Len(run.steps)
              /\ Exceeded(run, limit) = "none"
              /\ run.steps[run.index + 1].confirm
              /\ Settle(run, limit) = Paused(run)
           \/ /\ run.index < Len(run.steps)
              /\ Exceeded(run, limit) = "none"
              /\ ~run.steps[run.index + 1].confirm
              /\ Settle(run, limit) = Called(run)
<1>1. run.index \in Nat /\ Len(run.steps) \in Nat /\ run.index <= Len(run.steps)
  BY RunFields DEF Orderly
<1>2. CASE run.index >= Len(run.steps)
  BY <1>1, <1>2, Zenon, SMT DEF Settle
<1>3. CASE run.index < Len(run.steps)
  <2> DEFINE open == [run EXCEPT !.index = FirstOpen(run)]
  <2>1. open = run
    BY <1>1, <1>3, OpenIsCurrent
  <2> HIDE DEF open
  <2>2. ~(run.index >= Len(run.steps)) /\ run.index # Len(run.steps)
    BY <1>1, <1>3
  <2>3. Settle(run, limit) =
            IF Exceeded(run, limit) # "none" THEN Failed(run, Exceeded(run, limit))
            ELSE IF open.index = Len(run.steps) THEN Finished(open)
            ELSE IF run.steps[open.index + 1].confirm THEN Paused(open)
            ELSE Called(open)
    BY <2>2, Zenon DEF Settle, open
  <2> QED BY <1>3, <2>1, <2>2, <2>3
<1> QED BY <1>1, <1>2, <1>3

LEMMA NotExceeded ==
    ASSUME NEW run \in Run, Exceeded(run, Default) = "none"
    PROVE  run.calls < MaxToolCalls /\ ~run.spent
<1>1. Default.calls = MaxToolCalls /\ Default.calls \in Nat /\ run.calls \in Nat
  BY RunFields, RunAssumption DEF Default
<1>2. ~(run.calls >= Default.calls) /\ ~run.spent
  BY Zenon DEF Exceeded
<1> QED BY <1>1, <1>2

(* What the loop makes of a run with no tool awaited: the run when it ends,*)
(* waits, or awaits its next tool.                                         *)
LEMMA SettleSteady ==
    ASSUME NEW run \in Run, Orderly(run), Quiet(run),
           ~IsOver(run) => run.status = "running" /\ ~run.cancel
    PROVE  Steady(Settle(run, Default), AwaitedBy(Settle(run, Default)))
<1> DEFINE next == Settle(run, Default)
           i == run.index + 1
<1>1. /\ run.index \in Nat /\ Len(run.steps) \in Nat /\ DOMAIN run.steps = 1 .. Len(run.steps)
      /\ next \in Run
  BY RunFields, SettleIs
<1>2. ASSUME NEW j \in 1 .. Len(run.steps) PROVE StepOrderly(run, j)
  BY <1>1 DEF Orderly
<1>3. ASSUME IsOver(next), next.steps = run.steps, next.index = run.index
      PROVE  Steady(next, AwaitedBy(next))
  <2>1. AwaitedBy(next) = Idle
    BY <1>3 DEF AwaitedBy, IsOver, Terminal
  <2>2. ASSUME NEW j \in DOMAIN run.steps PROVE StepOrderly(next, j)
    BY <1>1, <1>2, <1>3 DEF StepOrderly
  <2>3. Orderly(next)
    BY <1>3, <2>2 DEF Orderly
  <2> QED BY <1>3, <2>1, <2>3 DEF Steady, Healthy, Quiet
<1>4. CASE IsOver(run)
  BY <1>3, <1>4, Zenon DEF Settle
<1>5. CASE ~IsOver(run) /\ next = Finished(run)
  BY <1>3, <1>5, FinishedIs DEF IsOver, Terminal
<1>6. CASE ~IsOver(run) /\ next = Failed(run, Exceeded(run, Default))
  BY <1>3, <1>6, FailedIs, ExceededIs DEF IsOver, Terminal
<1>7. ASSUME ~IsOver(run), run.index < Len(run.steps), Exceeded(run, Default) = "none",
             next.index = run.index, OnlyStep(run, next, i), SameBudget(run, next),
             next.status \in {"running", "waiting"},
             next.steps[i].status \in {"waiting", "running"},
             next.steps[i].status = "waiting" => next.steps[i].confirm,
             next.steps[i].ran <= 1, next.steps[i].confirm => next.steps[i].ran = 0
      PROVE  Orderly(next) /\ Healthy(next)
  <2>1. /\ i \in 1 .. Len(run.steps) /\ Len(next.steps) = Len(run.steps)
        /\ DOMAIN next.steps = 1 .. Len(run.steps) /\ i \in Nat
    BY <1>1, <1>7, RunFields DEF OnlyStep
  <2>2. ASSUME NEW j \in 1 .. Len(run.steps), j # i PROVE StepOrderly(next, j)
    <3>1. next.steps[j] = run.steps[j]
      BY <1>7, <2>2 DEF OnlyStep
    <3> QED BY <1>2, <1>7, <3>1 DEF StepOrderly
  <2>3. StepOrderly(next, i)
    <3>1. next.steps[i].id = i
      BY <1>2, <1>7, <2>1 DEF OnlyStep, StepOrderly
    <3>2. ~(i <= run.index) /\ ~(i > run.index + 1)
      BY <1>1
    <3> QED BY <1>7, <3>1, <3>2 DEF StepOrderly
  <2>4. Orderly(next)
    BY <1>7, <2>1, <2>2, <2>3 DEF Orderly
  <2>5. Healthy(next)
    BY <1>7, NotExceeded DEF Healthy, SameBudget
  <2> QED BY <2>4, <2>5
<1>8. CASE /\ ~IsOver(run) /\ run.index < Len(run.steps) /\ Exceeded(run, Default) = "none"
           /\ run.steps[i].confirm /\ next = Paused(run)
  <2>1. /\ next.index = run.index /\ OnlyStep(run, next, i) /\ SameBudget(run, next)
        /\ next.status = "waiting" /\ next.steps[i].status = "waiting"
        /\ next.steps[i].confirm /\ next.steps[i].ran = 0
    BY <1>8, PausedIs DEF Quiet
  <2> HIDE DEF next, i
  <2>2. Orderly(next) /\ Healthy(next)
    BY <1>7, <1>8, <2>1
  <2>3. AwaitedBy(next) = Idle /\ Quiet(next)
    BY <2>1 DEF AwaitedBy, Quiet, i
  <2> QED BY <2>2, <2>3 DEF Steady, next
<1>9. CASE /\ ~IsOver(run) /\ run.index < Len(run.steps) /\ Exceeded(run, Default) = "none"
           /\ ~run.steps[i].confirm /\ next = Called(run) /\ run.status = "running"
  <2>1. /\ next.index = run.index /\ OnlyStep(run, next, i) /\ SameBudget(run, next)
        /\ next.status = "running" /\ next.steps[i].status = "running"
        /\ next.steps[i].confirm = run.steps[i].confirm /\ next.steps[i].ran = 1
    BY <1>9, CalledIs DEF Quiet
  <2>2. i \in Nat /\ i # 0 /\ i \in 1 .. Len(run.steps)
    BY <1>1, <1>9
  <2>3. next.steps[i].id = i
    BY <1>2, <2>1, <2>2 DEF OnlyStep, StepOrderly
  <2>4. i = next.index + 1
    BY <2>1
  <2> HIDE DEF next, i
  <2>5. Orderly(next) /\ Healthy(next)
    BY <1>7, <1>9, <2>1
  <2>6. AwaitedBy(next) = [step |-> i, plan |-> next.steps[i].plan]
    BY <2>1, <2>3, <2>4 DEF AwaitedBy
  <2>7. AwaitedBy(next) # Idle
    BY <2>2, <2>6 DEF Idle
  <2>8. next.index < Len(next.steps)
    BY <1>9, <2>1 DEF OnlyStep
  <2>9. ~next.steps[i].confirm
    BY <1>9, <2>1
  <2>10. Busy(next, AwaitedBy(next))
    BY <2>1, <2>4, <2>6, <2>8, <2>9 DEF Busy
  <2> QED BY <2>5, <2>7, <2>10 DEF Steady, next
<1> QED BY <1>4, <1>5, <1>6, <1>8, <1>9, SettleQuiet

LEMMA StartedSteady ==
    ASSUME NEW run \in Run, Steady(run, Idle)
    PROVE  Steady(Started(run, Default), AwaitedBy(Started(run, Default)))
<1>1. CASE IsOver(run)
  <2>1. Started(run, Default) = run
    BY <1>1 DEF Started
  <2>2. AwaitedBy(run) = Idle
    BY <1>1 DEF AwaitedBy, IsOver, Terminal
  <2> QED BY <2>1, <2>2
<1>2. CASE ~IsOver(run)
  <2> DEFINE begun == [run EXCEPT !.status = "running"]
  <2>1. ~run.cancel
    BY <1>2 DEF Steady, Healthy
  <2>2. Started(run, Default) = Settle(begun, Default)
    BY <1>2, <2>1 DEF Started
  <2>3. /\ begun \in Run /\ begun.status = "running" /\ begun.steps = run.steps
        /\ begun.index = run.index /\ begun.cancel = run.cancel
    BY DEF Run, RunStatus
  <2> HIDE DEF begun
  <2>4. Orderly(begun)
    <3>1. ASSUME NEW i \in DOMAIN run.steps PROVE StepOrderly(begun, i)
      BY <1>2, <2>3 DEF Steady, Orderly, StepOrderly
    <3> QED BY <2>3, <3>1 DEF Steady, Orderly
  <2>5. Quiet(begun)
    BY <1>2, <2>3 DEF Steady, Quiet
  <2> QED BY <2>1, <2>2, <2>3, <2>4, <2>5, SettleSteady
<1> QED BY <1>1, <1>2

LEMMA ResumedSteady ==
    ASSUME NEW run \in Run, Steady(run, Idle)
    PROVE  Steady(Resumed(run, Default), AwaitedBy(Resumed(run, Default)))
<1>1. CASE run.status = "waiting"
  <2>1. Resumed(run, Default) = run /\ AwaitedBy(run) = Idle
    BY <1>1 DEF Resumed, AwaitedBy
  <2> QED BY <2>1
<1>2. CASE run.status # "waiting"
  BY <1>2, StartedSteady DEF Resumed
<1> QED BY <1>1, <1>2

LEMMA AnsweredAndResumedSteady ==
    ASSUME NEW run \in Run, NEW id, NEW ok \in BOOLEAN, Steady(run, Idle)
    PROVE  LET next == AnsweredAndResumed(run, id, ok, Default)
           IN  Steady(next, AwaitedBy(next))
<1>1. CASE IsOver(run)
  <2>1. AnsweredAndResumed(run, id, ok, Default) = run /\ AwaitedBy(run) = Idle
    BY <1>1 DEF AnsweredAndResumed, AwaitedBy, IsOver, Terminal
  <2> QED BY <2>1
<1>2. CASE ~IsOver(run)
  <2> DEFINE answered == Answered(run, id, ok)
  <2>1. answered \in Run
    BY AnsweredIs
  <2>2. Steady(answered, Idle)
    <3>1. CASE Awaited(run, id)
      BY <3>1, AnsweredSteady
    <3>2. CASE ~Awaited(run, id)
      BY <3>2 DEF Answered
    <3> QED BY <3>1, <3>2
  <2>3. AnsweredAndResumed(run, id, ok, Default) = Started(answered, Default)
    BY <1>2 DEF AnsweredAndResumed
  <2> HIDE DEF answered
  <2> QED BY <2>1, <2>2, <2>3, StartedSteady
<1> QED BY <1>1, <1>2

(* The step whose tool is awaited is where its identifier says.            *)
LEMMA AwaitedPlace ==
    ASSUME NEW run \in Run, NEW awaited, Orderly(run), Busy(run, awaited)
    PROVE  /\ Places(run, awaited.step) # {}
           /\ Place(run, awaited.step) = run.index + 1
<1> DEFINE i == run.index + 1
<1>1. /\ run.index \in Nat /\ Len(run.steps) \in Nat /\ DOMAIN run.steps = 1 .. Len(run.steps)
      /\ awaited.step = i /\ i \in 1 .. Len(run.steps)
  BY RunFields DEF Busy
<1>2. \A j \in DOMAIN run.steps : run.steps[j].id = j
  BY DEF Orderly, StepOrderly
<1> HIDE DEF i
<1>3. Places(run, i) = {i}
  BY <1>1, <1>2 DEF Places
<1>4. Place(run, i) = i
  BY <1>1, <1>3 DEF Place
<1> QED BY <1>1, <1>3, <1>4 DEF i

(* What the awaited tool returned is recorded with its own step, and the   *)
(* run is one with no tool awaited.                                        *)
LEMMA RecordedSteady ==
    ASSUME NEW run \in Run, NEW awaited \in Awaiting, Orderly(run), Healthy(run),
           Busy(run, awaited), NEW ok \in BOOLEAN, NEW slow \in BOOLEAN
    PROVE  LET next == Recorded(run, awaited.step, awaited.plan, ok, slow)
           IN  /\ next \in Run /\ Orderly(next) /\ Quiet(next)
               /\ ~IsOver(next) => next.status = "running" /\ ~next.cancel
<1> DEFINE next == Recorded(run, awaited.step, awaited.plan, ok, slow)
           i == run.index + 1
<1>1. Places(run, awaited.step) # {} /\ Place(run, awaited.step) = i
  BY AwaitedPlace
<1>2. awaited.plan \in Plan
  BY DEF Awaiting
<1>3. /\ next \in Run /\ OnlyStep(run, next, i)
      /\ next.steps[i].status = (IF ok THEN "finished" ELSE "failed")
      /\ ok => next.steps[i].result = awaited.plan
      /\ next.steps[i].confirm = run.steps[i].confirm
      /\ next.steps[i].ran = run.steps[i].ran
      /\ next.status = run.status /\ next.index = i /\ next.cancel = run.cancel
  BY <1>1, <1>2, RecordedIs
<1>4. /\ run.index \in Nat /\ Len(run.steps) \in Nat /\ DOMAIN run.steps = 1 .. Len(run.steps)
      /\ DOMAIN next.steps = 1 .. Len(run.steps) /\ Len(next.steps) = Len(run.steps)
      /\ i \in 1 .. Len(run.steps) /\ i = run.index + 1
  BY <1>3, RunFields DEF Busy, OnlyStep
<1>5. /\ run.steps[i].ran = 1 /\ ~run.steps[i].confirm /\ run.steps[i].plan = awaited.plan
      /\ run.status \in {"running", "cancelled"}
  BY DEF Busy
<1> HIDE DEF next, i
<1>6. IsOver(next) <=> IsOver(run)
  BY <1>3 DEF IsOver
<1>7. ASSUME NEW j \in 1 .. Len(run.steps) PROVE StepOrderly(run, j)
  BY <1>4 DEF Orderly
<1>8. Orderly(next)
  <2>1. ASSUME NEW j \in 1 .. Len(run.steps), j # i PROVE StepOrderly(next, j)
    <3>1. next.steps[j] = run.steps[j]
      BY <1>3, <2>1 DEF OnlyStep
    <3>2. (j <= i => j <= run.index) /\ (j > i => j > run.index + 1 /\ j > run.index)
      BY <1>4, <2>1
    <3>3. j > i + 1 => j > run.index + 1
      BY <1>4
    <3> QED BY <1>3, <1>6, <1>7, <3>1, <3>2, <3>3 DEF StepOrderly
  <2>2. StepOrderly(next, i)
    <3>1. next.steps[i].id = i /\ next.steps[i].plan = awaited.plan
      BY <1>3, <1>4, <1>5, <1>7 DEF OnlyStep, StepOrderly
    <3>2. ~(i > i) /\ ~(i > i + 1) /\ i <= i
      BY <1>4
    <3> QED BY <1>3, <1>5, <3>1, <3>2 DEF StepOrderly, Settled, Terminal
  <2>3. next.index <= Len(next.steps)
    BY <1>3, <1>4
  <2> QED BY <1>4, <2>1, <2>2, <2>3 DEF Orderly
<1>9. Quiet(next)
  <2> SUFFICES ASSUME i < Len(run.steps), ~IsOver(run)
               PROVE  next.steps[i + 1].ran = 0 /\ next.steps[i + 1].status = "pending"
    BY <1>3, <1>4, <1>6 DEF Quiet
  <2> DEFINE j == i + 1
  <2>1. j \in 1 .. Len(run.steps) /\ j # i /\ j > run.index + 1
    BY <1>4
  <2> HIDE DEF j
  <2>2. next.steps[j] = run.steps[j]
    BY <1>3, <2>1 DEF OnlyStep
  <2>3. StepOrderly(run, j)
    BY <1>7, <2>1
  <2>4. next.steps[j].ran = 0 /\ next.steps[j].status = "pending"
    BY <2>1, <2>2, <2>3 DEF StepOrderly
  <2> QED BY <2>4 DEF j
<1>10. ~IsOver(next) => next.status = "running" /\ ~next.cancel
  BY <1>3, <1>5, <1>6 DEF Healthy, IsOver, Terminal
<1> QED BY <1>3, <1>8, <1>9, <1>10 DEF next

LEMMA ReplannedSteady ==
    ASSUME NEW run \in Run, NEW confirms \in Seq(BOOLEAN), CanReplan(run, confirms),
           Steady(run, Idle)
    PROVE  Steady(Replanned(run, confirms), Idle)
<1> DEFINE next == Replanned(run, confirms)
           kept == run.index
           n == Len(confirms)
<1>1. /\ run.index \in Nat /\ Len(run.steps) \in Nat /\ DOMAIN run.steps = 1 .. Len(run.steps)
      /\ run.index <= Len(run.steps) /\ n \in Nat
  BY RunFields DEF Steady, Orderly
<1>2. (IF run.index < Len(run.steps) THEN run.index ELSE Len(run.steps)) = kept
  BY <1>1
<1>3. /\ next \in Run /\ Len(next.steps) = kept + n /\ Len(next.steps) <= MaxSteps
      /\ \A i \in 1 .. kept : next.steps[i] = run.steps[i]
      /\ \A i \in 1 .. n : next.steps[kept + i] =
            [id |-> run.index + i, plan |-> run.replans + 1, confirm |-> confirms[i],
             status |-> "pending", result |-> NoResult, ran |-> 0]
      /\ next.index = run.index
      /\ next.status = (IF run.status = "waiting" THEN "waiting" ELSE "running")
      /\ SameBudget(run, next)
  BY <1>2, ReplannedIs
<1> HIDE DEF next
<1>4. DOMAIN next.steps = 1 .. kept + n /\ ~IsOver(next) /\ ~IsOver(run)
  BY <1>3, RunFields DEF IsOver, Terminal, CanReplan
<1>5. \A i \in 1 .. n :
        /\ next.steps[kept + i].id = kept + i
        /\ next.steps[kept + i].status = "pending"
        /\ next.steps[kept + i].ran = 0
  <2> SUFFICES ASSUME NEW i \in 1 .. n
               PROVE  /\ next.steps[kept + i].id = kept + i
                      /\ next.steps[kept + i].status = "pending"
                      /\ next.steps[kept + i].ran = 0
    OBVIOUS
  <2> DEFINE place == kept + i
             plan == run.replans + 1
             new == [id |-> place, plan |-> plan, confirm |-> confirms[i],
                     status |-> "pending", result |-> NoResult, ran |-> 0]
  <2>1. next.steps[place] = new
    BY <1>3
  <2>2. new.id = place /\ new.status = "pending" /\ new.ran = 0
    OBVIOUS
  <2> HIDE DEF new
  <2> QED BY <2>1, <2>2
<1>6. ASSUME NEW j \in 1 .. kept + n PROVE StepOrderly(next, j)
  <2>1. CASE j <= kept
    <3>1. StepOrderly(run, j) /\ next.steps[j] = run.steps[j]
      BY <1>1, <1>3, <2>1 DEF Steady, Orderly
    <3> QED BY <1>3, <1>4, <3>1 DEF StepOrderly
  <2>2. CASE j > kept
    <3> DEFINE i == j - kept
    <3>1. i \in 1 .. n /\ j = kept + i
      BY <1>1, <2>2
    <3>2. next.steps[j].id = j /\ next.steps[j].status = "pending" /\ next.steps[j].ran = 0
      BY <1>5, <3>1
    <3>3. ~(j <= run.index)
      BY <1>1, <2>2
    <3> QED BY <1>3, <3>2, <3>3 DEF StepOrderly
  <2> QED BY <1>1, <2>1, <2>2
<1>7. Orderly(next)
  BY <1>1, <1>3, <1>4, <1>6 DEF Orderly
<1>8. Healthy(next)
  BY <1>3, <1>4 DEF Steady, Healthy, SameBudget
<1>9. Quiet(next)
  <2> SUFFICES ASSUME next.index < Len(next.steps)
               PROVE  /\ next.steps[next.index + 1].ran = 0
                      /\ next.steps[next.index + 1].status = "pending"
    BY DEF Quiet
  <2>1. 1 \in 1 .. n
    BY <1>1, <1>3
  <2> QED BY <1>3, <1>5, <2>1
<1> QED BY <1>7, <1>8, <1>9 DEF Steady, next

(***************************************************************************)
(* The steps of the executor.                                              *)
(***************************************************************************)

LEMMA AwaitedByTyped ==
    ASSUME NEW run \in Run, run.status = "running" => run.index < Len(run.steps)
    PROVE  AwaitedBy(run) \in Awaiting
<1>1. CASE run.status = "running"
  <2> DEFINE i == run.index + 1
             id == run.steps[i].id
             plan == run.steps[i].plan
  <2>1. i \in 1 .. Len(run.steps)
    BY <1>1, RunFields
  <2>2. run.steps[i] \in Step
    BY <2>1, RunFields
  <2>3. id \in 0 .. MaxSteps /\ plan \in Plan
    <3> HIDE DEF i
    <3>1. id \in 1 .. MaxSteps /\ plan \in Plan
      BY <2>2, StepFields
    <3> QED BY <3>1, RunAssumption
  <2>4. AwaitedBy(run) = [step |-> id, plan |-> plan]
    BY <1>1 DEF AwaitedBy
  <2> HIDE DEF id, plan
  <2> QED BY <2>3, <2>4 DEF Awaiting
<1>2. CASE run.status # "running"
  BY <1>2, RunAssumption DEF AwaitedBy, Idle, Awaiting, Plan
<1> QED BY <1>1, <1>2

(* A task saves the run and returns, or awaits the tool of its next step.  *)
LEMMA ContinuesStep ==
    ASSUME Inv, Stored(ApiRun), NEW t \in Tasks, NEW next \in Run, Continues(t, next),
           Frozen(runs[ApiRun], next), Len(next.steps) <= MaxSteps,
           next.status = "running" => next.index < Len(next.steps),
           crossed' \in BOOLEAN,
           ~crossed' => /\ \A u \in Tasks \ {t} : task[u] = Idle
                        /\ Steady(next, AwaitedBy(next))
    PROVE  Inv' /\ Final
<1>1. task \in [Tasks -> Awaiting]
  BY DEF Inv, TypeInv
<1>2. AwaitedBy(next) \in Awaiting
  BY AwaitedByTyped
<1>3. /\ Save(ApiRun, next) /\ UNCHANGED <<request, created, others>>
      /\ task' = [task EXCEPT ![t] = AwaitedBy(next)]
  BY DEF Continues
<1>4. task' \in [Tasks -> Awaiting]
  BY <1>1, <1>2, <1>3
<1>5. /\ TypeInv' /\ KnownInv' /\ \A q \in Requests : RequestInv(q)'
      /\ Final /\ runs'[ApiRun] = next
  BY <1>3, <1>4, ApiStep
<1>6. ApiInv'
  <2> SUFFICES ASSUME ~crossed'
               PROVE  /\ \A u, v \in Tasks : task'[u] # Idle /\ task'[v] # Idle => u = v
                      /\ \A u \in Tasks : task'[u] # Idle => Steady(next, task'[u])
                      /\ (\A u \in Tasks : task'[u] = Idle) => Steady(next, Idle)
    BY <1>5 DEF ApiInv, ApiRun
  <2>1. task'[t] = AwaitedBy(next) /\ \A u \in Tasks \ {t} : task'[u] = Idle
    BY <1>1, <1>3
  <2> QED BY <2>1
<1> QED BY <1>5, <1>6 DEF Inv

LEMMA ApiFacts ==
    ASSUME Inv, Stored(ApiRun)
    PROVE  /\ runs[ApiRun] \in Run
           /\ Len(runs[ApiRun].steps) <= MaxSteps
  BY TypeFacts DEF Inv, KnownInv, Stored

LEMMA RunStep ==
    ASSUME Inv, NEW t \in Tasks, ARun(t) \/ AResume(t)
    PROVE  Inv' /\ Final
<1> DEFINE run == runs[ApiRun]
<1>1. Stored(ApiRun) /\ task[t] = Idle /\ crossed' = (crossed \/ OthersWait(t))
  BY DEF ARun, AResume
<1>2. run \in Run /\ Len(run.steps) <= MaxSteps
  BY <1>1, ApiFacts
<1>3. PICK next \in {Started(run, Default), Resumed(run, Default)} : Continues(t, next)
  BY DEF ARun, AResume
<1>4. crossed' \in BOOLEAN
  BY <1>1
<1>5. ASSUME ~crossed' PROVE /\ \A u \in Tasks \ {t} : task[u] = Idle
                             /\ Steady(run, Idle)
  <2>1. ~crossed /\ \A u \in Tasks \ {t} : task[u] = Idle
    BY <1>1, <1>5 DEF OthersWait
  <2>2. \A u \in Tasks : task[u] = Idle
    BY <1>1, <2>1
  <2> QED BY <1>1, <2>1, <2>2 DEF Inv, ApiInv
<1> HIDE DEF run
<1>6. /\ next \in Run /\ Len(next.steps) = Len(run.steps) /\ Frozen(run, next)
      /\ next.status = "running" => next.index < Len(next.steps)
  BY <1>2, <1>3, StartedIs, ResumedIs
<1>7. ~crossed' => Steady(next, AwaitedBy(next))
  BY <1>2, <1>3, <1>5, StartedSteady, ResumedSteady
<1> QED BY <1>1, <1>2, <1>3, <1>4, <1>5, <1>6, <1>7, ContinuesStep DEF run

LEMMA AnswerStep ==
    ASSUME Inv, NEW t \in Tasks, NEW id \in 1 .. MaxSteps, NEW ok \in BOOLEAN,
           AResumeWithAnswer(t, id, ok)
    PROVE  Inv' /\ Final
<1> DEFINE run == runs[ApiRun]
           next == AnsweredAndResumed(run, id, ok, Default)
<1>1. /\ Stored(ApiRun) /\ task[t] = Idle /\ crossed' = (crossed \/ OthersWait(t))
      /\ Continues(t, next)
  BY DEF AResumeWithAnswer
<1>2. run \in Run /\ Len(run.steps) <= MaxSteps
  BY <1>1, ApiFacts
<1>3. crossed' \in BOOLEAN
  BY <1>1
<1>4. ASSUME ~crossed' PROVE /\ \A u \in Tasks \ {t} : task[u] = Idle
                             /\ Steady(run, Idle)
  <2>1. ~crossed /\ \A u \in Tasks \ {t} : task[u] = Idle
    BY <1>1, <1>4 DEF OthersWait
  <2>2. \A u \in Tasks : task[u] = Idle
    BY <1>1, <2>1
  <2> QED BY <1>1, <2>1, <2>2 DEF Inv, ApiInv
<1>5. /\ next \in Run /\ Len(next.steps) = Len(run.steps) /\ Frozen(run, next)
      /\ next.status = "running" => next.index < Len(next.steps)
  BY <1>2, AnsweredAndResumedIs
<1>6. ~crossed' => Steady(next, AwaitedBy(next))
  BY <1>2, <1>4, AnsweredAndResumedSteady
<1> HIDE DEF next
<1>7. Len(next.steps) <= MaxSteps
  BY <1>2, <1>5
<1> QED BY <1>1, <1>3, <1>4, <1>5, <1>6, <1>7, ContinuesStep

LEMMA ToolReturnsStep ==
    ASSUME Inv, NEW t \in Tasks, NEW ok \in BOOLEAN, NEW slow \in BOOLEAN,
           ToolReturns(t, ok, slow)
    PROVE  Inv' /\ Final
<1> DEFINE run == runs[ApiRun]
           awaited == task[t]
           recorded == Recorded(run, awaited.step, awaited.plan, ok, slow)
           next == Settle(recorded, Default)
           gone == ~Stored(ApiRun) \/ Places(run, awaited.step) = {}
<1>1. awaited # Idle /\ awaited \in Awaiting /\ UNCHANGED crossed /\ task \in [Tasks -> Awaiting]
  BY DEF ToolReturns, Inv, TypeInv
<1>2. crossed' \in BOOLEAN
  BY <1>1 DEF Inv, TypeInv
<1>3. ASSUME ~crossed, Stored(ApiRun)
      PROVE  /\ \A u \in Tasks \ {t} : task[u] = Idle
             /\ Orderly(run) /\ Healthy(run) /\ Busy(run, awaited)
  <2>1. Steady(run, awaited) /\ \A u \in Tasks \ {t} : task[u] = Idle
    BY <1>1, <1>3 DEF Inv, ApiInv
  <2> QED BY <1>1, <2>1 DEF Steady
<1>4. CASE gone
  <2>1. /\ task' = [task EXCEPT ![t] = Idle]
        /\ UNCHANGED <<order, runs, request, created, others>>
    BY <1>4 DEF ToolReturns
  <2>2. Idle \in Awaiting
    BY RunAssumption DEF Idle, Awaiting, Plan
  <2>3. TypeInv'
    BY <1>1, <1>2, <2>1, <2>2 DEF Inv, TypeInv
  <2>4. created
    BY <1>1 DEF Inv, KnownInv
  <2>5. KnownInv'
    BY <2>1, <2>4 DEF Inv, KnownInv, Stored
  <2>6. \A k : Untouched(k)
    BY <2>1 DEF Untouched
  <2>7. ASSUME NEW q \in Requests PROVE RequestInv(q)'
    BY <2>1, <2>6, LocalFields, RequestKept
  <2>8. crossed \/ ~Stored(ApiRun)
    <3>1. ~crossed /\ Stored(ApiRun) => FALSE
      <4> SUFFICES ASSUME ~crossed, Stored(ApiRun) PROVE FALSE
        OBVIOUS
      <4>1. run \in Run
        BY ApiFacts
      <4>2. Places(run, awaited.step) # {}
        BY <1>3, <4>1, AwaitedPlace
      <4> QED BY <1>4, <4>2
    <3> QED BY <3>1
  <2>9. ApiInv'
    BY <1>1, <2>1, <2>8 DEF ApiInv, Stored
  <2>10. Final
    BY <2>6, UntouchedFrozen DEF Final
  <2> QED BY <2>3, <2>5, <2>7, <2>9, <2>10 DEF Inv
<1>5. CASE ~gone
  <2>1. Continues(t, next) /\ Stored(ApiRun) /\ Places(run, awaited.step) # {}
    BY <1>5 DEF ToolReturns
  <2>2. run \in Run /\ Len(run.steps) <= MaxSteps /\ awaited.plan \in Plan
    BY <1>1, <2>1, ApiFacts DEF Awaiting
  <2>3. /\ recorded \in Run /\ Len(recorded.steps) = Len(run.steps)
        /\ Frozen(run, recorded)
        /\ recorded.status = run.status
    BY <2>1, <2>2, RecordedIs DEF OnlyStep
  <2>4. ~crossed => /\ Orderly(recorded) /\ Quiet(recorded)
                    /\ ~IsOver(recorded) => recorded.status = "running" /\ ~recorded.cancel
    BY <1>1, <1>3, <2>1, <2>2, RecordedSteady
  <2>5. Len(run.steps) \in Nat /\ DOMAIN run.steps = 1 .. Len(run.steps)
    BY <2>2, RunFields
  <2> HIDE DEF recorded
  <2>6. /\ next \in Run /\ Len(next.steps) = Len(recorded.steps)
        /\ Frozen(recorded, next)
        /\ next.status = "running" => next.index < Len(next.steps)
    BY <2>3, SettleIs
  <2>7. Frozen(run, next)
    <3>1. DOMAIN recorded.steps = 1 .. Len(run.steps)
      BY <2>3, RunFields
    <3> QED BY <2>3, <2>5, <2>6, <3>1 DEF Frozen, IsOver
  <2>8. ~crossed => Steady(next, AwaitedBy(next))
    BY <2>3, <2>4, SettleSteady
  <2> HIDE DEF next
  <2>9. Len(next.steps) <= MaxSteps
    BY <2>2, <2>3, <2>6
  <2> QED BY <1>1, <1>2, <1>3, <2>1, <2>6, <2>7, <2>8, <2>9, ContinuesStep
<1> QED BY <1>4, <1>5

(* What others do to the run while a task may await a tool of it.          *)
LEMMA OnRunStep ==
    ASSUME Inv, Stored(ApiRun), NEW next \in Run, Save(ApiRun, next),
           Frozen(runs[ApiRun], next), Len(next.steps) <= MaxSteps,
           UNCHANGED <<task, request, created, others>>,
           crossed' \in BOOLEAN, ~crossed' => ~crossed,
           ASSUME NEW awaited, Steady(runs[ApiRun], awaited), ~crossed',
                  awaited = Idle \/ \E t \in Tasks : task[t] # Idle
           PROVE  Steady(next, awaited)
    PROVE  Inv' /\ Final
<1>1. task' \in [Tasks -> Awaiting]
  BY DEF Inv, TypeInv
<1>2. /\ TypeInv' /\ KnownInv' /\ \A q \in Requests : RequestInv(q)'
      /\ Final /\ runs'[ApiRun] = next
  BY <1>1, ApiStep
<1>3. ApiInv'
  <2> SUFFICES ASSUME ~crossed'
               PROVE  /\ \A t, u \in Tasks : task[t] # Idle /\ task[u] # Idle => t = u
                      /\ \A t \in Tasks : task[t] # Idle => Steady(next, task[t])
                      /\ (\A t \in Tasks : task[t] = Idle) => Steady(next, Idle)
    BY <1>2 DEF ApiInv, ApiRun
  <2>1. /\ \A t, u \in Tasks : task[t] # Idle /\ task[u] # Idle => t = u
        /\ \A t \in Tasks : task[t] # Idle => Steady(runs[ApiRun], task[t])
        /\ (\A t \in Tasks : task[t] = Idle) => Steady(runs[ApiRun], Idle)
    BY DEF Inv, ApiInv
  <2>2. ASSUME NEW t \in Tasks, task[t] # Idle PROVE Steady(next, task[t])
    BY <2>1, <2>2
  <2>3. ASSUME \A t \in Tasks : task[t] = Idle PROVE Steady(next, Idle)
    BY <2>1, <2>3
  <2> QED BY <2>1, <2>2, <2>3
<1> QED BY <1>2, <1>3 DEF Inv

LEMMA CancelStep ==
    ASSUME Inv, Cancel
    PROVE  Inv' /\ Final
<1> DEFINE run == runs[ApiRun]
           next == Cancelled(run)
<1>1. /\ Stored(ApiRun) /\ ~IsOver(run) /\ Save(ApiRun, next)
      /\ UNCHANGED <<task, request, created, others, crossed>>
  BY DEF Cancel, Over
<1>2. run \in Run /\ Len(run.steps) <= MaxSteps
  BY <1>1, ApiFacts
<1>3. next \in Run /\ Len(next.steps) = Len(run.steps)
  BY <1>2, CancelledIs
<1>4. Frozen(run, next)
  BY <1>1 DEF Frozen
<1>5. ASSUME NEW awaited, Steady(run, awaited) PROVE Steady(next, awaited)
  BY <1>1, <1>2, <1>5, CancelledSteady
<1>6. crossed' \in BOOLEAN
  BY <1>1 DEF Inv, TypeInv
<1> HIDE DEF next
<1>7. Len(next.steps) <= MaxSteps
  BY <1>2, <1>3
<1> QED BY <1>1, <1>3, <1>4, <1>5, <1>6, <1>7, OnRunStep

LEMMA ApproveStep ==
    ASSUME Inv, NEW id \in 1 .. MaxSteps, NEW ok \in BOOLEAN, ApproveConfirmation(id, ok)
    PROVE  Inv' /\ Final
<1> DEFINE run == runs[ApiRun]
           next == Answered(run, id, ok)
<1>1. /\ Stored(ApiRun) /\ Awaited(run, id) /\ Save(ApiRun, next)
      /\ UNCHANGED <<task, request, created, others, crossed>>
  BY DEF ApproveConfirmation
<1>2. run \in Run /\ Len(run.steps) <= MaxSteps
  BY <1>1, ApiFacts
<1>3. next \in Run /\ Len(next.steps) = Len(run.steps) /\ Frozen(run, next)
  BY <1>2, AnsweredIs
<1>4. ASSUME NEW awaited, Steady(run, awaited) PROVE Steady(next, awaited)
  BY <1>1, <1>2, <1>4, AnsweredSteady
<1>5. crossed' \in BOOLEAN
  BY <1>1 DEF Inv, TypeInv
<1> HIDE DEF next
<1>6. Len(next.steps) <= MaxSteps
  BY <1>2, <1>3
<1> QED BY <1>1, <1>3, <1>4, <1>5, <1>6, OnRunStep

LEMMA ReplanStep ==
    ASSUME Inv, NEW confirms \in Plans, RequestReplan(confirms)
    PROVE  Inv' /\ Final
<1> DEFINE run == runs[ApiRun]
           next == Replanned(run, confirms)
<1>1. /\ Stored(ApiRun) /\ CanReplan(run, confirms) /\ Save(ApiRun, next)
      /\ crossed' = (crossed \/ \E t \in Tasks : task[t] # Idle)
      /\ UNCHANGED <<task, request, created, others>>
  BY DEF RequestReplan
<1>2. run \in Run /\ confirms \in Seq(BOOLEAN)
  BY <1>1, ApiFacts, HarnessAssumption
<1>3. next \in Run /\ Len(next.steps) <= MaxSteps
  BY <1>1, <1>2, ReplannedIs
<1>4. Frozen(run, next)
  BY <1>1 DEF Frozen, CanReplan
<1>5. ASSUME NEW awaited, Steady(run, awaited), ~crossed',
             awaited = Idle \/ \E t \in Tasks : task[t] # Idle
      PROVE  Steady(next, awaited)
  BY <1>1, <1>2, <1>5, ReplannedSteady
<1>6. crossed' \in BOOLEAN /\ (~crossed' => ~crossed)
  BY <1>1
<1> HIDE DEF next
<1> QED BY <1>1, <1>3, <1>4, <1>5, <1>6, OnRunStep

(***************************************************************************)
(* The invariant, and what follows from it.                                *)
(***************************************************************************)

LEMMA InitInv == Init => Inv
<1> SUFFICES ASSUME Init PROVE Inv
  OBVIOUS
<1>1. order = <<>> /\ runs = <<>> /\ DOMAIN order = {} /\ DOMAIN runs = {}
  <2>1. order = <<>> /\ runs = <<>>
    BY DEF Init
  <2>2. DOMAIN <<>> = {}
    OBVIOUS
  <2> QED BY <2>1, <2>2
<1>2. task = [t \in Tasks |-> Idle] /\ ~created /\ others = 0 /\ ~crossed
  BY DEF Init
<1>3. \A id : ~Stored(id)
  BY <1>1 DEF Stored
<1>4. ASSUME NEW q \in Requests
      PROVE  /\ request[q] \in Local /\ request[q].pc = "idle"
             /\ request[q].turn = 0 /\ request[q].calls = 0 /\ request[q].seen = <<>>
  <2> DEFINE First == {[pc |-> "idle", det |-> det, turn |-> 0, calls |-> 0,
                        late |-> FALSE, seen |-> <<>>,
                        verdict |-> ""] : det \in BOOLEAN}
  <2>1. request \in [Requests -> First]
    BY DEF Init
  <2>2. request[q] \in First
    BY <2>1
  <2>3. \A local \in First : /\ local \in Local /\ local.pc = "idle"
                             /\ local.turn = 0 /\ local.calls = 0 /\ local.seen = <<>>
    <3> DEFINE none == <<>>
               no == FALSE
    <3>1. none \in Seq(What) /\ no \in BOOLEAN
      OBVIOUS
    <3> HIDE DEF none, no
    <3>2. ASSUME NEW det \in BOOLEAN, NEW local,
                 local = [pc |-> "idle", det |-> det, turn |-> 0, calls |-> 0, late |-> no,
                          seen |-> none, verdict |-> ""]
          PROVE  /\ local \in Local /\ local.pc = "idle"
                 /\ local.turn = 0 /\ local.calls = 0 /\ local.seen = none
      BY <3>1, <3>2 DEF Local
    <3>3. \A local \in First :
            \E det \in BOOLEAN :
                local = [pc |-> "idle", det |-> det, turn |-> 0, calls |-> 0, late |-> no,
                         seen |-> none, verdict |-> ""]
      BY DEF no, none
    <3> HIDE DEF First
    <3>4. \A local \in First : /\ local \in Local /\ local.pc = "idle"
                               /\ local.turn = 0 /\ local.calls = 0 /\ local.seen = none
      BY <3>2, <3>3
    <3> QED BY <3>4 DEF none
  <2> QED BY <2>2, <2>3
<1>5. TypeInv
  <2>1. order \in Seq(RunId) /\ Len(order) <= MaxRuns
    BY <1>1, HarnessAssumption
  <2>2. runs \in [{order[i] : i \in DOMAIN order} -> Run]
    BY <1>1
  <2>3. task \in [Tasks -> Awaiting]
    BY <1>2, RunAssumption DEF Awaiting, Idle, Plan
  <2>4. request \in [Requests -> Local]
    BY <1>4 DEF Init
  <2>5. created \in BOOLEAN /\ crossed \in BOOLEAN
    BY DEF Init
  <2>6. others \in 0 .. MaxOthers
    BY <1>2, HarnessAssumption
  <2> QED BY <2>1, <2>2, <2>3, <2>4, <2>5, <2>6 DEF TypeInv
<1>6. KnownInv
  BY <1>2, <1>3 DEF KnownInv
<1>7. \A q \in Requests : RequestInv(q)
  BY <1>3, <1>4, RunAssumption DEF RequestInv, SeenInv, RunsInv, At
<1>8. ApiInv
  BY <1>3 DEF ApiInv
<1> QED BY <1>5, <1>6, <1>7, <1>8 DEF Inv

LEMMA StutterInv ==
    ASSUME Inv, UNCHANGED vars
    PROVE  Inv' /\ Final
<1>1. UNCHANGED <<order, runs, task, request, created, others, crossed>>
  BY DEF vars
<1>2. \A k : Untouched(k)
  BY <1>1 DEF Untouched
<1>3. TypeInv' /\ KnownInv' /\ ApiInv'
  BY <1>1, <1>2, ApiKept DEF Inv, TypeInv, KnownInv, Stored
<1>4. ASSUME NEW q \in Requests PROVE RequestInv(q)'
  BY <1>1, <1>2, LocalFields, RequestKept
<1>5. Final
  BY <1>2, UntouchedFrozen DEF Final
<1> QED BY <1>3, <1>4, <1>5 DEF Inv

LEMMA ExecutorInv ==
    ASSUME Inv, Executor
    PROVE  Inv' /\ Final
<1>1. ASSUME NEW confirms \in Plans, CreateRun(confirms) PROVE Inv' /\ Final
  BY <1>1, CreateRunStep
<1>2. ASSUME NEW confirms \in Plans, RequestReplan(confirms) PROVE Inv' /\ Final
  BY <1>2, ReplanStep
<1>3. ASSUME NEW t \in Tasks, ARun(t) \/ AResume(t) PROVE Inv' /\ Final
  BY <1>3, RunStep
<1>4. ASSUME NEW t \in Tasks, NEW id \in 1 .. MaxSteps, NEW ok \in BOOLEAN,
             AResumeWithAnswer(t, id, ok)
      PROVE  Inv' /\ Final
  BY <1>4, AnswerStep
<1>5. ASSUME NEW t \in Tasks, NEW ok \in BOOLEAN, NEW slow \in BOOLEAN, ToolReturns(t, ok, slow)
      PROVE  Inv' /\ Final
  BY <1>5, ToolReturnsStep
<1>6. ASSUME OtherRun PROVE Inv' /\ Final
  BY <1>6, OtherRunStep
<1>7. ASSUME Cancel PROVE Inv' /\ Final
  BY <1>7, CancelStep
<1>8. ASSUME NEW id \in 1 .. MaxSteps, NEW ok \in BOOLEAN, ApproveConfirmation(id, ok)
      PROVE  Inv' /\ Final
  BY <1>8, ApproveStep
<1> QED BY <1>1, <1>2, <1>3, <1>4, <1>5, <1>6, <1>7, <1>8 DEF Executor

LEMMA InvestigationInv ==
    ASSUME Inv, NEW q \in Requests, Investigation(q)
    PROVE  Inv' /\ Final
<1>1. ASSUME Begin(q) PROVE Inv' /\ Final
  BY <1>1, BeginStep
<1>2. ASSUME AskPlanner(q) PROVE Inv' /\ Final
  BY <1>2, AskPlannerStep
<1>3. ASSUME NextOfChain(q) PROVE Inv' /\ Final
  BY <1>3, NextOfChainStep
<1>4. ASSUME PlannerCallsTool(q) PROVE Inv' /\ Final
  BY <1>4, PlannerCallsToolStep
<1>5. ASSUME PlannerCallsNoTool(q) PROVE Inv' /\ Final
  BY <1>5, PlannerCallsNoToolStep
<1>6. ASSUME PlannerFinishes(q) \/ PlannerTimesOut(q) \/ PlannerFails(q) PROVE Inv' /\ Final
  BY <1>6, PlannerEndsStep
<1>7. ASSUME NEW outcome \in Outcomes, ToolEnds(q, outcome) PROVE Inv' /\ Final
  BY <1>7, ToolEndsStep
<1>8. ASSUME Deadline(q) PROVE Inv' /\ Final
  BY <1>8, DeadlineStep
<1> QED BY <1>1, <1>2, <1>3, <1>4, <1>5, <1>6, <1>7, <1>8 DEF Investigation

LEMMA StepInv == Inv /\ [Next]_vars => Inv' /\ Final
<1> SUFFICES ASSUME Inv, [Next]_vars PROVE Inv' /\ Final
  OBVIOUS
<1>1. CASE Executor
  BY <1>1, ExecutorInv
<1>2. ASSUME NEW q \in Requests, Investigation(q) PROVE Inv' /\ Final
  BY <1>2, InvestigationInv
<1>3. CASE UNCHANGED vars
  BY <1>3, StutterInv
<1> QED BY <1>1, <1>2, <1>3 DEF Next

(***************************************************************************)
(* The history of an investigation.  Its run is older than those of its    *)
(* turns, and the store drops the oldest run: while the run of the         *)
(* investigation is there, none of its turns is missing.                   *)
(***************************************************************************)

OlderInv(q) ==
    \A i, j \in DOMAIN order : \A n \in Nat \ {0} :
        order[i] = RequestRun(q) /\ order[j] = <<q, n>> => i < j

\* A run is lost only if the store is full, and then the store stays full.
FullInv(q) == ~At(q, "idle") /\ ~Stored(RequestRun(q)) => Len(order) = MaxRuns

\* The step is that of the run of its turn.
Backed(q, step, store) ==
    <<q, step.id>> \in DOMAIN store /\ store[<<q, step.id>>].steps = <<step>>

Recalls(q) ==
    ~At(q, "idle") /\ Stored(RequestRun(q)) =>
        /\ IsHistory(runs[RequestRun(q)].steps, request[q].seen)
        /\ \A i \in DOMAIN runs[RequestRun(q)].steps : Backed(q, runs[RequestRun(q)].steps[i], runs)

HistoryInv(q) == OlderInv(q) /\ FullInv(q) /\ Recalls(q)

(* What creating a run does to the order of the store.                     *)
LEMMA CreateOrder ==
    ASSUME StoreTypes, NEW id \in RunId, NEW run, Create(id, run)
    PROVE  \E d \in {0, 1} :
            /\ Len(order) \in Nat /\ DOMAIN order = 1 .. Len(order)
            /\ DOMAIN order' = 1 .. (Len(order) + 1 - d) /\ Len(order') = Len(order) + 1 - d
            /\ \A i \in DOMAIN order' :
                order'[i] = IF i + d = Len(order) + 1 THEN id ELSE order[i + d]
            /\ d = 1 <=> Len(order) = MaxRuns
            /\ DOMAIN runs = {order[i] : i \in DOMAIN order}
            /\ DOMAIN runs' = {order'[i] : i \in DOMAIN order'}
            /\ \A k \in DOMAIN runs' : runs'[k] = IF k = id THEN run ELSE runs[k]
<1> DEFINE all == Append(order, id)
           n == Len(order)
<1>1. n \in Nat /\ n <= MaxRuns /\ DOMAIN order = 1 .. n /\ order \in Seq(RunId)
  BY DEF StoreTypes
<1>2. /\ all \in Seq(RunId) /\ Len(all) = n + 1 /\ all # <<>>
      /\ \A i \in 1 .. n + 1 : all[i] = IF i = n + 1 THEN id ELSE order[i]
  BY <1>1
<1> HIDE DEF all
<1>3. /\ order' = IF Len(all) > MaxRuns THEN Tail(all) ELSE all
      /\ DOMAIN runs' = {order'[i] : i \in DOMAIN order'}
      /\ \A k \in DOMAIN runs' : runs'[k] = IF k = id THEN run ELSE runs[k]
  BY DEF Create, all
<1>4. DOMAIN runs = {order[i] : i \in DOMAIN order}
  BY DEF StoreTypes
<1> HIDE DEF n
<1>5. MaxRuns \in Nat
  BY HarnessAssumption
<1> DEFINE Shifted(d) ==
            /\ n \in Nat /\ DOMAIN order = 1 .. n
            /\ DOMAIN order' = 1 .. (n + 1 - d) /\ Len(order') = n + 1 - d
            /\ \A i \in DOMAIN order' : order'[i] = IF i + d = n + 1 THEN id ELSE order[i + d]
            /\ d = 1 <=> n = MaxRuns
<1>6. CASE n = MaxRuns
  <2>1. order' = Tail(all)
    BY <1>1, <1>2, <1>3, <1>5, <1>6
  <2>2. /\ DOMAIN order' = 1 .. n /\ Len(order') = n
        /\ \A i \in 1 .. n : order'[i] = all[i + 1]
    BY <1>1, <1>2, <2>1
  <2>3. \A i \in 1 .. n : order'[i] = IF i + 1 = n + 1 THEN id ELSE order[i + 1]
    BY <1>1, <1>2, <2>2
  <2>4. n + 1 - 1 = n
    BY <1>1
  <2>5. Shifted(1)
    BY <1>1, <1>6, <2>2, <2>3, <2>4
  <2> QED BY <1>3, <1>4, <2>5 DEF n
<1>7. CASE n # MaxRuns
  <2>1. order' = all
    BY <1>1, <1>2, <1>3, <1>5, <1>7
  <2>2. /\ DOMAIN order' = 1 .. n + 1 /\ Len(order') = n + 1
        /\ \A i \in 1 .. n + 1 : order'[i] = IF i + 0 = n + 1 THEN id ELSE order[i + 0]
    BY <1>1, <1>2, <2>1
  <2>3. n + 1 - 0 = n + 1
    BY <1>1
  <2>4. Shifted(0)
    BY <1>1, <1>7, <2>2, <2>3
  <2> QED BY <1>3, <1>4, <2>4 DEF n
<1> QED BY <1>6, <1>7

(* A history stays one when the planner sees what is not of a tool, and    *)
(* grows with the step of a tool.                                          *)
LEMMA HistorySeen ==
    ASSUME NEW steps \in Seq(Step), NEW seen \in Seq(What), IsHistory(steps, seen),
           NEW what \in {"code", "denied"}
    PROVE  IsHistory(steps, Append(seen, what))
<1> DEFINE next == Append(seen, what)
           n == Len(seen)
<1>1. /\ n \in Nat /\ DOMAIN seen = 1 .. n /\ DOMAIN next = 1 .. n + 1
      /\ \A i \in 1 .. n : next[i] = seen[i]
      /\ next[n + 1] = what
  OBVIOUS
<1>2. what \notin Outcomes
  BY DEF Outcomes
<1> HIDE DEF next, n
<1>3. \A i \in DOMAIN steps :
        /\ steps[i].id \in DOMAIN next
        /\ next[steps[i].id] \in Outcomes
        /\ steps[i].status = IF next[steps[i].id] = "result" THEN "finished" ELSE "failed"
  BY <1>1 DEF IsHistory
<1>4. \A i, j \in DOMAIN steps : i < j => steps[i].id < steps[j].id
  BY DEF IsHistory
<1>5. \A turn \in DOMAIN next :
        next[turn] \in Outcomes => \E i \in DOMAIN steps : steps[i].id = turn
  BY <1>1, <1>2 DEF IsHistory
<1> QED BY <1>3, <1>4, <1>5 DEF IsHistory, next

LEMMA HistoryStep ==
    ASSUME NEW steps \in Seq(Step), NEW seen \in Seq(What), IsHistory(steps, seen),
           NEW outcome \in Outcomes, NEW step \in Step, step.id = Len(seen) + 1,
           step.status = IF outcome = "result" THEN "finished" ELSE "failed"
    PROVE  IsHistory(Append(steps, step), Append(seen, outcome))
<1> DEFINE next == Append(seen, outcome)
           more == Append(steps, step)
           n == Len(seen)
           m == Len(steps)
<1>1. /\ n \in Nat /\ DOMAIN seen = 1 .. n /\ DOMAIN next = 1 .. n + 1
      /\ \A i \in 1 .. n : next[i] = seen[i]
      /\ next[n + 1] = outcome
  OBVIOUS
<1>2. /\ m \in Nat /\ DOMAIN steps = 1 .. m /\ DOMAIN more = 1 .. m + 1
      /\ \A i \in 1 .. m : more[i] = steps[i]
      /\ more[m + 1] = step
  OBVIOUS
<1>3. step.id = n + 1
  OBVIOUS
<1> HIDE DEF next, more, n, m
<1>4. \A i \in 1 .. m : steps[i].id \in 1 .. n
  BY <1>1, <1>2 DEF IsHistory
<1>5. \A i \in DOMAIN more :
        /\ more[i].id \in DOMAIN next
        /\ next[more[i].id] \in Outcomes
        /\ more[i].status = IF next[more[i].id] = "result" THEN "finished" ELSE "failed"
  <2>1. ASSUME NEW i \in 1 .. m
        PROVE  /\ more[i].id \in DOMAIN next
               /\ next[more[i].id] \in Outcomes
               /\ more[i].status = IF next[more[i].id] = "result" THEN "finished" ELSE "failed"
    <3>1. i \in DOMAIN steps /\ more[i] = steps[i] /\ steps[i].id \in 1 .. n
      BY <1>2, <1>4
    <3>2. /\ seen[steps[i].id] \in Outcomes
          /\ steps[i].status = IF seen[steps[i].id] = "result" THEN "finished" ELSE "failed"
      BY <3>1 DEF IsHistory
    <3>3. steps[i].id \in 1 .. n + 1 /\ next[steps[i].id] = seen[steps[i].id]
      BY <1>1, <3>1
    <3> QED BY <1>1, <3>1, <3>2, <3>3
  <2>2. /\ more[m + 1].id \in DOMAIN next
        /\ next[more[m + 1].id] \in Outcomes
        /\ more[m + 1].status = IF next[more[m + 1].id] = "result" THEN "finished" ELSE "failed"
    BY <1>1, <1>2, <1>3
  <2> QED BY <1>2, <2>1, <2>2
<1>6. ASSUME NEW i \in DOMAIN more, NEW j \in DOMAIN more, i < j PROVE more[i].id < more[j].id
  <2>1. i \in 1 .. m /\ (j \in 1 .. m \/ j = m + 1)
    BY <1>2, <1>6
  <2>2. CASE j \in 1 .. m
    BY <1>2, <1>6, <2>1, <2>2 DEF IsHistory
  <2>3. CASE j = m + 1
    BY <1>1, <1>2, <1>3, <1>4, <2>1, <2>3
  <2> QED BY <2>1, <2>2, <2>3
<1>7. ASSUME NEW turn \in DOMAIN next, next[turn] \in Outcomes
      PROVE  \E i \in DOMAIN more : more[i].id = turn
  <2>1. CASE turn = n + 1
    <3>1. m + 1 \in DOMAIN more /\ more[m + 1].id = turn
      BY <1>2, <1>3, <2>1
    <3> QED BY <3>1
  <2>2. CASE turn # n + 1
    <3>1. turn \in DOMAIN seen /\ seen[turn] \in Outcomes
      BY <1>1, <1>7, <2>2
    <3>2. PICK i \in DOMAIN steps : steps[i].id = turn
      BY <3>1 DEF IsHistory
    <3>3. i \in DOMAIN more /\ more[i].id = turn
      BY <1>2, <3>2
    <3> QED BY <3>3
  <2> QED BY <2>1, <2>2
<1> QED BY <1>5, <1>6, <1>7 DEF IsHistory, next, more

(* A step that is neither the first of investigation q nor the end of one  *)
(* of its tools: what it may do to the store, and to what q has seen.      *)
StoreStep(q) ==
    \/ /\ UNCHANGED order
       /\ DOMAIN runs' = DOMAIN runs
       /\ \A n \in Nat : <<q, n>> \in DOMAIN runs => runs'[<<q, n>>].steps = runs[<<q, n>>].steps
    \/ \E id \in RunId, run \in Run : Create(id, run) /\ id # RequestRun(q) /\ ~Stored(id)

SeenStep(q) ==
    /\ At(q, "idle")' <=> At(q, "idle")
    /\ \/ request'[q].seen = request[q].seen
       \/ \E what \in {"code", "denied"} : request'[q].seen = Append(request[q].seen, what)

LEMMA HistoryKept ==
    ASSUME Inv, NEW q \in Requests, HistoryInv(q), StoreStep(q), SeenStep(q)
    PROVE  HistoryInv(q)'
<1>1. PICK own : own = <<q, 0>> /\ own = RequestRun(q) /\ own = RequestRun(q)'
  BY DEF RequestRun
<1>2. StoreTypes /\ request[q].seen \in Seq(What)
  BY StoreTyped, LocalFields
<1>3. Stored(own) => runs[own] \in Run
  BY TypeFacts DEF Inv, Stored
<1>4. ASSUME ~At(q, "idle"), Stored(own)
      PROVE  /\ IsHistory(runs[own].steps, request'[q].seen)
             /\ \A i \in DOMAIN runs[own].steps : Backed(q, runs[own].steps[i], runs)
             /\ runs[own].steps \in Seq(Step)
             /\ \A i \in DOMAIN runs[own].steps : runs[own].steps[i].id \in Nat \ {0}
  <2>1. /\ IsHistory(runs[own].steps, request[q].seen)
        /\ \A i \in DOMAIN runs[own].steps : Backed(q, runs[own].steps[i], runs)
    BY <1>1, <1>4 DEF HistoryInv, Recalls
  <2>2. runs[own].steps \in Seq(Step)
    BY <1>3, <1>4, RunFields
  <2>3. \A i \in DOMAIN runs[own].steps : runs[own].steps[i].id \in Nat \ {0}
    BY <1>3, <1>4, RunFields, StepFields, RunAssumption
  <2>4. IsHistory(runs[own].steps, request'[q].seen)
    BY <1>2, <2>1, <2>2, HistorySeen DEF SeenStep
  <2> QED BY <2>1, <2>2, <2>3, <2>4
<1>5. CASE /\ UNCHANGED order
           /\ DOMAIN runs' = DOMAIN runs
           /\ \A n \in Nat : <<q, n>> \in DOMAIN runs =>
                runs'[<<q, n>>].steps = runs[<<q, n>>].steps
  <2>1. OlderInv(q)' /\ FullInv(q)'
    BY <1>1, <1>5 DEF HistoryInv, OlderInv, FullInv, Stored, SeenStep
  <2>2. Recalls(q)'
    <3> SUFFICES ASSUME ~At(q, "idle")', Stored(own)'
                 PROVE  /\ IsHistory(runs'[own].steps, request'[q].seen)
                        /\ \A i \in DOMAIN runs'[own].steps : Backed(q, runs'[own].steps[i], runs')
      BY <1>1 DEF Recalls
    <3>1. ~At(q, "idle") /\ Stored(own) /\ runs'[own].steps = runs[own].steps
      BY <1>1, <1>5 DEF SeenStep, Stored
    <3>2. ASSUME NEW i \in DOMAIN runs[own].steps
          PROVE  Backed(q, runs[own].steps[i], runs')
      <4>1. PICK step : step = runs[own].steps[i]
        OBVIOUS
      <4>2. Backed(q, step, runs) /\ step.id \in Nat
        BY <1>4, <3>1, <4>1
      <4>3. /\ <<q, step.id>> \in DOMAIN runs'
            /\ runs'[<<q, step.id>>].steps = runs[<<q, step.id>>].steps
        BY <1>5, <4>2 DEF Backed
      <4> QED BY <4>1, <4>2, <4>3 DEF Backed
    <3> QED BY <1>4, <3>1, <3>2
  <2> QED BY <2>1, <2>2 DEF HistoryInv
<1>6. ASSUME NEW id \in RunId, NEW run \in Run, Create(id, run), id # own, ~Stored(id)
      PROVE  HistoryInv(q)'
  <2>1. PICK d \in {0, 1} :
            /\ Len(order) \in Nat /\ DOMAIN order = 1 .. Len(order)
            /\ DOMAIN order' = 1 .. (Len(order) + 1 - d) /\ Len(order') = Len(order) + 1 - d
            /\ \A i \in DOMAIN order' :
                order'[i] = IF i + d = Len(order) + 1 THEN id ELSE order[i + d]
            /\ d = 1 <=> Len(order) = MaxRuns
            /\ DOMAIN runs = {order[i] : i \in DOMAIN order}
            /\ DOMAIN runs' = {order'[i] : i \in DOMAIN order'}
            /\ \A k \in DOMAIN runs' : runs'[k] = IF k = id THEN run ELSE runs[k]
    BY <1>2, <1>6, CreateOrder, Zenon
  <2>2. OlderInv(q)'
    <3> SUFFICES ASSUME NEW i \in DOMAIN order', NEW j \in DOMAIN order', NEW n \in Nat \ {0},
                        order'[i] = own, order'[j] = <<q, n>>
                 PROVE  i < j
      BY <1>1 DEF OlderInv
    <3>1. i + d \in DOMAIN order /\ order[i + d] = own
      BY <1>6, <2>1
    <3>2. CASE j + d = Len(order) + 1
      BY <2>1, <3>1, <3>2
    <3>3. CASE j + d # Len(order) + 1
      <4>1. j + d \in DOMAIN order /\ order[j + d] = <<q, n>>
        BY <2>1, <3>3
      <4>2. i + d < j + d
        BY <1>1, <3>1, <4>1 DEF HistoryInv, OlderInv
      <4> QED BY <2>1, <4>2
    <3> QED BY <3>2, <3>3
  <2>3. FullInv(q)'
    <3> SUFFICES ASSUME ~At(q, "idle"), ~Stored(own)' PROVE Len(order') = MaxRuns
      BY <1>1 DEF FullInv, SeenStep
    <3>1. CASE d = 1
      BY <2>1, <3>1
    <3>2. CASE d = 0
      <4>1. ~Stored(own)
        <5>1. ASSUME NEW i \in DOMAIN order, order[i] = own PROVE FALSE
          <6>1. i \in DOMAIN order' /\ order'[i] = own
            BY <2>1, <3>2, <5>1
          <6> QED BY <2>1, <6>1 DEF Stored
        <5> QED BY <2>1, <5>1 DEF Stored
      <4>2. Len(order) = MaxRuns
        BY <1>1, <4>1 DEF HistoryInv, FullInv
      <4> QED BY <2>1, <3>2, <4>2
    <3> QED BY <3>1, <3>2
  <2>4. Recalls(q)'
    <3> SUFFICES ASSUME ~At(q, "idle")', Stored(own)'
                 PROVE  /\ IsHistory(runs'[own].steps, request'[q].seen)
                        /\ \A i \in DOMAIN runs'[own].steps : Backed(q, runs'[own].steps[i], runs')
      BY <1>1 DEF Recalls
    <3>1. PICK i \in DOMAIN order' : order'[i] = own
      BY <2>1 DEF Stored
    <3>2. i + d \in DOMAIN order /\ order[i + d] = own
      BY <1>6, <2>1, <3>1
    <3>3. ~At(q, "idle") /\ Stored(own) /\ runs'[own] = runs[own]
      BY <1>6, <2>1, <3>2 DEF SeenStep, Stored
    <3>4. ASSUME NEW k \in DOMAIN runs[own].steps
          PROVE  Backed(q, runs[own].steps[k], runs')
      <4>1. PICK step : step = runs[own].steps[k]
        OBVIOUS
      <4>2. Backed(q, step, runs) /\ step.id \in Nat \ {0}
        BY <1>4, <3>3, <4>1
      <4>3. PICK turn : turn = <<q, step.id>>
        OBVIOUS
      <4>4. turn \in DOMAIN runs /\ runs[turn].steps = <<step>>
        BY <4>2, <4>3 DEF Backed
      <4>5. PICK j \in DOMAIN order : order[j] = turn
        BY <2>1, <4>4
      <4>6. i + d < j
        BY <1>1, <3>2, <4>2, <4>3, <4>5 DEF HistoryInv, OlderInv
      <4>7. j - d \in DOMAIN order' /\ order'[j - d] = turn
        BY <2>1, <3>1, <4>5, <4>6
      <4>8. turn \in DOMAIN runs' /\ turn # id
        BY <1>6, <2>1, <4>4, <4>7 DEF Stored
      <4>9. runs'[turn].steps = <<step>>
        BY <2>1, <4>4, <4>8
      <4> QED BY <4>1, <4>3, <4>8, <4>9 DEF Backed
    <3> QED BY <1>4, <3>3, <3>4
  <2> QED BY <2>2, <2>3, <2>4 DEF HistoryInv
<1> QED BY <1>1, <1>5, <1>6 DEF StoreStep

(* The run of an investigation is new: there is none of its turns yet.     *)
LEMMA HistoryBegun ==
    ASSUME Inv, NEW q \in Requests, HistoryInv(q), Begin(q)
    PROVE  HistoryInv(q)'
<1>1. PICK own : own = <<q, 0>> /\ own = RequestRun(q) /\ own = RequestRun(q)'
  BY DEF RequestRun
<1>2. PICK run : Create(own, run) /\ run = [NewRun(<<>>) EXCEPT !.status = "running"]
  BY <1>1 DEF Begin
<1>3. Len(run.steps) = 0 /\ DOMAIN run.steps = {}
  <2> DEFINE none == <<>>
             new == NewRun(none)
  <2>1. run = [new EXCEPT !.status = "running"] /\ new.steps = NewSteps(0, 0, none)
    BY <1>2 DEF NewRun
  <2>2. NewSteps(0, 0, none) = none /\ DOMAIN none = {} /\ Len(none) = 0
    BY NoSteps
  <2>3. new.steps = none
    BY <2>1, <2>2
  <2>4. new = [status |-> "pending", steps |-> new.steps, index |-> 0, calls |-> 0,
        replans |-> 0, spent |-> FALSE, cancel |-> FALSE, pending |-> 0, error |-> "none"]
    BY DEF NewRun
  <2> HIDE DEF none, new
  <2>5. run.steps = new.steps
    BY <2>1, <2>4
  <2> QED BY <2>2, <2>3, <2>5
<1>4. /\ request[q].pc = "idle" /\ request'[q].seen = request[q].seen /\ request[q].seen = <<>>
      /\ \A n \in Nat : <<q, n>> \notin DOMAIN runs
  BY LocalFields DEF Begin, At, Inv, TypeInv, RequestInv, SeenInv, RunsInv, Stored
<1>5. PICK d \in {0, 1} :
        /\ Len(order) \in Nat /\ DOMAIN order = 1 .. Len(order)
        /\ DOMAIN order' = 1 .. (Len(order) + 1 - d) /\ Len(order') = Len(order) + 1 - d
        /\ \A i \in DOMAIN order' :
            order'[i] = IF i + d = Len(order) + 1 THEN own ELSE order[i + d]
        /\ d = 1 <=> Len(order) = MaxRuns
        /\ DOMAIN runs = {order[i] : i \in DOMAIN order}
        /\ DOMAIN runs' = {order'[i] : i \in DOMAIN order'}
        /\ \A k \in DOMAIN runs' : runs'[k] = IF k = own THEN run ELSE runs[k]
  <2>1. own \in RunId /\ StoreTypes
    BY <1>1, StoreTyped DEF RunId
  <2>2. Create(own, run)
    BY <1>2
  <2> QED BY <2>1, <2>2, CreateOrder, Zenon
<1>6. OlderInv(q)'
  <2> SUFFICES ASSUME NEW j \in DOMAIN order', NEW n \in Nat \ {0}, order'[j] = <<q, n>>
               PROVE  FALSE
    BY DEF OlderInv
  <2>1. order'[j] # own
    BY <1>1
  <2>2. j + d # Len(order) + 1
    BY <1>5, <2>1
  <2>3. order[j + d] = <<q, n>>
    BY <1>5, <2>2
  <2>4. j + d \in DOMAIN order
    BY <1>5, <2>2
  <2> QED BY <1>4, <1>5, <2>3, <2>4
<1>7. own \in DOMAIN runs' /\ runs'[own] = run
  <2> DEFINE last == Len(order) + 1 - d
  <2>1. last \in DOMAIN order'
    <3>1. CASE d = 1
      BY <1>5, <3>1, HarnessAssumption
    <3>2. CASE d = 0
      BY <1>5, <3>2
    <3> QED BY <3>1, <3>2
  <2>2. order'[last] = own
    BY <1>5, <2>1
  <2> QED BY <1>5, <2>1, <2>2
<1>8. FullInv(q)'
  BY <1>1, <1>7 DEF FullInv, Stored
<1>9. Recalls(q)'
  <2>1. IsHistory(run.steps, <<>>)
    BY <1>3 DEF IsHistory
  <2> QED BY <1>1, <1>3, <1>4, <1>7, <2>1 DEF Recalls
<1> QED BY <1>6, <1>8, <1>9 DEF HistoryInv

(* A tool has ended: the step is recorded twice, in the run of the turn    *)
(* and in that of the investigation.                                       *)
LEMMA HistoryEnded ==
    ASSUME Inv, NEW q \in Requests, HistoryInv(q), NEW outcome \in Outcomes, ToolEnds(q, outcome)
    PROVE  HistoryInv(q)'
<1>1. PICK own : own = <<q, 0>> /\ own = RequestRun(q) /\ own = RequestRun(q)'
  BY DEF RequestRun
<1>2. PICK turn : turn = request[q].turn
  OBVIOUS
<1>3. PICK seen : seen = request[q].seen
  OBVIOUS
<1>4. /\ turn \in 1 .. MaxSteps /\ turn \in Nat \ {0} /\ seen \in Seq(What)
      /\ Len(seen) + 1 = turn /\ Len(seen) \in Nat
      /\ request[q].pc = "tool" /\ request \in [Requests -> Local]
  <2>1. request[q].pc = "tool" /\ RequestInv(q)
    BY LocalFields DEF ToolEnds, At
  <2>2. Len(seen) + 1 = turn
    BY <1>2, <1>3, <2>1 DEF RequestInv, SeenInv
  <2> QED BY <1>2, <1>3, <2>1, <2>2, LocalFields DEF Inv, TypeInv
<1>5. PICK id : id = <<q, turn>> /\ id = StepRun(q) /\ id # own
  <2>1. <<q, turn>> # own
    BY <1>1, <1>4
  <2> QED BY <1>2, <2>1 DEF StepRun
<1>6. CASE ~Stored(id)
  <2>1. request' = [request EXCEPT ![q].pc = "raised"] /\ UNCHANGED <<order, runs>>
    BY <1>5, <1>6 DEF ToolEnds
  <2>2. request'[q].pc = "raised" /\ request'[q].seen = request[q].seen
    BY <1>4, <2>1 DEF Local
  <2>3. StoreStep(q) /\ SeenStep(q)
    BY <1>4, <2>1, <2>2 DEF StoreStep, SeenStep, At
  <2> QED BY <2>3, HistoryKept
<1>7. CASE Stored(id)
  <2> DEFINE ok == outcome = "result"
  <2>1. runs[id] = Launched(turn)
    BY <1>2, <1>4, <1>5, <1>7, LocalFields DEF RequestInv, RunsInv, At
  <2>2. PICK final : final = Ended(turn, ok)
    OBVIOUS
  <2>3. PICK step : step = final.steps[1]
    OBVIOUS
  <2>4. /\ final.steps = <<step>> /\ step \in Step /\ step.id = turn
        /\ step.status = IF outcome = "result" THEN "finished" ELSE "failed"
    <3>1. /\ final \in Run /\ Len(final.steps) = 1 /\ step \in Step /\ step.id = turn
          /\ step.status = IF ok THEN "finished" ELSE "failed"
      BY <1>4, <2>2, <2>3, EndedIs
    <3>2. final.steps \in Seq(Step)
      BY <3>1, RunFields
    <3>3. final.steps = <<step>>
      BY <2>3, <3>1, <3>2
    <3> QED BY <3>1, <3>3
  <2>5. /\ runs' = [k \in DOMAIN runs |-> IF k = id THEN final
                        ELSE IF k = own THEN Appended(q, step) ELSE runs[k]]
        /\ request' = [request EXCEPT ![q].pc = "turn", ![q].calls = @ + 1,
                                      ![q].seen = Append(@, outcome)]
        /\ UNCHANGED order
    BY <1>1, <1>2, <1>5, <1>7, <2>1, <2>2, <2>3, Zenon DEF ToolEnds, Ended
  <2>6. request'[q].pc = "turn" /\ request'[q].seen = Append(seen, outcome)
    BY <1>3, <1>4, <2>5 DEF Local
  <2>7. OlderInv(q)'
    BY <1>1, <2>5 DEF HistoryInv, OlderInv
  <2>8. FullInv(q)'
    BY <1>1, <1>4, <2>5 DEF HistoryInv, FullInv, Stored, At
  <2>9. Recalls(q)'
    <3> SUFFICES ASSUME own \in DOMAIN runs
                 PROVE  /\ IsHistory(runs'[own].steps, request'[q].seen)
                        /\ \A i \in DOMAIN runs'[own].steps : Backed(q, runs'[own].steps[i], runs')
      BY <1>1, <2>5 DEF Recalls, Stored
    <3>1. PICK steps : steps = runs[own].steps
      OBVIOUS
    <3>2. runs[own] \in Run /\ steps \in Seq(Step)
      BY <3>1, TypeFacts, RunFields DEF Inv
    <3>3. runs'[own].steps = Append(steps, step)
      <4>1. runs'[own] = Appended(q, step)
        BY <1>5, <2>5
      <4>2. Appended(q, step) = [runs[own] EXCEPT !.steps = Append(@, step),
                                        !.index = Len(steps) + 1,
                                        !.calls = request[q].calls + 1]
        BY <1>1, <3>1 DEF Appended
      <4> QED BY <3>1, <3>2, <4>1, <4>2 DEF Run
    <3>4. IsHistory(steps, seen) /\ \A i \in DOMAIN steps : Backed(q, steps[i], runs)
      BY <1>1, <1>3, <1>4, <3>1 DEF HistoryInv, Recalls, Stored, At
    <3>5. IsHistory(Append(steps, step), Append(seen, outcome))
      BY <1>4, <2>4, <3>2, <3>4, HistoryStep
    <3>6. ASSUME NEW i \in DOMAIN steps PROVE Backed(q, steps[i], runs')
      <4>1. steps[i].id \in 1 .. Len(seen)
        BY <1>4, <3>4 DEF IsHistory
      <4>2. PICK k : k = <<q, steps[i].id>>
        OBVIOUS
      <4>3. k # id /\ k # own
        BY <1>1, <1>4, <1>5, <4>1, <4>2
      <4>4. k \in DOMAIN runs /\ runs[k].steps = <<steps[i]>>
        BY <3>4, <4>2 DEF Backed
      <4>5. k \in DOMAIN runs' /\ runs'[k] = runs[k]
        BY <2>5, <4>3, <4>4
      <4> QED BY <4>2, <4>4, <4>5 DEF Backed
    <3>7. Backed(q, step, runs')
      BY <1>5, <1>7, <2>4, <2>5 DEF Backed, Stored
    <3>8. \A i \in DOMAIN Append(steps, step) : Backed(q, Append(steps, step)[i], runs')
      <4>1. /\ DOMAIN steps = 1 .. Len(steps) /\ Len(steps) \in Nat
            /\ DOMAIN Append(steps, step) = 1 .. Len(steps) + 1
            /\ \A i \in 1 .. Len(steps) : Append(steps, step)[i] = steps[i]
            /\ Append(steps, step)[Len(steps) + 1] = step
        BY <2>4, <3>2
      <4> QED BY <3>6, <3>7, <4>1
    <3> QED BY <2>6, <3>3, <3>5, <3>8
  <2> QED BY <2>7, <2>8, <2>9 DEF HistoryInv
<1> QED BY <1>6, <1>7

(* What the other steps do to the store and to what q has seen.            *)
LEMMA SavedApi ==
    ASSUME Inv, NEW q \in Requests, NEW run, Save(ApiRun, run)
    PROVE  StoreStep(q)
<1>1. \A n \in Nat : <<q, n>> # ApiRun
  BY HarnessAssumption DEF ApiRun
<1> QED BY <1>1 DEF StoreStep, Save

LEMMA ExecutorStore ==
    ASSUME Inv, NEW q \in Requests, Executor
    PROVE  StoreStep(q) /\ request' = request
<1>1. ASSUME NEW confirms \in Plans, CreateRun(confirms) PROVE StoreStep(q) /\ request' = request
  <2>1. ~Stored(ApiRun)
    BY <1>1 DEF Inv, KnownInv, CreateRun
  <2>2. confirms \in Seq(BOOLEAN) /\ Len(confirms) <= MaxSteps
    BY <1>1, HarnessAssumption DEF CreateRun
  <2>3. NewRun(confirms) \in Run
    BY <2>2, NewRunIs
  <2>4. ApiRun \in RunId /\ ApiRun # RequestRun(q)
    BY HarnessAssumption DEF RunId, ApiRun, RequestRun
  <2> QED BY <1>1, <2>1, <2>3, <2>4 DEF CreateRun, StoreStep
<1>2. ASSUME OtherRun PROVE StoreStep(q) /\ request' = request
  <2> DEFINE none == <<>>
  <2>1. none \in Seq(BOOLEAN) /\ Len(none) <= MaxSteps
    BY RunAssumption
  <2>2. Create(<<"other", others'>>, NewRun(none)) /\ request' = request /\ others' = others + 1
    BY <1>2 DEF OtherRun
  <2> HIDE DEF none
  <2>3. NewRun(none) \in Run
    BY <2>1, NewRunIs
  <2>4. others \in Nat /\ others' \in Nat
    BY <2>2, HarnessAssumption DEF Inv, TypeInv
  <2>5. <<"other", others'>> \in RunId /\ <<"other", others'>> # RequestRun(q)
    BY <2>4, HarnessAssumption DEF RunId, RequestRun
  <2>6. ~Stored(<<"other", others'>>)
    BY <2>2, <2>4 DEF Inv, KnownInv
  <2> QED BY <2>2, <2>3, <2>5, <2>6 DEF StoreStep
<1>3. ASSUME NEW t \in Tasks, NEW run, Continues(t, run) PROVE StoreStep(q) /\ request' = request
  BY <1>3, SavedApi DEF Continues
<1>4. ASSUME NEW t \in Tasks, ARun(t) \/ AResume(t) PROVE StoreStep(q) /\ request' = request
  BY <1>3, <1>4 DEF ARun, AResume
<1>5. ASSUME NEW t \in Tasks, NEW id \in 1 .. MaxSteps, NEW ok \in BOOLEAN,
             AResumeWithAnswer(t, id, ok)
      PROVE  StoreStep(q) /\ request' = request
  BY <1>3, <1>5 DEF AResumeWithAnswer
<1>6. ASSUME NEW t \in Tasks, NEW ok \in BOOLEAN, NEW slow \in BOOLEAN, ToolReturns(t, ok, slow)
      PROVE  StoreStep(q) /\ request' = request
  <2>1. CASE UNCHANGED <<order, runs, request>>
    BY <2>1 DEF StoreStep
  <2> QED BY <1>3, <1>6, <2>1 DEF ToolReturns
<1>7. ASSUME NEW run, Save(ApiRun, run), UNCHANGED request PROVE StoreStep(q) /\ request' = request
  BY <1>7, SavedApi
<1>8. ASSUME NEW confirms \in Plans, RequestReplan(confirms)
      PROVE  StoreStep(q) /\ request' = request
  BY <1>7, <1>8 DEF RequestReplan
<1>9. ASSUME Cancel PROVE StoreStep(q) /\ request' = request
  BY <1>7, <1>9 DEF Cancel
<1>10. ASSUME NEW id \in 1 .. MaxSteps, NEW ok \in BOOLEAN, ApproveConfirmation(id, ok)
       PROVE  StoreStep(q) /\ request' = request
  BY <1>7, <1>10 DEF ApproveConfirmation
<1> QED BY <1>1, <1>2, <1>4, <1>5, <1>6, <1>8, <1>9, <1>10 DEF Executor

LEMMA FinalizesStore ==
    ASSUME Inv, NEW q \in Requests, NEW r \in Requests, Finalizes(r), ~At(r, "idle")
    PROVE  StoreStep(q) /\ SeenStep(q)
<1>1. SeenStep(q)
  BY DEF Inv, TypeInv, Local, Finalizes, SeenStep, At
<1>2. CASE ~Stored(RequestRun(r))
  BY <1>1, <1>2 DEF Finalizes, StoreStep
<1>3. CASE Stored(RequestRun(r))
  <2>1. PICK own : own = RequestRun(r) /\ own \in DOMAIN runs
    BY <1>3 DEF Stored
  <2>2. PICK run : /\ Save(own, run)
                   /\ run = [runs[own] EXCEPT !.status = "finished", !.calls = request[r].calls]
    BY <1>3, <2>1 DEF Finalizes, Synced
  <2>3. runs[own] \in Run
    BY <2>1, TypeFacts DEF Inv
  <2>4. run.steps = runs[own].steps
    BY <2>2, <2>3 DEF Run
  <2>5. /\ UNCHANGED order /\ DOMAIN runs' = DOMAIN runs
        /\ \A k \in DOMAIN runs : runs'[k].steps = runs[k].steps
    BY <2>1, <2>2, <2>4 DEF Save
  <2> QED BY <1>1, <2>5 DEF StoreStep
<1> QED BY <1>2, <1>3

LEMMA CallToolStore ==
    ASSUME Inv, NEW q \in Requests, NEW r \in Requests, NEW turn \in 1 .. MaxSteps,
           CallTool(r, turn), ~At(r, "idle"), ~Stored(<<r, turn>>)
    PROVE  StoreStep(q) /\ SeenStep(q)
<1>1. turn \in Nat \ {0}
  BY RunAssumption
<1>2. CASE request[r].calls >= MaxToolCalls \/ request[r].late
  <2>1. /\ request' = [request EXCEPT ![r].turn = turn, ![r].pc = "turn",
                                      ![r].seen = Append(@, "denied")]
        /\ UNCHANGED <<order, runs>>
    BY <1>2 DEF CallTool
  <2>2. SeenStep(q)
    BY <2>1 DEF Inv, TypeInv, Local, SeenStep, At
  <2> QED BY <2>1, <2>2 DEF StoreStep
<1>3. CASE ~(request[r].calls >= MaxToolCalls \/ request[r].late)
  <2>1. /\ Create(<<r, turn>>, Launched(turn))
        /\ request' = [request EXCEPT ![r].turn = turn, ![r].pc = "tool"]
    BY <1>3 DEF CallTool, Launched
  <2>2. SeenStep(q)
    BY <2>1 DEF Inv, TypeInv, Local, SeenStep, At
  <2>3. <<r, turn>> \in RunId /\ <<r, turn>> # RequestRun(q) /\ Launched(turn) \in Run
    BY <1>1, LaunchedIs DEF RunId, RequestRun
  <2> QED BY <2>1, <2>2, <2>3 DEF StoreStep
<1> QED BY <1>2, <1>3

LEMMA InvestigationStore ==
    ASSUME Inv, NEW q \in Requests, NEW r \in Requests, Investigation(r),
           q = r => ~Begin(r) /\ \A outcome \in Outcomes : ~ToolEnds(r, outcome)
    PROVE  StoreStep(q) /\ SeenStep(q)
<1>1. /\ RequestInv(r) /\ request[r].turn \in Nat /\ request \in [Requests -> Local]
      /\ request[r].turn <= MaxSteps
  BY LocalFields DEF Inv, TypeInv
<1>2. ASSUME Begin(r), q # r PROVE StoreStep(q) /\ SeenStep(q)
  <2> DEFINE none == <<>>
             new == NewRun(none)
             run == [new EXCEPT !.status = "running"]
  <2>1. none \in Seq(BOOLEAN) /\ Len(none) <= MaxSteps
    BY RunAssumption
  <2>2. /\ Create(RequestRun(r), run) /\ At(r, "idle")
        /\ request' = [request EXCEPT ![r].pc = "turn"]
    BY <1>2 DEF Begin
  <2> HIDE DEF none
  <2>3. new \in Run
    BY <2>1, NewRunIs
  <2> HIDE DEF new
  <2>4. run \in Run
    BY <2>3 DEF Run, RunStatus
  <2>5. RequestRun(r) \in RunId /\ RequestRun(r) # RequestRun(q) /\ ~Stored(RequestRun(r))
    BY <1>1, <1>2, <2>2 DEF RunId, RequestRun, RequestInv, RunsInv
  <2>6. SeenStep(q)
    BY <1>1, <1>2, <2>2 DEF SeenStep, At
  <2> QED BY <2>2, <2>4, <2>5, <2>6 DEF StoreStep
<1>3. ASSUME NEW outcome \in Outcomes, ToolEnds(r, outcome), q # r
      PROVE  StoreStep(q) /\ SeenStep(q)
  <2>1. SeenStep(q)
    BY <1>1, <1>3 DEF ToolEnds, SeenStep, At
  <2>2. /\ UNCHANGED order /\ DOMAIN runs' = DOMAIN runs
        /\ \A n \in Nat : <<q, n>> \in DOMAIN runs => runs'[<<q, n>>] = runs[<<q, n>>]
    BY <1>3 DEF ToolEnds, StepRun, RequestRun
  <2> QED BY <2>1, <2>2 DEF StoreStep
<1>4. ASSUME Finalizes(r), request[r].pc \in {"turn", "plan"} PROVE StoreStep(q) /\ SeenStep(q)
  BY <1>4, FinalizesStore DEF At
<1>5. ASSUME UNCHANGED <<order, runs>>, SeenStep(q) PROVE StoreStep(q) /\ SeenStep(q)
  BY <1>5 DEF StoreStep
<1>6. ASSUME AskPlanner(r) PROVE StoreStep(q) /\ SeenStep(q)
  <2>1. CASE Finalizes(r)
    BY <1>4, <1>6, <2>1 DEF AskPlanner, At
  <2>2. CASE /\ request' = [request EXCEPT ![r].pc = "plan", ![r].turn = @ + 1]
             /\ UNCHANGED <<order, runs>>
    <3>1. SeenStep(q)
      BY <1>1, <1>6, <2>2 DEF AskPlanner, Local, SeenStep, At
    <3> QED BY <1>5, <2>2, <3>1
  <2> QED BY <1>6, <2>1, <2>2 DEF AskPlanner
<1>7. ASSUME NextOfChain(r) PROVE StoreStep(q) /\ SeenStep(q)
  <2> DEFINE turn == request[r].turn + 1
  <2>1. request[r].pc = "turn"
    BY <1>7 DEF NextOfChain, At
  <2>2. turn \in Nat \ {0} /\ ~Stored(<<r, turn>>)
    BY <1>1 DEF RequestInv, RunsInv
  <2>3. CASE Finalizes(r)
    BY <1>4, <2>1, <2>3
  <2>4. CASE turn <= Len(Chain) /\ CallTool(r, turn)
    <3>1. turn \in 1 .. MaxSteps
      BY <2>2, <2>4, HarnessAssumption, RunAssumption
    <3> HIDE DEF turn
    <3> QED BY <2>1, <2>2, <2>4, <3>1, CallToolStore DEF At
  <2>5. ASSUME NEW what \in {"code", "denied"}, UNCHANGED <<order, runs>>,
               request' = [request EXCEPT ![r].turn = turn, ![r].seen = Append(@, what)]
        PROVE  StoreStep(q) /\ SeenStep(q)
    <3>1. SeenStep(q)
      BY <1>1, <2>1, <2>5 DEF Local, SeenStep, At
    <3> QED BY <1>5, <2>5, <3>1
  <2>6. \/ Finalizes(r)
        \/ turn <= Len(Chain) /\ CallTool(r, turn)
        \/ /\ UNCHANGED <<order, runs>>
           /\ \E what \in {"code", "denied"} :
                request' = [request EXCEPT ![r].turn = turn, ![r].seen = Append(@, what)]
    BY <1>7 DEF NextOfChain
  <2> QED BY <2>3, <2>4, <2>5, <2>6
<1>8. ASSUME PlannerCallsTool(r) PROVE StoreStep(q) /\ SeenStep(q)
  <2>1. request[r].pc = "plan" /\ CallTool(r, request[r].turn)
    BY <1>8 DEF PlannerCallsTool, At
  <2>2. /\ request[r].turn \in 1 .. MaxSteps /\ ~Stored(<<r, request[r].turn>>)
    BY <1>1, <2>1, LocalFields DEF RequestInv, RunsInv, SeenInv, At
  <2> QED BY <2>1, <2>2, CallToolStore DEF At
<1>9. ASSUME PlannerCallsNoTool(r) PROVE StoreStep(q) /\ SeenStep(q)
  <2>1. PICK what \in {"code", "denied"} :
            request' = [request EXCEPT ![r].pc = "turn", ![r].seen = Append(@, what)]
    BY <1>9 DEF PlannerCallsNoTool, Sees
  <2>2. request[r].pc = "plan" /\ UNCHANGED <<order, runs>>
    BY <1>9 DEF PlannerCallsNoTool, At
  <2>3. SeenStep(q)
    BY <1>1, <2>1, <2>2 DEF Local, SeenStep, At
  <2> QED BY <1>5, <2>2, <2>3
<1>10. ASSUME PlannerFinishes(r) \/ PlannerTimesOut(r) \/ PlannerFails(r)
       PROVE  StoreStep(q) /\ SeenStep(q)
  <2>1. request[r].pc = "plan"
    BY <1>10 DEF PlannerFinishes, PlannerTimesOut, PlannerFails, At
  <2>2. CASE Finalizes(r)
    BY <1>4, <2>1, <2>2
  <2>3. CASE /\ request' = [request EXCEPT ![r].pc = "raised", ![r].det = TRUE]
             /\ UNCHANGED <<order, runs>>
    <3>1. SeenStep(q)
      BY <1>1, <2>1, <2>3 DEF Local, SeenStep, At
    <3> QED BY <1>5, <2>3, <3>1
  <2> QED BY <1>10, <2>2, <2>3 DEF PlannerFinishes, PlannerTimesOut, PlannerFails
<1>11. ASSUME Deadline(r) PROVE StoreStep(q) /\ SeenStep(q)
  <2>1. SeenStep(q)
    BY <1>1, <1>11 DEF Deadline, Local, SeenStep, At
  <2> QED BY <1>5, <1>11, <2>1 DEF Deadline
<1> QED BY <1>2, <1>3, <1>6, <1>7, <1>8, <1>9, <1>10, <1>11 DEF Investigation

LEMMA HistoryStays ==
    ASSUME Inv, NEW q \in Requests, HistoryInv(q), [Next]_vars
    PROVE  HistoryInv(q)'
<1>1. CASE Executor
  <2>1. StoreStep(q) /\ SeenStep(q)
    BY <1>1, ExecutorStore DEF SeenStep, At
  <2> QED BY <2>1, HistoryKept
<1>2. ASSUME NEW r \in Requests, Investigation(r) PROVE HistoryInv(q)'
  <2>1. CASE q = r => ~Begin(r) /\ \A outcome \in Outcomes : ~ToolEnds(r, outcome)
    BY <1>2, <2>1, InvestigationStore, HistoryKept
  <2>2. CASE Begin(q)
    BY <2>2, HistoryBegun
  <2>3. ASSUME NEW outcome \in Outcomes, ToolEnds(q, outcome) PROVE HistoryInv(q)'
    BY <2>3, HistoryEnded
  <2> QED BY <2>1, <2>2, <2>3
<1>3. CASE UNCHANGED vars
  <2>1. StoreStep(q) /\ SeenStep(q)
    BY <1>3 DEF vars, StoreStep, SeenStep, At
  <2> QED BY <2>1, HistoryKept
<1> QED BY <1>1, <1>2, <1>3 DEF Next

(* The inductive invariant of the harness.                                 *)
THEOREM InvHolds == Spec => []Inv
<1>1. Init => Inv
  BY InitInv
<1>2. Inv /\ [Next]_vars => Inv'
  BY StepInv
<1> QED BY <1>1, <1>2, PTL DEF Spec

(* Every variable has its type at every state; in particular the store     *)
(* never holds more than its maximum of runs (save of InMemoryRunStore),   *)
(* and an answer is the observer's FINISH (bridge.py).                     *)
THEOREM TypeCorrect == Spec => []TypeOK
<1>1. Inv => TypeOK
  <2> SUFFICES ASSUME Inv PROVE TypeOK
    OBVIOUS
  <2>1. /\ order \in Seq(({"api", "other"} \cup Requests) \X Nat)
        /\ Len(order) <= MaxRuns
        /\ DOMAIN runs = {order[i] : i \in DOMAIN order}
    BY DEF Inv, TypeInv, RunId
  <2>2. ASSUME NEW id \in DOMAIN runs
        PROVE  /\ runs[id].status \in RunStatus
               /\ runs[id].error \in Error
               /\ runs[id].replans \in Plan
               /\ \A i \in DOMAIN runs[id].steps : runs[id].steps[i] \in Step
    <3>1. runs[id] \in Run
      BY TypeFacts DEF Inv
    <3> QED BY <3>1, RunFields DEF Plan
  <2>3. \A t \in Tasks : task[t].step \in 0 .. MaxSteps /\ task[t].plan \in Plan
    BY DEF Inv, TypeInv, Awaiting
  <2>4. ASSUME NEW q \in Requests
        PROVE  /\ request[q].pc \in {"idle", "turn", "plan", "tool", "done", "raised"}
               /\ request[q].verdict \in {"", "FINISH"}
               /\ Len(request[q].seen) <= request[q].turn
               /\ \A i \in DOMAIN request[q].seen : request[q].seen[i] \in What
    <3>1. request[q] \in Local /\ request[q].seen \in Seq(What) /\ RequestInv(q)
      BY LocalFields
    <3>2. Len(request[q].seen) <= request[q].turn
      BY <3>1 DEF RequestInv, SeenInv
    <3>3. \A i \in DOMAIN request[q].seen : request[q].seen[i] \in What
      BY <3>1
    <3>4. /\ request[q].pc \in {"idle", "turn", "plan", "tool", "done", "raised"}
          /\ request[q].verdict \in {"", "FINISH"}
      BY <3>1 DEF Local
    <3> QED BY <3>2, <3>3, <3>4
  <2>5. created \in BOOLEAN /\ others \in 0 .. MaxOthers /\ crossed \in BOOLEAN
    BY DEF Inv, TypeInv
  <2> QED BY <2>1, <2>2, <2>3, <2>4, <2>5 DEF TypeOK
<1> QED BY <1>1, InvHolds, PTL

(* A run that is finished, failed or cancelled stays so, and no step of it *)
(* is begun any more, whatever the tasks and the investigations do         *)
(* (executor.py, bridge.py).                                               *)
THEOREM TerminalRunsStay == Spec => TerminalIsFinal
<1>1. Inv /\ [Next]_vars =>
        [\A id \in DOMAIN runs \cap DOMAIN runs' :
            IsOver(runs[id]) =>
                /\ runs'[id].status = runs[id].status
                /\ runs'[id].error = runs[id].error
                /\ Len(runs'[id].steps) = Len(runs[id].steps)
                /\ \A i \in DOMAIN runs[id].steps :
                        runs'[id].steps[i].ran = runs[id].steps[i].ran]_vars
  BY StepInv DEF Final, Frozen
<1> QED BY <1>1, InvHolds, PTL DEF Spec, TerminalIsFinal

(* As long as tasks do not cross, every step of the callers' run is called *)
(* at most once, in order, and not before it is confirmed, and it is       *)
(* recorded with the result of its own tool.                               *)
THEOREM StepsExecutedOnce == Spec => []ExecutedOnce
<1>1. Inv => ExecutedOnce
  <2> SUFFICES ASSUME Inv, Stored(ApiRun), ~crossed,
                      NEW i \in DOMAIN runs[ApiRun].steps
               PROVE  LET run == runs[ApiRun]
                          step == run.steps[i]
                      IN  /\ step.ran <= 1
                          /\ step.confirm => step.ran = 0
                          /\ step.status = "finished" => step.ran = 1 /\ step.result = step.plan
                          /\ step.status = "failed" => step.ran = 1
                          /\ i > run.index + 1 => step.ran = 0
                          /\ i <= run.index => step.status \in Settled
    BY DEF ExecutedOnce
  <2>1. Orderly(runs[ApiRun])
    BY DEF Inv, ApiInv, Steady
  <2>2. StepOrderly(runs[ApiRun], i)
    BY <2>1 DEF Orderly
  <2> QED BY <2>2 DEF StepOrderly
<1> QED BY <1>1, InvHolds, PTL

(* What the executor makes of a run that no task works on, next to what    *)
(* the observer says of it.                                                *)
LEMMA VerdictIs ==
    ASSUME NEW run \in Run, Steady(run, Idle), ~IsOver(run)
    PROVE  LET next == Resumed(run, Default)
           IN  /\ Verdict(run) = "CONTINUE" => next.status = "running"
               /\ Verdict(run) = "WAIT" => next.status = "waiting"
               /\ Verdict(run) = "FINISH" => next.status = "finished"
               /\ Verdict(run) = "FAIL" => next.status = "failed"
<1> DEFINE next == Resumed(run, Default)
           begun == [run EXCEPT !.status = "running"]
           i == run.index + 1
<1>1. /\ Orderly(run) /\ Quiet(run) /\ ~run.cancel /\ run.calls < MaxToolCalls /\ ~run.spent
      /\ run.status \notin {"cancelled", "finished", "failed"}
      /\ run.index \in Nat /\ Len(run.steps) \in Nat /\ run.calls \in Nat
      /\ run.index <= Len(run.steps) /\ Len(run.steps) <= MaxSteps
      /\ DOMAIN run.steps = 1 .. Len(run.steps)
  BY RunFields DEF Steady, Healthy, Orderly, IsOver, Terminal
<1>2. CASE run.status = "waiting"
  BY <1>1, <1>2 DEF Verdict, Resumed
<1>3. CASE run.status # "waiting"
  <2>1. /\ begun \in Run /\ begun.status = "running" /\ begun.steps = run.steps
        /\ begun.index = run.index /\ begun.calls = run.calls /\ begun.spent = run.spent
    BY DEF Run, RunStatus
  <2>2. next = Settle(begun, Default)
    BY <1>1, <1>3 DEF Resumed, Started
  <2> HIDE DEF begun, next
  <2>3. Orderly(begun) /\ Quiet(begun) /\ ~IsOver(begun)
    <3>1. ASSUME NEW j \in DOMAIN run.steps PROVE StepOrderly(begun, j)
      BY <1>1, <2>1 DEF Orderly, StepOrderly
    <3> QED BY <1>1, <2>1, <3>1 DEF Orderly, Quiet, IsOver, Terminal
  <2>4. \/ Verdict(run) = "REPLAN"
        \/ /\ AtEnd(run)
           /\ Verdict(run) = IF run.steps = <<>> \/ HasStep(run, "finished")
                             THEN "FINISH" ELSE "FAIL"
        \/ /\ ~AtEnd(run)
           /\ Verdict(run) = IF AsksFirst(run.steps[i]) THEN "WAIT" ELSE "CONTINUE"
    <3>1. ~(run.calls >= MaxToolCalls \/ run.spent)
      BY <1>1, RunAssumption
    <3> QED BY <1>1, <1>3, <3>1 DEF Verdict
  <2>5. CASE run.index = Len(run.steps)
    <3>1. AtEnd(run)
      BY <1>1, <2>5 DEF AtEnd
    <3>2. next = Finished(begun)
      BY <1>1, <2>1, <2>2, <2>3, <2>5, SettleQuiet
    <3>3. next.status = IF run.steps = <<>> \/ HasStep(run, "finished")
                        THEN "finished" ELSE "failed"
      BY <2>1, <3>2, FinishedIs DEF HasStep
    <3> QED BY <2>4, <3>1, <3>3 DEF next
  <2>6. CASE run.index < Len(run.steps)
    <3>1. ~AtEnd(run) /\ i \in 1 .. Len(run.steps)
      BY <1>1, <2>6, RunAssumption DEF AtEnd
    <3>2. Exceeded(begun, Default) = "none"
      <4>1. Default.steps = MaxSteps /\ Default.calls = MaxToolCalls
        BY DEF Default
      <4>2. /\ ~(begun.index >= Default.steps) /\ ~(Len(begun.steps) > Default.steps)
            /\ ~(begun.calls >= Default.calls) /\ ~begun.spent
        BY <1>1, <2>1, <2>6, <4>1, RunAssumption
      <4> QED BY <4>2, Zenon DEF Exceeded
    <3>3. AsksFirst(run.steps[i]) <=> run.steps[i].confirm
      <4>1. StepOrderly(run, i) /\ run.steps[i].confirm \in BOOLEAN
        BY <1>1, <3>1, RunFields, StepFields DEF Orderly
      <4> QED BY <4>1 DEF StepOrderly, AsksFirst
    <3>4. begun.index < Len(begun.steps) /\ begun.index # Len(begun.steps)
          /\ begun.steps[begun.index + 1] = run.steps[i]
      BY <1>1, <2>1, <2>6
    <3>5. CASE run.steps[i].confirm
      <4>1. next = Paused(begun)
        BY <2>1, <2>2, <2>3, <3>2, <3>4, <3>5, SettleQuiet
      <4>2. next.status = "waiting"
        BY <2>1, <3>4, <4>1, PausedIs
      <4> QED BY <2>4, <3>1, <3>3, <3>5, <4>2 DEF next
    <3>6. CASE ~run.steps[i].confirm
      <4>1. next = Called(begun)
        BY <2>1, <2>2, <2>3, <3>2, <3>4, <3>6, SettleQuiet
      <4>2. next.status = "running"
        BY <2>1, <3>4, <4>1, CalledIs
      <4> QED BY <2>4, <3>1, <3>3, <3>6, <4>2 DEF next
    <3> QED BY <3>5, <3>6
  <2> QED BY <1>1, <2>5, <2>6
<1> QED BY <1>2, <1>3

(* The observer is right about every run that no task works on, as long as *)
(* tasks did not cross: what it says is what the executor does next.       *)
THEOREM ObserverIsRight == Spec => []ObserverAgrees
<1>1. Inv => ObserverAgrees
  <2> SUFFICES ASSUME Inv, Stored(ApiRun), ~Over(ApiRun), ~crossed,
                      \A t \in Tasks : task[t] = Idle
               PROVE  LET verdict == Verdict(runs[ApiRun])
                          next == Resumed(runs[ApiRun], Default)
                      IN  /\ verdict = "CONTINUE" => next.status = "running"
                          /\ verdict = "WAIT" => next.status = "waiting"
                          /\ verdict = "FINISH" => next.status = "finished"
                          /\ verdict = "FAIL" => next.status = "failed"
    BY DEF ObserverAgrees
  <2>1. runs[ApiRun] \in Run /\ Steady(runs[ApiRun], Idle) /\ ~IsOver(runs[ApiRun])
    BY ApiFacts DEF Inv, ApiInv, Over
  <2> QED BY <2>1, VerdictIs
<1> QED BY <1>1, InvHolds, PTL

(* As long as the run of an investigation is in the store, it tells all    *)
(* that the investigation did, turn by turn, and the run of each turn it   *)
(* tells of is there too; it is missing only from a store that is full     *)
(* (_exec_tool and _sync_request_run of bridge.py, _evict_locked of        *)
(* state.py).                                                              *)
THEOREM HistoryComplete == Spec => []HistoryIsComplete
<1> DEFINE HInv == \A q \in Requests : HistoryInv(q)
<1>1. Init => HInv
  <2> SUFFICES ASSUME Init, NEW q \in Requests PROVE HistoryInv(q)
    OBVIOUS
  <2>1. DOMAIN order = {}
    <3>1. order = <<>>
      BY DEF Init
    <3>2. DOMAIN <<>> = {}
      OBVIOUS
    <3> QED BY <3>1, <3>2
  <2>2. At(q, "idle")
    <3> DEFINE First == {[pc |-> "idle", det |-> det, turn |-> 0, calls |-> 0, late |-> FALSE,
                          seen |-> <<>>, verdict |-> ""] : det \in BOOLEAN}
    <3>1. request \in [Requests -> First]
      BY DEF Init
    <3>2. ASSUME NEW local \in First PROVE local.pc = "idle"
      <4>1. PICK det \in BOOLEAN :
                local = [pc |-> "idle", det |-> det, turn |-> 0, calls |-> 0, late |-> FALSE,
                         seen |-> <<>>, verdict |-> ""]
        OBVIOUS
      <4> QED BY <4>1
    <3> HIDE DEF First
    <3> QED BY <3>1, <3>2 DEF At
  <2> QED BY <2>1, <2>2 DEF HistoryInv, OlderInv, FullInv, Recalls
<1>2. Inv /\ HInv /\ [Next]_vars => HInv'
  BY HistoryStays
<1>3. Inv /\ HInv => HistoryIsComplete
  <2> SUFFICES ASSUME Inv, NEW q \in Requests, HistoryInv(q)
               PROVE  LET run == runs[RequestRun(q)]
                      IN  IF At(q, "idle") THEN ~Stored(RequestRun(q))
                          ELSE IF ~Stored(RequestRun(q)) THEN Len(order) = MaxRuns
                          ELSE /\ IsHistory(run.steps, request[q].seen)
                               /\ run.calls = Len(run.steps)
                               /\ \A i \in DOMAIN run.steps :
                                    /\ Stored(<<q, run.steps[i].id>>)
                                    /\ runs[<<q, run.steps[i].id>>].steps = <<run.steps[i]>>
                               /\ At(q, "done") <=> run.status = "finished"
    BY DEF HistoryIsComplete
  <2>1. CASE At(q, "idle")
    BY <2>1 DEF Inv, RequestInv, RunsInv, RequestRun
  <2>2. CASE ~At(q, "idle") /\ ~Stored(RequestRun(q))
    BY <2>2 DEF HistoryInv, FullInv
  <2>3. CASE ~At(q, "idle") /\ Stored(RequestRun(q))
    <3>1. Tells(q, runs[RequestRun(q)])
      BY <2>3 DEF Inv, RequestInv
    <3>2. Recalls(q)
      BY DEF HistoryInv
    <3> QED BY <2>3, <3>1, <3>2 DEF Tells, Recalls, Backed, Stored
  <2> QED BY <2>1, <2>2, <2>3
<1> HIDE DEF HInv
<1>4. Spec => []HInv
  BY <1>1, <1>2, InvHolds, PTL DEF Spec
<1> QED BY <1>3, <1>4, InvHolds, PTL

===============================================================================
