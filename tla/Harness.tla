-------------------------------- MODULE Harness --------------------------------
(***************************************************************************)
(* The harness at work: the store of runs (InMemoryRunStore of             *)
(* harness/state.py), the executor's entry points called from several      *)
(* tasks on one run, and investigations (harness/bridge.py) that keep a    *)
(* run of their own and one more for each turn in the same store.          *)
(*                                                                         *)
(* All tasks are of one event loop: what lies between two awaits is one    *)
(* step.  A task awaits the planner or a tool, and while it does the       *)
(* others may do anything to its run, and new runs may push it out of the  *)
(* store.                                                                  *)
(*                                                                         *)
(* A turn of an investigation that awaits nothing is a step of its own; it *)
(* touches nothing another task can see.                                   *)
(***************************************************************************)
EXTENDS HarnessRun

CONSTANTS
    MaxRuns,        \* runs in the store, 200
    MaxOthers,      \* bound: runs of other investigations
    Plans,          \* plans by the confirmations they ask for
    Tasks,          \* tasks that work on the run of the executor's callers
    Requests,       \* investigations
    MaxTurns,       \* turns of an investigation, at most MAX_STEPS
    Chain           \* the deterministic plan: "tool" and "code", in order

ASSUME HarnessAssumption ==
    /\ MaxRuns \in Nat \ {0}
    /\ Plans \subseteq Seq(BOOLEAN)
    /\ MaxOthers \in Nat
    /\ Requests \cap {"api", "other"} = {}
    /\ MaxTurns \in 1 .. MaxSteps
    /\ Chain \in Seq({"tool", "code"})
    /\ Len(Chain) <= MaxSteps

VARIABLES
    order,          \* identifiers of the stored runs, oldest first
    runs,           \* identifier -> run, for the stored runs
    task,           \* task -> the step whose tool it awaits
    request,        \* investigation -> where it is, and its local variables
    \* observation only
    created,        \* the callers' run has been created
    others,         \* runs of investigations other than those of Requests
    crossed         \* it was started or replanned while a tool was awaited

vars == <<order, runs, task, request, created, others, crossed>>

Idle == [step |-> 0, plan |-> 0]

ApiRun == <<"api", 0>>
RequestRun(q) == <<q, 0>>
StepRun(q) == <<q, request[q].turn>>

Stored(id) == id \in DOMAIN runs
Over(id) == Stored(id) /\ IsOver(runs[id])

FaultyCreateKeepsOldest(id, run) ==
    LET kept == IF Len(order) = MaxRuns THEN Append(SubSeq(order, 1, MaxRuns - 1), id)
                ELSE Append(order, id)
    IN  /\ order' = kept
        /\ runs' = [k \in {kept[i] : i \in DOMAIN kept} |-> IF k = id THEN run ELSE runs[k]]

FaultyCreate(id, run) ==
    /\ order' = Append(order, id)
    /\ runs' = [k \in DOMAIN runs \cup {id} |-> IF k = id THEN run ELSE runs[k]]

Create(id, run) ==
    LET all == Append(order, id)
        kept == IF Len(all) > MaxRuns THEN Tail(all) ELSE all
    IN  /\ order' = kept
        /\ runs' = [k \in {kept[i] : i \in DOMAIN kept} |-> IF k = id THEN run ELSE runs[k]]

Save(id, run) ==
    /\ runs' = [runs EXCEPT ![id] = run]
    /\ UNCHANGED order

Init ==
    /\ order = <<>>
    /\ runs = <<>>
    /\ task = [t \in Tasks |-> Idle]
    /\ request \in [Requests -> {[pc |-> "idle", det |-> det, turn |-> 0, calls |-> 0,
                                  late |-> FALSE, seen |-> <<>>, verdict |-> ""] : det \in BOOLEAN}]
    /\ created = FALSE
    /\ others = 0
    /\ crossed = FALSE

-----------------------------------------------------------------------------
(* The executor                                                             *)

\* An empty list would stand for the default plan, one more of Plans.
CreateRun(confirms) ==
    /\ ~created
    /\ confirms # <<>>
    /\ Len(confirms) <= MaxSteps
    /\ Create(ApiRun, NewRun(confirms))
    /\ created' = TRUE
    /\ UNCHANGED <<task, request, others, crossed>>

\* Another investigation puts a run of its own into the store.
OtherRun ==
    /\ others < MaxOthers
    /\ others' = others + 1
    /\ Create(<<"other", others'>>, NewRun(<<>>))
    /\ UNCHANGED <<task, request, created, crossed>>

AwaitedBy(run) ==
    IF run.status = "running"
    THEN [step |-> run.steps[run.index + 1].id, plan |-> run.steps[run.index + 1].plan]
    ELSE Idle

\* Task t has saved the run and returns, or awaits the tool of its next step.
Continues(t, run) ==
    /\ Save(ApiRun, run)
    /\ task' = [task EXCEPT ![t] = AwaitedBy(run)]
    /\ UNCHANGED <<request, created, others>>

OthersWait(t) == \E u \in Tasks \ {t} : task[u] # Idle

ARun(t) ==
    /\ task[t] = Idle
    /\ Stored(ApiRun) /\ ~Over(ApiRun)
    /\ Continues(t, Started(runs[ApiRun], Default))
    /\ crossed' = (crossed \/ OthersWait(t))

AResume(t) ==
    /\ task[t] = Idle
    /\ Stored(ApiRun) /\ ~Over(ApiRun)
    /\ Continues(t, Resumed(runs[ApiRun], Default))
    /\ crossed' = (crossed \/ OthersWait(t))

AResumeWithAnswer(t, id, ok) ==
    /\ task[t] = Idle
    /\ Stored(ApiRun)
    /\ Places(runs[ApiRun], id) # {}
    /\ Continues(t, AnsweredAndResumed(runs[ApiRun], id, ok, Default))
    /\ crossed' = (crossed \/ OthersWait(t))

\* The tool has returned, or failed, or step_timeout_s has passed.  The run is
\* loaded again, and the step looked up by its identifier; if either is gone,
\* arun raises.
FaultyToolReturns(t, ok, slow) ==
    /\ task[t] # Idle
    /\ IF Stored(ApiRun) /\ Places(runs[ApiRun], task[t].step) # {}
       THEN Continues(t, Settle(
                [Recorded(runs[ApiRun], task[t].step, task[t].plan, ok, slow)
                    EXCEPT !.status = "running", !.cancel = FALSE], Default))
       ELSE /\ task' = [task EXCEPT ![t] = Idle]
            /\ UNCHANGED <<order, runs, request, created, others>>
    /\ UNCHANGED crossed

ToolReturns(t, ok, slow) ==
    /\ task[t] # Idle
    /\ IF Stored(ApiRun) /\ Places(runs[ApiRun], task[t].step) # {}
       THEN Continues(t, Settle(
                Recorded(runs[ApiRun], task[t].step, task[t].plan, ok, slow), Default))
       ELSE /\ task' = [task EXCEPT ![t] = Idle]
            /\ UNCHANGED <<order, runs, request, created, others>>
    /\ UNCHANGED crossed

Cancel ==
    /\ Stored(ApiRun) /\ ~Over(ApiRun)
    /\ Save(ApiRun, Cancelled(runs[ApiRun]))
    /\ UNCHANGED <<task, request, created, others, crossed>>

ApproveConfirmation(id, ok) ==
    /\ Stored(ApiRun)
    /\ Awaited(runs[ApiRun], id)
    /\ Save(ApiRun, Answered(runs[ApiRun], id, ok))
    /\ UNCHANGED <<task, request, created, others, crossed>>

RequestReplan(confirms) ==
    /\ Stored(ApiRun)
    /\ CanReplan(runs[ApiRun], confirms)
    /\ Save(ApiRun, Replanned(runs[ApiRun], confirms))
    /\ crossed' = (crossed \/ \E t \in Tasks : task[t] # Idle)
    /\ UNCHANGED <<task, request, created, others>>

-----------------------------------------------------------------------------
(* Investigations                                                           *)

At(q, pc) == request[q].pc = pc

\* The turn ends with something the planner will see, and the next begins.
Sees(q, what) ==
    request' = [request EXCEPT ![q].pc = "turn", ![q].seen = Append(@, what)]

\* The run of the request as _sync_request_run leaves it.
Synced(q, status) == [runs[RequestRun(q)] EXCEPT !.status = status, !.calls = request[q].calls]

\* _finalize, and the answer made of what has been seen.  Why it ended is not kept.
Finalizes(q) ==
    LET run == Synced(q, "finished")
    IN  /\ IF Stored(RequestRun(q)) THEN Save(RequestRun(q), run) ELSE UNCHANGED <<order, runs>>
        /\ request' = [request EXCEPT
                ![q].pc = "done",
                ![q].verdict = IF Stored(RequestRun(q)) THEN Verdict(run) ELSE ""]

Begin(q) ==
    /\ At(q, "idle")
    /\ Create(RequestRun(q), [NewRun(<<>>) EXCEPT !.status = "running"])
    /\ request' = [request EXCEPT ![q].pc = "turn"]
    /\ UNCHANGED <<task, created, others, crossed>>

\* The next turn of a request that has a planner: its call is awaited.
AskPlanner(q) ==
    /\ At(q, "turn") /\ ~request[q].det
    /\ IF request[q].turn >= MaxTurns \/ request[q].late
       THEN Finalizes(q)
       ELSE /\ request' = [request EXCEPT ![q].pc = "plan", ![q].turn = @ + 1]
            /\ UNCHANGED <<order, runs>>
    /\ UNCHANGED <<task, created, others, crossed>>

\* The run of one turn: its step is named by the turn.
TurnRun(turn) == [NewRun(<<>>) EXCEPT !.steps = NewSteps(0, turn - 1, <<FALSE>>)]

\* _exec_tool: one more run, of one step, in the store.  The tool is awaited.
CallTool(q, turn) ==
    IF request[q].calls >= MaxToolCalls \/ request[q].late
    THEN /\ request' = [request EXCEPT ![q].turn = turn, ![q].pc = "turn",
                                       ![q].seen = Append(@, "denied")]
         /\ UNCHANGED <<order, runs>>
    ELSE /\ Create(<<q, turn>>, Started(TurnRun(turn), OneStep))
         /\ request' = [request EXCEPT ![q].turn = turn, ![q].pc = "tool"]

\* The next turn of a request without one: the next step of the chain.
NextOfChain(q) ==
    LET turn == request[q].turn + 1
    IN  /\ At(q, "turn") /\ request[q].det
        /\ \/ /\ turn = Len(Chain) + 1
              /\ Finalizes(q)
           \/ /\ turn <= Len(Chain) /\ Chain[turn] = "tool"
              /\ CallTool(q, turn)
           \/ /\ turn <= Len(Chain)
              /\ request' = [request EXCEPT ![q].turn = turn,
                    ![q].seen = Append(@, IF Chain[turn] = "code" THEN "code" ELSE "denied")]
              /\ UNCHANGED <<order, runs>>
        /\ UNCHANGED <<task, created, others, crossed>>

PlannerCallsTool(q) ==
    /\ At(q, "plan")
    /\ CallTool(q, request[q].turn)
    /\ UNCHANGED <<task, created, others, crossed>>

\* A step that runs code, one that validate_raw_step rejects, or a tool that
\* authorize_harness_step does not allow.
PlannerCallsNoTool(q) ==
    /\ At(q, "plan")
    /\ \E what \in {"code", "denied"} : Sees(q, what)
    /\ UNCHANGED <<order, runs, task, created, others, crossed>>

PlannerFinishes(q) ==
    /\ At(q, "plan")
    /\ Finalizes(q)
    /\ UNCHANGED <<task, created, others, crossed>>

PlannerTimesOut(q) ==
    /\ At(q, "plan") /\ request[q].late
    /\ Finalizes(q)
    /\ UNCHANGED <<task, created, others, crossed>>

\* With nothing seen yet the loop turns to the deterministic chain, but the
\* queue of the chain is filled only for a request that began without a
\* planner: it is read unassigned, and the error leaves the investigation.
PlannerFails(q) ==
    /\ At(q, "plan")
    /\ IF request[q].seen # <<>>
       THEN Finalizes(q)
       ELSE /\ request' = [request EXCEPT ![q].pc = "raised", ![q].det = TRUE]
            /\ UNCHANGED <<order, runs>>
    /\ UNCHANGED <<task, created, others, crossed>>

\* The step of the request's own run, once the tool of the turn has ended.
Appended(q, step) ==
    [runs[RequestRun(q)] EXCEPT !.steps = Append(@, step),
                                !.index = Len(runs[RequestRun(q)].steps) + 1,
                                !.calls = request[q].calls + 1]

\* What the planner sees of a tool that was called: its result, its error, or
\* only that it is not allowed, if the error says so: the rights are looked up
\* again just before the call.  The step has failed in both cases.
Outcomes == {"result", "error", "refused"}

\* If the run of the turn was pushed out of the store, arun raises, and the
\* investigation with it.
ToolEnds(q, outcome) ==
    LET final == Settle(Recorded(runs[StepRun(q)], request[q].turn, 0,
                                 outcome = "result", FALSE), OneStep)
    IN  /\ At(q, "tool")
        /\ IF Stored(StepRun(q))
           THEN /\ runs' = [id \in DOMAIN runs |->
                                IF id = StepRun(q) THEN final
                                ELSE IF id = RequestRun(q) THEN Appended(q, final.steps[1])
                                ELSE runs[id]]
                /\ request' = [request EXCEPT ![q].pc = "turn", ![q].calls = @ + 1,
                                              ![q].seen = Append(@, outcome)]
           ELSE /\ request' = [request EXCEPT ![q].pc = "raised"]
                /\ UNCHANGED runs
        /\ UNCHANGED <<order, task, created, others, crossed>>

\* MAX_TOTAL_RUNTIME_S have passed since the request began.
Deadline(q) ==
    /\ ~At(q, "done") /\ ~At(q, "raised") /\ ~At(q, "idle") /\ ~request[q].late
    /\ request' = [request EXCEPT ![q].late = TRUE]
    /\ UNCHANGED <<order, runs, task, created, others, crossed>>

-----------------------------------------------------------------------------
Executor ==
    \/ \E confirms \in Plans : CreateRun(confirms) \/ RequestReplan(confirms)
    \/ \E t \in Tasks :
        \/ ARun(t)
        \/ AResume(t)
        \/ \E id \in 1 .. MaxSteps, ok \in BOOLEAN : AResumeWithAnswer(t, id, ok)
        \/ \E ok, slow \in BOOLEAN : ToolReturns(t, ok, slow)
    \/ OtherRun
    \/ Cancel
    \/ \E id \in 1 .. MaxSteps, ok \in BOOLEAN : ApproveConfirmation(id, ok)

Investigation(q) ==
    \/ Begin(q)
    \/ AskPlanner(q)
    \/ NextOfChain(q)
    \/ PlannerCallsTool(q)
    \/ PlannerCallsNoTool(q)
    \/ PlannerFinishes(q)
    \/ PlannerTimesOut(q)
    \/ PlannerFails(q)
    \/ \E outcome \in Outcomes : ToolEnds(q, outcome)
    \/ Deadline(q)

Next == Executor \/ \E q \in Requests : Investigation(q)

Spec == Init /\ [][Next]_vars

-----------------------------------------------------------------------------
(* Properties                                                               *)

What == Outcomes \cup {"denied", "code"}

TypeOK ==
    /\ order \in Seq(({"api", "other"} \cup Requests) \X Nat)
    /\ Len(order) <= MaxRuns
    /\ DOMAIN runs = {order[i] : i \in DOMAIN order}
    /\ \A id \in DOMAIN runs :
        /\ runs[id].status \in RunStatus
        /\ runs[id].error \in Error
        /\ runs[id].replans \in Plan
        /\ \A i \in DOMAIN runs[id].steps : runs[id].steps[i] \in Step
    /\ \A t \in Tasks : task[t].step \in 0 .. MaxSteps /\ task[t].plan \in Plan
    /\ \A q \in Requests :
        /\ request[q].pc \in {"idle", "turn", "plan", "tool", "done", "raised"}
        /\ request[q].verdict \in {"", "FINISH"}
        /\ Len(request[q].seen) <= request[q].turn
        /\ \A i \in DOMAIN request[q].seen : request[q].seen[i] \in What
    /\ created \in BOOLEAN
    /\ others \in 0 .. MaxOthers
    /\ crossed \in BOOLEAN

\* A run that is finished, failed or cancelled stays so, with the error it
\* ended with, and no step of it is begun any more, although the tool of one
\* of its steps may still be awaited when the run is cancelled (cancel and
\* _exec_async of the executor, which loads the run again after the await).
TerminalIsFinal ==
    [][\A id \in DOMAIN runs \cap DOMAIN runs' :
            IsOver(runs[id]) =>
                /\ runs'[id].status = runs[id].status
                /\ runs'[id].error = runs[id].error
                /\ Len(runs'[id].steps) = Len(runs[id].steps)
                /\ \A i \in DOMAIN runs[id].steps :
                        runs'[id].steps[i].ran = runs[id].steps[i].ran]_vars

\* Unless a run is started, resumed or replanned while a tool of it is
\* awaited, each of its steps is called at most once and in the order of the
\* plan, none before it is confirmed if it has to be, and a step is recorded
\* with the result of its own tool (arun, _exec_async, approve_confirmation,
\* request_replan).
ExecutedOnce ==
    Stored(ApiRun) /\ ~crossed =>
        LET run == runs[ApiRun]
        IN  \A i \in DOMAIN run.steps :
            LET step == run.steps[i]
            IN  /\ step.ran <= 1
                /\ step.confirm => step.ran = 0
                /\ step.status = "finished" => step.ran = 1 /\ step.result = step.plan
                /\ step.status = "failed" => step.ran = 1
                /\ i > run.index + 1 => step.ran = 0
                /\ i <= run.index => step.status \in Settled

\* What the observer says of a run that no task works on is what the executor
\* does with it when it is resumed: it goes on, waits for a confirmation,
\* finishes or fails (Observer.observe against aresume).
ObserverAgrees ==
    Stored(ApiRun) /\ ~Over(ApiRun) /\ ~crossed /\ (\A t \in Tasks : task[t] = Idle) =>
        LET verdict == Verdict(runs[ApiRun])
            next == Resumed(runs[ApiRun], Default)
        IN  /\ verdict = "CONTINUE" => next.status = "running"
            /\ verdict = "WAIT" => next.status = "waiting"
            /\ verdict = "FINISH" => next.status = "finished"
            /\ verdict = "FAIL" => next.status = "failed"

\* Steps are the history of what a request has seen so far, turn by turn: a step
\* for each turn that called a tool, in the order of the turns, finished exactly
\* if the planner has seen its result.
IsHistory(steps, seen) ==
    /\ \A i \in DOMAIN steps :
        /\ steps[i].id \in DOMAIN seen
        /\ seen[steps[i].id] \in Outcomes
        /\ steps[i].status = IF seen[steps[i].id] = "result" THEN "finished" ELSE "failed"
    /\ \A i, j \in DOMAIN steps : i < j => steps[i].id < steps[j].id
    /\ \A turn \in DOMAIN seen :
        seen[turn] \in Outcomes => \E i \in DOMAIN steps : steps[i].id = turn

\* The run of a request tells all that the request did, as the answer does, and
\* each step of it is the step of a run of that turn, which is newer and so still
\* stored.  Only a full store loses the run of a request, and then as a whole
\* (_exec_tool, _sync_request_run, _evict_locked).
HistoryIsComplete ==
    \A q \in Requests :
        LET run == runs[RequestRun(q)]
        IN  IF At(q, "idle") THEN ~Stored(RequestRun(q))
            ELSE IF ~Stored(RequestRun(q)) THEN Len(order) = MaxRuns
            ELSE /\ IsHistory(run.steps, request[q].seen)
                 /\ run.calls = Len(run.steps)
                 /\ \A i \in DOMAIN run.steps :
                        /\ Stored(<<q, run.steps[i].id>>)
                        /\ runs[<<q, run.steps[i].id>>].steps = <<run.steps[i]>>
                 /\ At(q, "done") <=> run.status = "finished"

\* An investigation that ends has an answer: HARNESS_ARCHITECTURE.md has every
\* way out of the loop answer, and bridge.py:29-30 has a planner that fails at
\* the first step give way to the deterministic pass.
AlwaysAnswers == \A q \in Requests : ~At(q, "raised")
=============================================================================
