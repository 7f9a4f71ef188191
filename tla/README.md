# Verification of noyabot

noyabot is a Telegram bot for the administration of groups: a Django project
whose processes share one database and talk to Telegram. This directory holds
TLA+ models of the parts of it where several actors change shared state,
TLC configurations that check them on small instances, and proofs, checked by
TLAPS, that the main properties hold for all values of the constants.

Paths of the source are relative to the root of the repository.

## 1. The system

| Component | State it keeps | Operations | Meets |
|---|---|---|---|
| Moderation queue (`botapp/moderation.py`, `telegram_moderation.py`, `management/commands/run_moderation_worker.py`) | table `ModerationAction`, `ModerationLog` | queue, carry out at once, sweep, claim, execute, complete, fail, cancel, release | gateway, staff API, schedules |
| Staff REST API (`botapp/api.py`) | none | create and cancel actions | queue |
| Daily schedules (`moderation.py`, `runbot.py`, `agent_tools/group.py`) | table `GroupSchedule` | set, remove, enqueue what is due | queue |
| Telegram gateway (`botapp/telegram_gateway.py`) | `open_permissions_snapshot` of the group | lock, unlock, mute, ban and their reversals | queue |
| Bot start gate (`botapp/bot_start_gate.py`) | tables `TelegramUser`, `GroupUserGateState`, `BotStartGateEvent` | enforce on a message, mark started, clean up notices | dispatcher |
| Agent confirmations (`botapp/agent/confirmations.py`, `orchestrator.py`, `callbacks.py`, `agent_handlers.py`) | table `AgentConfirmation` | create, claim, cancel, execute, recover | agent tools |
| Agent orchestrator and parser (`botapp/agent/`) | caches | text to tool, tool loop | confirmations, queue |
| Agent harness (`botapp/harness/`) | store of runs in memory | create, run, resume, cancel, replan, evict | tools, models |
| Forced membership (`botapp/forced_membership*.py`) | rules, invite links, events, state of a member per rule | observe joins, warn, delete, change the rule | dispatcher |
| Warnings, quotas, flood control (`botapp/services.py`) | counters, `GroupQuota` | count, reset, escalate to a mute or ban | queue, turns |
| Message edits (`botapp/noya_edits.py`) | sessions and answered messages in memory | collect the edits of a message, answer once | dispatcher, turns |
| Turns of a chat (`_answer_noya_chat` of `runbot.py`, `noya_turns.py`) | newest turn of each speaker | register, count, update the relation, ask the model, time out | quota, memory |
| Long-term memory and relation (`botapp/memory/`, `emotions.py`) | memory items, `NoyaRelationshipState` and its events | store, hurt, repair, decay, forget | turns |
| Dispatcher (`runbot.py`) | updates seen | drop duplicates, route | everything |
| Reports, research, media, observability, prompts | records, no protocol | | |

**How they interact.** The bot process is one asyncio event loop with several
bots; every update is a task, and each `await` of Telegram or of the database
lets other tasks run. One or more worker processes poll the queue (README.md:126
starts a daemon, README.md:132 shows `--once` for a manual pass beside it), and
web workers serve the API and the admin pages. The database (SQLite, MySQL or
PostgreSQL) is all that the processes share; a transaction on one row, under
`select_for_update`, is the unit of atomicity, and a call of Telegram is never
part of one.

**What is hard, and what has to be true all the same.**

* *Queue.* A Telegram call cannot be undone or repeated safely, its answer can
  be lost, and the process can die on either side of it. A timed mute must end,
  a restriction must not be handed to two workers, a cancelled action must not
  be completed, a release must have a cause.
* *Schedules.* Edits on the day of firing, missed passes and concurrent passes:
  once a day, and not less.
* *Gateway.* Lock and unlock run concurrently with edits by administrators: an
  unlock must open the group.
* *Confirmations.* Double clicks, a cancellation racing a confirmation, a crash
  after the claim, a requester who has lost the rights: at most one run.
* *Start gate.* Several messages of one member are handled at once, a handler
  may be slower than its own time limits, and the member may start the bot at
  any point: while its row says started nothing else restricts the member, and
  the bot does not lose hold of its own notices except where it has to.
* *Harness.* A run is cancelled, answered or replanned while a tool is awaited,
  and new runs push old ones out of the store: what is over stays over, a step
  runs once, and an investigation keeps its history.
* *Forced membership.* Checks, join events, redelivered updates, failing
  warnings and changes of the rule meet in one row: one first warning, and a
  report that says what happened.
* *Edits and duplicates.* Several bots hear one message and each of its edits:
  one answer, given when the text stands still.
* *Turns.* Turns of one member run concurrently, out of order and past midnight,
  and one that was given up may still write: the quota holds, an insult is
  forgiven once, and nobody is told that the answer to an old turn is late.

`PROJECT.json` lists each hazard at its line, with the properties about it.

## 2. The modules

    ModerationQueue ── MCModerationQueue (3 cfgs) ── ModerationQueue_proofs
    DailySchedule      (1 cfg)                    ──┐
    GroupLock       ── MCGroupLock (1)            ──┴ GroupClosing_proofs
    SingleUse  <──implements──  AgentConfirmation
                    └── MCAgentConfirmation (1)   ── AgentConfirmation_proofs
    StartGate       ── MCStartGate (1)            ── StartGate_proofs
    HarnessRun <──extends── Harness ── MCHarness (2) ── Harness_proofs
    Edits           ── MCEdits (1)                ── Edits_proofs
    ForcedMembership ── MCForcedMembership (1)    ── ForcedMembership_proofs
    Relationship <──extends── Chat ── MCChat (1)  ── Chat_proofs

An `MC…` module only adds the model values and symmetry of an instance. All
modules follow the same conventions: one action per database transaction or
Telegram call; `pc` names the place of a task between two of them; time is kept
as ages and remaining times, cut off where the code stops telling them apart;
variables marked "observation only" are written and never read by an action.
Definitions named `Faulty…` are not part of a model: each is a likely mistake
in the definition after it, against which the properties have been tried.

### ModerationQueue

The table of one group with everything that moves its rows. Rows of different
groups meet only in the claim limit and the worker's order; with a concurrency
above one the worker still carries out the actions of a group one after the
other, so one group is what has to be looked at.

| Model | Code |
|---|---|
| `rows`, `logs` | `ModerationAction`, `ModerationLog` |
| `inForce` | what Telegram enforces, with the action that caused it |
| `HandlerRequest`, `HandlerApplied`, `HandlerRefused`, `HandlerComplete`, `HandlerFail` | `queue_or_execute`: insert, call, `complete_action` or save of "failed" |
| `WorkerSweep` | `requeue_stale_processing_actions`: stale releases go back to pending, stale restrictions fail |
| `WorkerClaim` | `claim_due_actions`, with `--limit`, in any order of equal times |
| `WorkerLoad`, `WorkerProtected`, `WorkerApplied`, `WorkerRefused` | `execute_claimed`, bot after bot |
| `WorkerRecord`, `WorkerRecordRaises`, `WorkerLog`, `WorkerFail` | `complete_action` in the worker, the log, `mark_action_failed` |
| `ApiCreate`, `ApiCreateWithKey`, `ApiCancel` | `api.py`, with client-supplied idempotency keys |
| `BotCrash`, `WorkerCrash`, `WorkerRestart`, `Tick` | processes that die and come back, the clock |

### DailySchedule

`GroupSchedule` rows of one group, edited by commands (one row per action) and
by the agent (one per action and time), and `enqueue_daily_group_schedules` as
`Pass`. Each is one transaction in the code. `Tick` may skip passes. The actions
inserted are kept in `queue`; what becomes of them is ModerationQueue's matter.

### GroupLock

`execute_telegram_action` for lock and unlock: `ReadPermissions`
(`get_chat`), `SavePermissions` (the snapshot), `Set` (`set_chat_permissions`),
with `Refused` for errors and the next bot, `Crash`, and `EditPermissions` for
administrators who change the permissions in Telegram. Permissions are model
values, open or silent. Its specification is named `LockSpec`, with `LockInit`,
`LockNext`, `LockTypeOK`, so that one module, `GroupClosing_proofs`, can extend it
together with `DailySchedule`: when a group is closed and opened, and what that
leaves behind.

### AgentConfirmation and SingleUse

`SingleUse` says what a confirmation promises: it is decided once, and only a
claimed one runs, once. `AgentConfirmation` is the code: `Claim`
(`claim_for_execution`), `Check` and `CheckTarget` (the tests of
`execute_confirmed`), `Handle` (the start of the tool handler), `Mark` and
`MarkFailed` (which look at the copy in memory), `Cancel`, `BotCrash`, and the
recover command in its two queries. The refinement maps the status of a row to
its decision, and `KeepsPromise` is `SingleUse!Spec` under that mapping.

### StartGate

One member in one group: the member's row, the row of the gate, and an event
per message (one for all items of an album). Three kinds of task work on them:

| Model | Code |
|---|---|
| `Receive`, `CheckLive`, `Touch`, `PrepareDecision` | `enforce_bot_start_message` up to the decision |
| `DeleteMessage`, `MarkDeleted`, `EventFailed`, `DeletionFailed` | deletion of the message and its record, in the four places where it happens |
| `ReserveNotice`, `SendNotice`, `ReleaseNotice`, `RecordNotice`, `RetractNotice`, `QueueCleanup`, `ReplaceNotice`, `WarningCompleted`, `WarningFailed` | the notice, of a warning and of a deletion |
| `PrivateMessage`, `MarkUserStarted`, `ClearWarning`, `ForgetWarning`, `NoCommand` | `BotStartGateMiddleware` and, for `/start`, `send_welcome`, which marks the user a second time |
| `CleanerLooks` … `CleanerSettles` | `cleanup_due_notices`, once a second per bot |
| `Block`, `Tick`, `Crash` | the member, the clock, the death of the process |

The database calls of the bot process run one at a time (`thread_sensitive`),
so each is one step. A message comes again when it is edited. `deleteMessage`
succeeds, is refused because the message is gone or the bot is not in the group,
or fails on the way with or without effect.

### HarnessRun and Harness

`HarnessRun` is the run of `harness/state.py` as a record and each operation of
`harness/executor.py` as an operator on it. The executor loads a copy, changes
it and saves it with no await in between, so that `Settle`, the loop of `arun`
from one await to the next, is one step. `Harness` lets several tasks work on
one run, keeps the store of runs with its limit, and adds the investigations of
`harness/bridge.py`, which put one run of their own and one per tool call into
the same store. Tasks, answers and the prompt name a step by its identifier, as
the code does, and look it up again (`Place`, which is `_find` and `_index_of`):
after a replan the identifier may name another step, or none, and if tasks have
crossed a later step may not stand at the place its identifier says.

| Model | Code |
|---|---|
| `order`, `runs`, `Create`, `Save`, `OtherRun` | `InMemoryRunStore`; the oldest run goes, whatever its status |
| `ARun`, `AResume`, `AResumeWithAnswer`, `ToolReturns` | `arun`, `aresume` and the end of `_exec_async`, which loads the run again |
| `Cancel`, `ApproveConfirmation`, `RequestReplan` | the entry points of the same names |
| `Begin`, `AskPlanner`, `NextOfChain`, `CallTool`, `ToolEnds` | the loop of `run_application_investigation` with `_exec_tool` |
| `PlannerFinishes`, `PlannerCallsTool`, `PlannerCallsNoTool`, `PlannerTimesOut`, `PlannerFails` | what becomes of the planner's answer |
| `Verdict` | `Observer.observe` |
| `Deadline` | `MAX_TOTAL_RUNTIME_S` passes |

### Edits

One message, its edits, and every bot of the process that hears them: the
deduplication (`NotTargeted`, `Duplicate`, `Receive`), the filters behind it
(`Unanswered`, `Pass`), the direct answer (`AnswerDirectly`), and the coordinator
of `noya_edits.py`: `ObserveEmptyShell`, `ObserveEdit`, and `Look`, one turn of
the settle loop, which dispatches or drops the session. The coordinator's lock
is never held across an await, so each is one step. Clocks are ages in ticks.

### ForcedMembership

One rule, one member, and any number of messages. `task` is where the
middleware is with a message, between two awaits; the transactions of the
process run one after the other (`thread_sensitive`).

| Model | Code |
|---|---|
| `Begin`, `Promote`, `Ask`, `Observe`, `JoinUrl`, `CreateLink` | `enforce_forced_membership_message` up to the decision |
| `Evaluate` | `evaluate_nonmember_message`: ignore, warn or delete |
| `Warn`, `WarnFails`, `Rollback`, `Delete`, `MarkDeleted` | the decision carried out; `Refused` is a call whose failure keeps the message back |
| `Move`, `LoadForUpdate`, `ObserveUpdate`, `MarkInvite` | a join or leave, and `process_destination_member_update` |
| `Configure`, `Toggle`, `ChangeDestination`, `DeleteRule` | the owner, in `forced_membership_handlers.py` |
| `Crash` | the process dies; an update in flight comes again or not |

### Relationship and Chat

`Relationship` holds the pure functions of `emotions.py` and of
`memory/relationship.py` on the ledger of one speaker, in hundredths of a point:
what hurts (`Hurt`), repairs (`Repaired`), fades (`Decayed`), and what is left
after the columns have been rounded (`Saved`). `Chat` runs the turns of one
member through `_answer_noya_chat`: `Begin` (`remember_turn`), `ConsumeQuota`,
`LookAtRelation` (the ledger's transaction), `Ends`, `TimesOut` with
`Superseded`, `Tell`, and beside them `LateLedger` (the transaction that a
cancelled wait leaves behind), `ForgetAll`, `Evict` and the clock. A picture, an
edited picture or a voice message (`MakeMedia`) may take the place of the
model's call or follow from its answer; its own five minutes (`MediaTimesOut`)
end in a notice without a look at newer turns. In the code all transactions of
the process share one thread, so a quota is read and written in one go; the model
lets turns read the day and count in any order, which allows more.

## 3. The runs

| Run | Asks | Expected |
|---|---|---|
| `queue` | one handler, two workers with two bots, the API with a reserved key, one crash: is a restriction held twice, a release lost, invented or booked in advance, a cancelled action executed, logged or released after all? | holds |
| `queue_worker` | one worker and the API, two kinds of action, delays, a batch of two, one crash: does every action settle, and every release that is not cancelled or refused reach Telegram? | holds |
| `queue_permanent` | `PermanentHasNoAutomaticEnd` | violated |
| `schedule` | three schedules over two days of two moments, passes at any of them or none: once a day, and not less, but for a schedule moved after it has acted | holds |
| `group_lock` | three executors with locks, unlocks, edits, crashes: does an unlock open the group? | holds |
| `confirmation` | two rows, two callbacks, crash, recovery, loss of rights; refinement of `SingleUse` | holds |
| `gate` | two handlers with a message and an item of an album, one start, one failing call, one crash, one cleanup loop | holds |
| `harness` | two tasks on one run, with answers, cancellation, replanning and budgets, an investigation, and a store of two runs: is what is over left alone, a step run once, the observer right, a history whole and that of the turns? | holds |
| `harness_fallback` | `AlwaysAnswers`: does an investigation end with an answer? | violated |
| `edits` | two bots, one message with two edits, gates that may stop an update: one direct answer, one settled answer, and does every session end? | holds |
| `membership` | two messages or album items, one move, one change by the owner, one crash, lost answers: one first warning but for lost answers, deletions that happened, counters that agree | holds |
| `chat` | two handlers, three turns over two messages, two and a half days, late transactions: quota, forgiveness, old hurt, notices | holds |

**What the violations show.** Each is a disagreement of the code with a line of
its documentation (quoted in `PROJECT.json`):

1. The release of an earlier timed restriction ends a later permanent one
   (`moderation.py:240`).
2. If the planner fails at the first step, the investigation reads the queue of
   the deterministic pass unassigned and raises instead of answering
   (`harness/bridge.py:394`, read at line 341).

**Observations without a run.** Met while modelling, visible in the models, and
not kept as runs:

* An immediate action stays `pending` during its Telegram call, so it can be
  cancelled after it has taken effect (`telegram_moderation.py:33`).
* A schedule moved to a later time on a day on which it has fired does not fire
  again that day: its key has no time in it (`moderation.py:270`), although
  `/lockat` empties the mark of the day (`runbot.py:1090`) and README.md:103
  promises the action at the time each day. `ServedAtItsTime` leaves such a
  schedule out by name (`spent`). One that is removed and set again has a new id
  and may fire a second time that day.
* A first warning that was delivered, but whose answer was lost, is rolled back
  and sent again (`forced_membership_runtime.py:207`-`216`); `WarnedOnce` counts
  these (`lost`). If the process dies after `Evaluate` the member is marked as
  warned and may never have been told (`cut`).
* The notices that a picture, an edit or a voice message took too long are sent
  without looking for newer turns (`runbot.py:1329`, `:1352`, `:1413`), unlike the
  one for an answer (`:2077`-`2082`); `NoStaleAnswerNotice` is about the latter.
* The recover command may write "failed" over "executed"
  (`agent/confirmations.py:207`).
* The answer that a member has blocked the bot may be stored after the member
  has started it again (`bot_start_gate.py:488`): its row no longer says started,
  and `StartedIsClean`, which is about rows that do, says nothing of it.
* The cleanup loop of a bot that is not in a group takes Telegram's refusal for
  a deletion and forgets the notice (`bot_start_gate.py:404`; `Loses`).
* The key of an edited message has no edit date: a second edit within ten
  minutes is dropped, so the settled answer may be to an earlier body, and the
  first bot to fetch an update takes it even if its handler does not match
  (`runbot.py:2647`, `:2671`). A message answered as it arrived is answered again
  when it is edited.
* A message deleted while the first warning of its member is in flight stays
  deleted although the warning then fails; a message whose task dies between its
  decision and its deletion stays, since its redelivery is ignored.
* A run that is started or resumed again while one of its tools is awaited calls
  the tool twice (`executor.py:210`); `ExecutedOnce` excludes it by name.
* Two concurrent `/warn` at the ceiling may both reach it (`perform_warn`,
  `runbot.py:833`). Not modelled.

**Bounds.** `MaxActions`, `MaxCrashes`, `MaxDays`, `MaxSchedules`,
`MaxDemotions`, `MaxUpdates`, `MaxStarts`, `MaxFaults`, `MaxOthers`, `MaxEdits`,
`MaxMoves`, `MaxChanges`, `MaxTurns` (of Chat) and `MaxTime` are bounds of the
instances; they appear as guards and nowhere else. `MaxLate` is how far past its
time a row is told apart; the code compares `execute_at` with now and orders by
it, so rows that are late by more are claimed in any order. Why they suffice:

* a queue of three rows holds a timed restriction, its release and a rival of
  either; two workers with two bots are enough for a row to be taken from a slow
  worker and tried again, and one crash for each place where work is lost;
* two moments a day separate "before" and "after" a schedule's time, two days a
  catch-up from a new day, and three schedules a removed one from its successor;
* three executors let a lock and an unlock meet a third that writes in between;
* two callbacks on two rows are the double click and the click on another row;
* in the gate two handlers race for decision, reservation and record, of which
  there is one each; three notices are a recorded one, its successor and one
  that comes too late. `HoldTtl` is 1 and `NoticeTtl` 2, the shortest times that
  differ, so that a reservation can expire early or late, and before or after
  its notice. The instance has one bot, in the group: with a second one outside it
  the run would not end in five minutes, and `LiveNoticesAreOwned` covers that case;
* a run of two steps with one replan has a current step, one before and one
  after it, and the budgets (two calls, two steps) end it at each place; a store
  of two runs is full with the run of an investigation and of one of its turns,
  so that any further run evicts one that is alive;
* two bots and three versions give a first message, an edit and a later edit,
  through either bot; the times of Edits are one or two ticks, equal or one
  apart as the code's are in order;
* two messages of a member are a first and a later one, or two items of one
  album; one move or one change can fall between any two steps of either;
* three turns over two messages are a repetition, a newer and an older turn; in
  Chat a tick is half a day, a long pause outlasts every hurt that a minor insult
  leaves, and the scores are those of the code, to the hundredth.

The theorems of section 5 do not depend on these numbers.

**Fairness.** `queue_worker` checks liveness under `FairSpec`: weak
fairness of each handler, of each worker (restart included) and of the clock.
Awaits have time limits in the Telegram client, and transactions end, so a task
in a call goes on; a worker that ended is started again by whoever runs it (the
repository has no service unit for it, so this is an assumption about the
deployment, and `ActionsSettle` is false without it). Requests, cancellations,
refusals and crashes are never fair. `edits` checks `SessionEnds` under weak
fairness of the settle loop, whose timers the event loop serves, and of the
clock; bots, authors and handlers are not fair. The other modules state no
fairness and no liveness.

**Deadlock** is checked in the queue, lock and confirmation runs. DailySchedule
stops after `MaxDays`, the instances of StartGate, ForcedMembership, Harness and
Chat run out of updates, runs, turns or time, and Edits may have no edit left and
clocks that all stand still; these turn deadlock checking off.

## 4. What TLC alone shows

The three liveness properties, `ActionsSettle`, `ReleaseIsCarriedOut` and
`SessionEnds`: fairness and ENABLED are out of the prover's reach. The two
expected violations are counterexamples, found by TLC. Every invariant and every
action property of a passing run is proved (section 5), and so is the refinement
of `SingleUse`. No recursive operator is needed, so nothing rests on induction
over data.

## 5. What is proved

Each proof module extends its component (`GroupClosing_proofs` two). Every theorem is of the form
`Spec => []P` or `Spec => [][A]_vars` (`CancelledForGood` follows from one), from an inductive invariant and PTL, and
assumes of the constants only the named `ASSUME` of the component.

| Theorem | Says | Inductive invariant |
|---|---|---|
| `ModerationQueue_proofs!TypeCorrect` | `TypeOK` | with `Shape`: a busy handler or worker holds rows that exist, so that the head of a batch is a row |
| `…!RestrictionHeldOnceHolds` | no restriction is held by two workers | with `NotQueued`: a held restriction is not pending. It cannot be claimed again, since the sweep returns only releases to the queue (`Grows` collects what every step keeps of a row) |
| `…!CancellationHolds`, `CancelledForGood` | a cancelled action is never executed, logged or released afterwards, also when "failed" has been saved over it | `TableStep`: every step of every process is one of six changes of the table, and only a completion, which refuses a settled row, makes a row executed (`StatusSteps`); `Withdrawn` is kept by each of them |
| `…!ReleaseHasCauseHolds` | an automatic release has a completed timed restriction, and only the system wrote it | `ReleaseMatches`: a row with the key of a release undoes the row the key names; a client's key is never such a key, and `RowSteps` says where new rows come from |
| `…!TimedRestrictionHasReleaseHolds` | an executed timed restriction has its release, for its target | `ReleaseMatches` with `ReleaseWritten`: completing writes the release, or finds its key taken, and rows are never removed |
| `…!ExecutedReachedTelegramHolds` | what is recorded or logged has reached Telegram | `Reached`: so has what a handler holds at "accepted" and a worker at "record" or "log" |
| `GroupClosing_proofs!TypeCorrect`, `ActsOncePerDay`, `MarksAreTrue`, `MissedPassesAreMadeUp` | the properties of the run `schedule`, and that a mark stands for an action of its day | their conjunction with `Served`: once a pass is made at a moment, what was due has its action, of the time it now has unless it is in `spent` |
| `…!LockTypeCorrect`, `UnlockingOpens` (of `LockSpec`) | an unlock sets the default or open permissions the group has had | `HeldWereOpen`: what is saved, or held in memory for an unlock, was open; only a lock reads and saves |
| `AgentConfirmation_proofs!TypeCorrect`, `StartedAtMostOnce`, `CancellationHolds` | at most one start, never after a cancellation | `Claimed`, `OneHolder`, `Order`: a callback's row is neither open nor cancelled, nobody else holds it, and its operation was started exactly if the callback is past the start |
| `…!ExecutedOperationsRan` | a row that reads "executed" was started | the same invariant: only a callback past the start marks its row |
| `…!DemotedRequesterRunsNothing` | nothing runs without rights held since the claim | with `Rights` |
| `…!ImplementsSingleUse` | the code implements `SingleUse` | step by step, under the same invariant |
| `StartGate_proofs!TypeCorrect` | `TypeOK` | with `Placed`: a handler that records, retracts or queues has sent a notice |
| `…!StartedMembersAreClean` | while the row of a member says started it does not say blocked, and no event or warning counts | `user.started => ~user.blocked`: a handler clears "blocked" alone and must not make a member started |
| `…!LiveNoticesAreOwned` | every notice in the group is known to the database or to a handler, or was lost in one of the four ways named | `Owned`: the handler that holds the reservation knows the notice recorded before (`KnowsPrevious`), and a task about to clear a record has seen that its notice is gone, which stays so (`StarterSaw`, and `CleanerSaw` for a bot in the group; what a bot outside strikes off is a stray) |
| `…!NoticesKeepTheirPause` | no notice is reserved while the one recorded last is younger than three minutes, unless the member has started the bot since | `Pacing`: until then the record stands, is as old as the pause and has as long to live as the pause lasts, its reservation cannot be released any more, and no task has read it to forget it (`Paced`); what a starter or a cleanup loop is about to forget is another notice, since the id of a notice is new when it is sent and until it is recorded (`Fresh`) |
| `Harness_proofs!TypeCorrect` | the types of store, runs, tasks and investigations, and that a verdict at the end is FINISH | `Inv`, below |
| `…!TerminalRunsStay` | a run that is over stays as it is | `Inv` with `Final`: each operator of HarnessRun leaves the status, error and steps of such a run alone (`Frozen`), and the recording of a late tool changes a step that is there |
| `…!StepsExecutedOnce` | steps are called once, in order, when confirmed, and keep their own result | `Steady`: while no tasks have crossed, steps before the index are settled, the one at the index is the one that is awaited, by one task, and those after it are untouched (`Orderly`, `Healthy`, `Quiet` or `Busy`) |
| `…!ObserverIsRight` | the observer says what the executor will do | the same, for a run that nobody works on |
| `…!HistoryComplete` | the history of an investigation agrees with what it has seen and with the runs of its turns, or is gone as a whole | `RequestInv`, with `OlderInv` (the run of an investigation is older than those of its turns, so the store drops it first), `FullInv` (it is missing only from a store that is full) and `HistoryInv` (its steps are those of stored runs and tell what was seen) |
| `Chat_proofs!TypeCorrect` | the types, the bounds of the ledger and its status | `Row`: every operation of `Relationship` keeps the shape of the row, one lemma each |
| `…!QuotaIsKept` | the grants of a day's row stay within the limit | `QuotaInv`: the counter is at least the grants of the row's day, and no later day has been granted anything |
| `…!ForgivenOnce`, `OldHurtIsGone` | a conflict is forgiven once, old hurt does not return | `LedgerInv`: with an open conflict the count is below the insults recorded, and the open hurt is covered by those since it was last zero, rounding included |
| `…!NoticesAreFresh` | nobody is told that the answer to an old turn timed out | `LatestInv`: `latest` is at least every message registered since the last eviction |
| `Edits_proofs!TypeCorrect`, `SettledBodyAnsweredOnce` | the types; a settled answer is not repeated while `_answered` remembers it | `TypeOK`, by which no session is open while the message is remembered, and `Remembered`: what `_answered` says is the time since the last answer |
| `…!AnsweredByOneBot` | one bot at most answers a message as it arrives | `OnePasses` with `Marked`: once a copy has passed the deduplication, the mark of the message is no older than the message, so that no second copy passes before `ttl_seconds` are over |
| `ForcedMembership_proofs!TypeCorrect`, `CountersAlwaysAgree` | the types; joins, leaves and rejoins agree | `Aimed`: a task that asks has a destination; `Counted`: a member has been one, and every step that writes the counters is `Observed` or a new row (`RowSteps`) |
| `…!CountedAreDeleted` | what is counted as deleted has been deleted | `Deletions`: the deleted messages not yet counted (`Owed`) and those counted are together no more than the deleted ones |
| `…!OneWarning` | one warning for a member and one more for each lost answer, and a mark stands as long as its event and not without a warning | `Warnings`: at most one message has the event, a warning under way has it exactly if its row is still the present one, and none for the present row is under way once one has been sent |

**The harness.** `Inv` is `TypeInv` (the store and its runs are well formed, also
when an index lies beyond the last step), `KnownInv` (every stored run belongs to
the callers, to an investigation and turn that have begun, or to another one),
`RequestInv` for each investigation, and `ApiInv` for the callers' run. The last
one is `Steady` only while `crossed` is false, which is why `ExecutedOnce` and
`ObserverAgrees` name that case. First one lemma per operator of HarnessRun says
what it returns for any run, then one lemma per action keeps each part of `Inv`.
The attempt corrected the model twice: cases of the observer and of the budgets
that overlap are now tested in the order of the code (`CASE` has none), and steps
have identifiers, since with places alone a step could be confused with its
successor after a replan.

No theorem has a hypothesis of its own.

## 6. Not modelled

* Wording, parsing of commands, prompts, ranking, models, media, archives,
  reports and tracing: no state that several actors share.
* The rate limits of Telegram, the exemption of administrators, service messages
  and messages to the bot in the start gate and in forced membership (decided
  before the models begin), deep links, the text of idempotency keys (they are
  cut at 80 characters, so that two long ones may be one; `moderation.py:113`).
* The warning ceiling that inserts into the queue, and the flood window.
* Of the harness: the synchronous twin of the loop, which has no await, and the
  contents of plans and results. Of forced membership: several rules of one
  group, reports, and the checks of a new rule's channel. Of the turns: the rate
  limit between bots, memory items and the stored dialogue, the pruning of
  events after 90 days, the half hour after which `noya_turns.py` forgets (it is
  `Evict`), warmth, trust and mood. `/forget_all` during a turn is in the model
  as the code has it: the turn may begin a new ledger.
* Two schedules of one action that the agent may keep, after which `/lockat`
  raises (the action is then disabled in the model); the order in which a
  catch-up pass enqueues (both orders are in the model, nothing says which is
  right).

## 7. Plan

Done: `ModerationQueue`, `AgentConfirmation` with `SingleUse`, `GroupLock`,
`DailySchedule`, `StartGate`, `HarnessRun` and `Harness`, `Edits`,
`ForcedMembership`, `Relationship` and `Chat`, with the proofs of all their safety
properties. In order of importance:

1. The warning ceiling with the queue: two warnings at once, and the release of
   what they cause.
2. Liveness of StartGate: events settle and owned notices go, under fairness of
   the handlers and the cleanup loop.
3. Compositions: DailySchedule feeding ModerationQueue, GroupLock under
   ModerationQueue's executors.
