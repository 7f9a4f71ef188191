---------------------------- MODULE ModerationQueue ----------------------------
(***************************************************************************)
(* The queue of moderation actions of one group (the ModerationAction      *)
(* table) and everything that moves its rows:                              *)
(*                                                                         *)
(*   - the command handlers of the bot process (queue_or_execute), which   *)
(*     insert a row and, when it is not delayed, carry it out themselves;  *)
(*   - the worker processes (run_moderation_worker), which sweep stale     *)
(*     rows, claim due ones and carry them out one after the other;        *)
(*   - the staff API, which inserts and cancels rows.                      *)
(*                                                                         *)
(* A handler and a worker hold a row across Telegram calls: the database   *)
(* transactions before and after a call are separate steps, and others     *)
(* run in between.  Daily schedules, which only insert rows, are in the    *)
(* module DailySchedule; the permissions an unlock restores are in         *)
(* GroupLock.                                                              *)
(*                                                                         *)
(* Time is relative: due_in is execute_at minus now and age is now minus   *)
(* started_at, both moved by Tick, so that no bound on the clock is        *)
(* needed.  One tick is the unit of Delays, Durations and StaleAfter.      *)
(***************************************************************************)
EXTENDS Integers, Sequences, FiniteSets

CONSTANTS
    Users,          \* the members actions may target
    Admins,         \* those of them who administer the group
    Chat,           \* the target of lock and unlock, which name no user
    Handlers,       \* command handlers that run concurrently in the bot
    Workers,        \* run_moderation_worker processes
    RequestKinds,   \* the kinds of action that are asked for
    Delays,         \* delays asked for; 0 is "at once"
    Durations,      \* durations asked for; 0 is None, "permanent"
    ClientKeys,     \* texts API clients send as Idempotency-Key
    Limit,          \* --limit: rows one worker pass claims at most
    NumBots,        \* bots a worker tries in turn
    StaleAfter,     \* age at which a processing row is stale (10 minutes)
    MaxActions,     \* bound: rows the table can hold
    MaxLate,        \* bound: how far past its time a row is told apart
    MaxCrashes      \* bound: crashes of the bot and of workers together

Kind == {"lock", "unlock", "mute", "unmute", "ban", "unban"}

(* REVERSALS, _SIDE_EFFECT_ACTIONS and _RELEASE_ACTIONS of moderation.py. *)
Restriction == {"lock", "mute", "ban"}
Release == {"unlock", "unmute", "unban"}
Reversal == [lock |-> "unlock", mute |-> "unmute", ban |-> "unban"]

Targets == Users \cup {Chat}
TargetsOf(kind) == IF kind \in {"lock", "unlock"} THEN {Chat} ELSE Users

ActionId == 1 .. MaxActions
Status == {"absent", "pending", "processing", "executed", "failed", "cancelled"}

(* Definitions named Faulty... are not part of the model: each is a likely *)
(* mistake in the definition that follows it, kept to show that a property *)
(* below would notice.                                                     *)

(***************************************************************************)
(* A row is internal when its source is "system" or "schedule".            *)
(* An idempotency key is a text, behind "ext:" when the caller is not one  *)
(* of the internal sources.  A client may send any text, the reserved      *)
(* "sys:reverse:<id>" included.                                            *)
(***************************************************************************)
KeyText == [form: {"text", "reverse", "uuid"}, of: Nat]
Key == [ext: BOOLEAN, text: KeyText]

ASSUME QueueAssumption ==
    /\ Admins \subseteq Users
    /\ Chat \notin Users
    /\ RequestKinds \subseteq Kind
    /\ Delays \subseteq Nat
    /\ Durations \subseteq Nat
    /\ ClientKeys \subseteq [form: {"text", "reverse"}, of: Nat]
    /\ Limit \in Nat \ {0}
    /\ NumBots \in Nat \ {0}
    /\ StaleAfter \in Nat \ {0}
    /\ MaxActions \in Nat
    /\ MaxLate \in Nat
    /\ MaxLate <= StaleAfter
    /\ MaxCrashes \in Nat

VARIABLES
    \* the database
    rows,       \* ActionId -> the ModerationAction row
    logs,       \* ids that have a ModerationLog row
    \* Telegram
    inForce,    \* target -> restriction -> id of the row that last applied it, or 0
    \* the processes
    handler,    \* handler -> what it is doing, and for which row
    worker,     \* worker -> where it is in a pass, and the rows it still holds
    \* observation only
    applied,    \* id -> times its effect reached Telegram, 2 standing for "again"
    crashes

vars == <<rows, logs, inForce, handler, worker, applied, crashes>>

Row == [status: Status, kind: Kind, target: Targets, due_in: Int,
        duration: Nat, age: Nat, key: Key, internal: BOOLEAN]

NoRow == [status |-> "absent", kind |-> "lock", target |-> Chat, due_in |-> 0,
          duration |-> 0, age |-> 0,
          key |-> [ext |-> FALSE, text |-> [form |-> "uuid", of |-> 0]],
          internal |-> TRUE]

HandlerPc == {"idle", "calling", "accepted", "raised"}
WorkerPc == {"idle", "claim", "load", "call", "record", "log", "fail", "down"}

Idle == [pc |-> "idle", id |-> 0]
Resting == [pc |-> "idle", batch |-> <<>>, bot |-> 1]
Down == [pc |-> "down", batch |-> <<>>, bot |-> 1]

TypeOK ==
    /\ rows \in [ActionId -> Row]
    /\ logs \subseteq ActionId
    /\ inForce \in [Targets -> [Restriction -> 0 .. MaxActions]]
    /\ handler \in [Handlers -> [pc: HandlerPc, id: 0 .. MaxActions]]
    /\ worker \in [Workers -> [pc: WorkerPc, batch: Seq(ActionId), bot: 1 .. NumBots]]
    /\ applied \in [ActionId -> 0 .. 2]
    /\ crashes \in 0 .. MaxCrashes

Init ==
    /\ rows = [i \in ActionId |-> NoRow]
    /\ logs = {}
    /\ inForce = [t \in Targets |-> [r \in Restriction |-> 0]]
    /\ handler = [h \in Handlers |-> Idle]
    /\ worker = [w \in Workers |-> Resting]
    /\ applied = [i \in ActionId |-> 0]
    /\ crashes = 0

-------------------------------------------------------------------------------
(* The table: create_action and complete_action.                           *)

Exists(i) == rows[i].status # "absent"

(* The id the database gives to the next row. *)
FreshIds == {i \in ActionId : ~Exists(i) /\ \A j \in ActionId : j < i => Exists(j)}

KeyTaken(key) == \E i \in ActionId : Exists(i) /\ rows[i].key = key

ReverseKey(i) == [ext |-> FALSE, text |-> [form |-> "reverse", of |-> i]]
UuidKey(i) == [ext |-> FALSE, text |-> [form |-> "uuid", of |-> i]]
FaultyExternalKey(text) == [ext |-> FALSE, text |-> text]
ExternalKey(text) == [ext |-> TRUE, text |-> text]

NewRow(kind, target, delay, duration, key, internal) ==
    [status |-> "pending", kind |-> kind, target |-> target, due_in |-> delay,
     duration |-> duration, age |-> 0, key |-> key, internal |-> internal]

IsReversalOf(r, i) == Exists(r) /\ rows[r].key = ReverseKey(i)

NeedsReversal(i) == rows[i].kind \in Restriction /\ rows[i].duration # 0

(* Bound: a request enters only while every timed row keeps room for the   *)
(* reversal it may still need.                                             *)
Room ==
    LET free == {i \in ActionId : ~Exists(i)}
        owed == {i \in ActionId : /\ rows[i].status \in {"pending", "processing"}
                                  /\ NeedsReversal(i)}
    IN  Cardinality(free) >= Cardinality(owed) + 2

(* What validate_action_spec and create_action accept. *)
ValidRequest(kind, target, duration) ==
    /\ kind \in RequestKinds
    /\ target \in TargetsOf(kind)
    /\ kind \in Release => duration = 0

(* complete_action on a row it accepts: the row and the timed reversal are *)
(* written in one transaction.                                             *)
(* The times of a settled row are never read again.                        *)
Settle(row, status) == [row EXCEPT !.status = status, !.due_in = 0, !.age = 0]

FaultyExecutable(i) == rows[i].status # "executed"
Executable(i) == rows[i].status \in {"pending", "processing"}

FaultyComplete(i) == rows' = [rows EXCEPT ![i] = Settle(@, "executed")]

Complete(i) ==
    LET done == [rows EXCEPT ![i] = Settle(@, "executed")]
    IN  IF NeedsReversal(i) /\ ~KeyTaken(ReverseKey(i))
        THEN \E r \in FreshIds :
                rows' = [done EXCEPT ![r] =
                    NewRow(Reversal[rows[i].kind], rows[i].target,
                           rows[i].duration, 0, ReverseKey(i), TRUE)]
        ELSE rows' = done

-------------------------------------------------------------------------------
(* Telegram: execute_telegram_action.  An effect is in force until the     *)
(* opposite kind is applied; releasing what is not in force is harmless    *)
(* (only_if_banned for unban).                                             *)

Protected(i) == rows[i].kind \in {"mute", "ban"} /\ rows[i].target \in Admins

Again(n) == IF n = 0 THEN 1 ELSE 2

Undone(kind) == CHOOSE r \in Restriction : Reversal[r] = kind

Apply(i) ==
    LET row == rows[i]
    IN  /\ applied' = [applied EXCEPT ![i] = Again(@)]
        /\ inForce' = IF row.kind \in Restriction
                      THEN [inForce EXCEPT ![row.target][row.kind] = i]
                      ELSE [inForce EXCEPT ![row.target][Undone(row.kind)] = 0]

-------------------------------------------------------------------------------
(* The bot: queue_or_execute for one admin command.                        *)

(* The target is checked, then the row is inserted; a delayed one is left  *)
(* to the workers, an immediate one stays "pending" while it is executed.  *)
HandlerRequest(h, kind, target, delay, duration) ==
    /\ handler[h].pc = "idle"
    /\ ValidRequest(kind, target, duration)
    /\ kind \in {"mute", "ban"} => target \notin Admins
    /\ Room
    /\ \E i \in FreshIds :
        /\ rows' = [rows EXCEPT ![i] =
                        NewRow(kind, target, delay, duration, UuidKey(i), FALSE)]
        /\ handler' = IF delay > 0 THEN handler
                      ELSE [handler EXCEPT ![h] = [pc |-> "calling", id |-> i]]
    /\ UNCHANGED <<logs, inForce, worker, applied, crashes>>

(* Telegram carries the call out; the answer arrives, or is lost and       *)
(* surfaces as a TelegramNetworkError.                                     *)
HandlerApplied(h) ==
    /\ handler[h].pc = "calling"
    /\ Apply(handler[h].id)
    /\ \E outcome \in {"accepted", "raised"} :
        handler' = [handler EXCEPT ![h].pc = outcome]
    /\ UNCHANGED <<rows, logs, worker, crashes>>

(* Telegram refuses, or the call never reaches it. *)
FaultyHandlerRefused(h) ==
    /\ handler[h].pc = "calling"
    /\ handler' = [handler EXCEPT ![h].pc = "accepted"]
    /\ UNCHANGED <<rows, logs, inForce, worker, applied, crashes>>

HandlerRefused(h) ==
    /\ handler[h].pc = "calling"
    /\ handler' = [handler EXCEPT ![h].pc = "raised"]
    /\ UNCHANGED <<rows, logs, inForce, worker, applied, crashes>>

(* complete_action accepts the row, or raises and leaves it as it is. *)
HandlerComplete(h) ==
    /\ handler[h].pc = "accepted"
    /\ IF Executable(handler[h].id) THEN Complete(handler[h].id) ELSE UNCHANGED rows
    /\ handler' = [handler EXCEPT ![h] = Idle]
    /\ UNCHANGED <<logs, inForce, worker, applied, crashes>>

(* The except clause saves "failed" whatever the row has become. *)
HandlerFail(h) ==
    /\ handler[h].pc = "raised"
    /\ rows' = [rows EXCEPT ![handler[h].id] = Settle(@, "failed")]
    /\ handler' = [handler EXCEPT ![h] = Idle]
    /\ UNCHANGED <<logs, inForce, worker, applied, crashes>>

BotCrash ==
    /\ crashes < MaxCrashes
    /\ \E h \in Handlers : handler[h].pc # "idle"
    /\ handler' = [h \in Handlers |-> Idle]
    /\ crashes' = crashes + 1
    /\ UNCHANGED <<rows, logs, inForce, worker, applied>>

-------------------------------------------------------------------------------
(* The staff API.                                                          *)

(* Without a key the row gets a fresh one; with a key already in the table *)
(* the existing row is returned and nothing is written.                    *)
ApiCreate(kind, target, delay, duration) ==
    /\ ValidRequest(kind, target, duration)
    /\ Room
    /\ \E i \in FreshIds :
        rows' = [rows EXCEPT ![i] =
                    NewRow(kind, target, delay, duration, UuidKey(i), FALSE)]
    /\ UNCHANGED <<logs, inForce, handler, worker, applied, crashes>>

ApiCreateWithKey(kind, target, delay, duration, text) ==
    /\ ValidRequest(kind, target, duration)
    /\ ~KeyTaken(ExternalKey(text))
    /\ Room
    /\ \E i \in FreshIds :
        rows' = [rows EXCEPT ![i] =
                    NewRow(kind, target, delay, duration, ExternalKey(text), FALSE)]
    /\ UNCHANGED <<logs, inForce, handler, worker, applied, crashes>>

(* cancel_action: one conditional update. *)
ApiCancel(i) ==
    /\ rows[i].status = "pending"
    /\ rows' = [rows EXCEPT ![i] = Settle(@, "cancelled")]
    /\ UNCHANGED <<logs, inForce, handler, worker, applied, crashes>>

-------------------------------------------------------------------------------
(* The worker: run_batch.                                                  *)

Holding(w) == {worker[w].batch[n] : n \in 1 .. Len(worker[w].batch)}

Current(w) == Head(worker[w].batch)

(* The worker stays at its row, at another place of the loop. *)
Goto(w, pc, bot) ==
    worker' = [worker EXCEPT ![w] = [pc |-> pc, batch |-> worker[w].batch, bot |-> bot]]

(* The worker is done with the first row of its batch. *)
Advance(w) ==
    worker' = [worker EXCEPT ![w] =
        IF Len(worker[w].batch) = 1 THEN Resting
        ELSE [pc |-> "load", batch |-> Tail(worker[w].batch), bot |-> 1]]

(* requeue_stale_processing_actions: stale restrictions fail, stale        *)
(* releases go back to the queue with the execute_at they had, which is    *)
(* StaleAfter ago or longer: MaxLate <= StaleAfter.                        *)
Stale(i) == rows[i].status = "processing" /\ rows[i].age >= StaleAfter

Requeue(row) == [row EXCEPT !.status = "pending", !.age = 0, !.due_in = -MaxLate]

FaultyWorkerSweepRequeuesAll(w) ==
    /\ worker[w].pc = "idle"
    /\ rows' = [i \in ActionId |->
                  IF ~Stale(i) THEN rows[i]
                  ELSE Requeue(rows[i])]
    /\ Goto(w, "claim", 1)
    /\ UNCHANGED <<logs, inForce, handler, applied, crashes>>

FaultyWorkerSweepFailsAll(w) ==
    /\ worker[w].pc = "idle"
    /\ rows' = [i \in ActionId |->
                  IF Stale(i) THEN Settle(rows[i], "failed") ELSE rows[i]]
    /\ Goto(w, "claim", 1)
    /\ UNCHANGED <<logs, inForce, handler, applied, crashes>>

FaultyWorkerSweepRequeuesOnly(w) ==
    /\ worker[w].pc = "idle"
    /\ rows' = [i \in ActionId |->
                  IF Stale(i) /\ rows[i].kind \in Release
                  THEN Requeue(rows[i])
                  ELSE rows[i]]
    /\ Goto(w, "claim", 1)
    /\ UNCHANGED <<logs, inForce, handler, applied, crashes>>

WorkerSweep(w) ==
    /\ worker[w].pc = "idle"
    /\ rows' = [i \in ActionId |->
                  IF ~Stale(i) THEN rows[i]
                  ELSE IF rows[i].kind \in Restriction
                  THEN Settle(rows[i], "failed")
                  ELSE Requeue(rows[i])]
    /\ Goto(w, "claim", 1)
    /\ UNCHANGED <<logs, inForce, handler, applied, crashes>>

Due == {i \in ActionId : rows[i].status = "pending" /\ rows[i].due_in <= 0}

(* The possible results of the claim query: order_by("execute_at") with    *)
(* ties in any order, cut at Limit.                                        *)
ClaimOrders ==
    LET n == IF Cardinality(Due) < Limit THEN Cardinality(Due) ELSE Limit
    IN  {b \in [1 .. n -> Due] :
            /\ \A j, k \in 1 .. n : j < k => /\ b[j] # b[k]
                                             /\ rows[b[j]].due_in <= rows[b[k]].due_in
            /\ \A i \in Due : i \in {b[k] : k \in 1 .. n}
                              \/ \A k \in 1 .. n : rows[b[k]].due_in <= rows[i].due_in}

(* claim_due_actions. *)
Take(row) == [row EXCEPT !.status = "processing", !.age = 0]

WorkerClaim(w) ==
    /\ worker[w].pc = "claim"
    /\ \E b \in ClaimOrders :
        /\ rows' = [i \in ActionId |->
                      IF \E k \in DOMAIN b : b[k] = i
                      THEN Take(rows[i])
                      ELSE rows[i]]
        /\ worker' = [worker EXCEPT ![w] =
                        IF Due = {} THEN Resting
                        ELSE [pc |-> "load", batch |-> b, bot |-> 1]]
    /\ UNCHANGED <<logs, inForce, handler, applied, crashes>>

(* execute_claimed reads the row again, and skips it unless it is still    *)
(* "processing".                                                           *)
WorkerLoad(w) ==
    /\ worker[w].pc = "load"
    /\ IF rows[Current(w)].status = "processing"
       THEN Goto(w, "call", 1)
       ELSE Advance(w)
    /\ UNCHANGED <<rows, logs, inForce, handler, applied, crashes>>

(* The call raised: the next bot tries, or there is none left. *)
FaultyTryNextBot(w) ==
    IF worker[w].bot <= NumBots
    THEN Goto(w, "call", worker[w].bot + 1)
    ELSE Goto(w, "fail", 1)

TryNextBot(w) ==
    IF worker[w].bot < NumBots
    THEN Goto(w, "call", worker[w].bot + 1)
    ELSE Goto(w, "fail", 1)

WorkerProtected(w) ==
    /\ worker[w].pc = "call"
    /\ Protected(Current(w))
    /\ Goto(w, "fail", 1)
    /\ UNCHANGED <<rows, logs, inForce, handler, applied, crashes>>

WorkerApplied(w) ==
    /\ worker[w].pc = "call"
    /\ ~Protected(Current(w))
    /\ Apply(Current(w))
    /\ \/ Goto(w, "record", 1)
       \/ TryNextBot(w)
    /\ UNCHANGED <<rows, logs, handler, crashes>>

WorkerRefused(w) ==
    /\ worker[w].pc = "call"
    /\ TryNextBot(w)
    /\ UNCHANGED <<rows, logs, inForce, handler, applied, crashes>>

WorkerRecord(w) ==
    /\ worker[w].pc = "record"
    /\ Executable(Current(w))
    /\ Complete(Current(w))
    /\ Goto(w, "log", 1)
    /\ UNCHANGED <<logs, inForce, handler, applied, crashes>>

(* complete_action raises; nothing catches it and the process ends. *)
WorkerRecordRaises(w) ==
    /\ worker[w].pc = "record"
    /\ ~Executable(Current(w))
    /\ worker' = [worker EXCEPT ![w] = Down]
    /\ UNCHANGED <<rows, logs, inForce, handler, applied, crashes>>

WorkerLog(w) ==
    /\ worker[w].pc = "log"
    /\ logs' = logs \cup {Current(w)}
    /\ Advance(w)
    /\ UNCHANGED <<rows, inForce, handler, applied, crashes>>

(* mark_action_failed saves "failed" whatever the row has become. *)
WorkerFail(w) ==
    /\ worker[w].pc = "fail"
    /\ rows' = [rows EXCEPT ![Current(w)] = Settle(@, "failed")]
    /\ Advance(w)
    /\ UNCHANGED <<logs, inForce, handler, applied, crashes>>

WorkerCrash(w) ==
    /\ crashes < MaxCrashes
    /\ worker[w].pc \notin {"idle", "down"}
    /\ worker' = [worker EXCEPT ![w] = Down]
    /\ crashes' = crashes + 1
    /\ UNCHANGED <<rows, logs, inForce, handler, applied>>

WorkerRestart(w) ==
    /\ worker[w].pc = "down"
    /\ worker' = [worker EXCEPT ![w] = Resting]
    /\ UNCHANGED <<rows, logs, inForce, handler, applied, crashes>>

-------------------------------------------------------------------------------
Tick ==
    /\ rows' = [i \in ActionId |->
         CASE rows[i].status = "pending" /\ rows[i].due_in > -MaxLate ->
                [rows[i] EXCEPT !.due_in = @ - 1]
           [] rows[i].status = "processing" /\ rows[i].age < StaleAfter ->
                [rows[i] EXCEPT !.age = @ + 1]
           [] OTHER -> rows[i]]
    /\ UNCHANGED <<logs, inForce, handler, worker, applied, crashes>>

HandlerStep(h) ==
    \/ HandlerApplied(h) \/ HandlerRefused(h)
    \/ HandlerComplete(h) \/ HandlerFail(h)

WorkerStep(w) ==
    \/ WorkerSweep(w) \/ WorkerClaim(w) \/ WorkerLoad(w)
    \/ WorkerProtected(w) \/ WorkerApplied(w) \/ WorkerRefused(w)
    \/ WorkerRecord(w) \/ WorkerRecordRaises(w)
    \/ WorkerLog(w) \/ WorkerFail(w) \/ WorkerRestart(w)

Request ==
    \E kind \in RequestKinds, target \in Targets, delay \in Delays, duration \in Durations :
        \/ \E h \in Handlers : HandlerRequest(h, kind, target, delay, duration)
        \/ ApiCreate(kind, target, delay, duration)
        \/ \E text \in ClientKeys : ApiCreateWithKey(kind, target, delay, duration, text)

Next ==
    \/ Request
    \/ \E i \in ActionId : ApiCancel(i)
    \/ \E h \in Handlers : HandlerStep(h)
    \/ \E w \in Workers : WorkerStep(w) \/ WorkerCrash(w)
    \/ BotCrash
    \/ Tick

Spec == Init /\ [][Next]_vars

(* Awaits return and transactions commit, a worker that ended is started   *)
(* again by its supervisor, and time passes.  Requests, cancellations and  *)
(* crashes need not happen.                                                *)
Fairness ==
    /\ \A h \in Handlers : WF_vars(HandlerStep(h))
    /\ \A w \in Workers : WF_vars(WorkerStep(w))
    /\ WF_vars(Tick)

FairSpec == Spec /\ Fairness

-------------------------------------------------------------------------------
(***************************************************************************)
(* Safety.                                                                 *)
(***************************************************************************)

(* At most one worker holds a given mute, ban or lock: overlapping passes, *)
(* crashes, restarts and the stale sweep never hand a restriction to a     *)
(* second worker (the sweep fails it, moderation.py:190-208, while a       *)
(* release may be held twice).                                             *)
RestrictionHeldOnce ==
    \A v, w \in Workers : v # w =>
        \A i \in Holding(v) \cap Holding(w) : rows[i].kind \in Release

(* A timed restriction recorded as executed has its release in the table,  *)
(* for the same target: whatever dies afterwards, the release is not lost  *)
(* (complete_action writes both in one transaction).                       *)
TimedRestrictionHasRelease ==
    \A i \in ActionId : rows[i].status = "executed" /\ NeedsReversal(i) =>
        \E r \in ActionId : /\ IsReversalOf(r, i)
                            /\ rows[r].kind = Reversal[rows[i].kind]
                            /\ rows[r].target = rows[i].target

(* An automatic release exists only for a timed restriction that somebody  *)
(* completed, and only the system wrote it: a cancelled or pending action  *)
(* never has one, and no API client can book its key in advance.           *)
ReleaseHasCause ==
    \A i, r \in ActionId : IsReversalOf(r, i) =>
        /\ NeedsReversal(i)
        /\ rows[i].status \in {"executed", "failed"}
        /\ rows[r].internal

(* An action is recorded as executed, and logged, only after Telegram has  *)
(* carried it out at least once, whichever of the competing executors      *)
(* recorded it.                                                            *)
ExecutedReachedTelegram ==
    \A i \in ActionId : rows[i].status = "executed" \/ i \in logs => applied[i] > 0

(* Nobody takes the row for done: it is not executed, not logged or about  *)
(* to be, and it has no release.                                           *)
Withdrawn(i) ==
    /\ rows[i].status \in {"cancelled", "failed"}
    /\ i \notin logs
    /\ \A w \in Workers : worker[w].pc = "log" => Current(w) # i
    /\ \A r \in ActionId : ~IsReversalOf(r, i)

(* Once cancelled, an action stays undone.  A handler or worker that       *)
(* still holds the row may save "failed" over "cancelled"; neither that    *)
(* nor any later step makes it executed, logs it or books a release for it *)
(* ("completion of a cancelled action is rejected", README.md:612).        *)
CancelledStaysUndone ==
    [][\A i \in ActionId : rows[i].status = "cancelled" \/ Withdrawn(i) => Withdrawn(i)']_vars

(***************************************************************************)
(* Liveness, under FairSpec.                                               *)
(***************************************************************************)

Settled(i) == rows[i].status \in {"executed", "failed", "cancelled"}

(* Every queued action is settled, through crashes of the worker that      *)
(* claimed it and releases that go round again.                            *)
ActionsSettle ==
    \A i \in ActionId : Exists(i) ~> Settled(i)

(* The automatic release of an executed action reaches Telegram as long as *)
(* it is not settled, unless the staff cancel it or every bot's call is    *)
(* answered with an error: no crash and no stale sweep gives a release up  *)
(* (moderation.py:190-208 send it round again, where they fail a           *)
(* restriction).                                                           *)
ReleaseIsCarriedOut ==
    \A i, r \in ActionId :
        rows[i].status = "executed" /\ IsReversalOf(r, i) /\ ~Settled(r) ~>
            \/ applied[r] > 0
            \/ rows[r].status = "cancelled"
            \/ \E w \in Workers : worker[w].pc = "fail" /\ Current(w) = r

(***************************************************************************)
(* What the documentation says, and the code does not keep.                *)
(***************************************************************************)

(* README.md:17: a restriction asked for without a duration has no         *)
(* automatic end.                                                          *)
PermanentHasNoAutomaticEnd ==
    [][\A w \in Workers, t \in Targets, r \in Restriction :
         /\ worker[w].pc = "call"
         /\ rows[Current(w)].internal
         /\ inForce[t][r] # 0
         /\ inForce'[t][r] = 0
         => rows[inForce[t][r]].duration # 0]_vars

===============================================================================
