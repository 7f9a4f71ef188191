------------------------------- MODULE StartGate -------------------------------
(***************************************************************************)
(* The start gate of bot_start_gate.py: the messages of a group member who *)
(* has not started the bot in private are deleted, and a notice asks the   *)
(* member to do so, at most one in three minutes and for three minutes.    *)
(*                                                                         *)
(* The module follows one member in one group: the rows TelegramUser and   *)
(* GroupUserGateState, and one BotStartGateEvent per message.  At work are *)
(* the handlers of the member's messages, the handler of the member's      *)
(* private messages and one notice_cleanup_loop per bot, all of them tasks *)
(* of one event loop.  The database calls of a process run one at a time   *)
(* (thread_sensitive), so each is one step; between two of them, and       *)
(* during each call of Telegram, any other task may run, and the process   *)
(* may die.                                                                *)
(*                                                                         *)
(* Timestamps are kept as ages, cut off where the code stops telling them  *)
(* apart; a timestamp that is not set has the age at which it is cut off.  *)
(*                                                                         *)
(* Definitions named Faulty... are not part of the model: each is a likely *)
(* mistake in the definition that follows it, put in its place to see      *)
(* that a property notices.                                                *)
(***************************************************************************)
EXTENDS Integers, FiniteSets

CONSTANTS
    Messages,           \* messages of the member in the group
    Album,              \* those that belong to one album
    Notices,            \* message ids for the notices of the bots
    Handlers,           \* message updates handled at the same time
    Bots,               \* bots of the process
    Outsiders,          \* bots that are not in the group
    None,
    HoldTtl,            \* 30 seconds
    NoticeTtl,          \* NOTICE_TTL, 3 minutes
    MaxUpdates,         \* bound: updates of the messages, edits included
    MaxStarts,          \* bound: private messages of the member
    MaxFaults,          \* bound: calls of Telegram that fail
    MaxCrashes          \* bound: deaths of the process

ASSUME GateAssumption ==
    /\ Album \subseteq Messages
    /\ Outsiders \subseteq Bots
    /\ Messages \cap Notices = {}
    /\ None \notin Messages \cup Notices \cup Handlers
    /\ HoldTtl \in Nat \ {0}
    /\ NoticeTtl \in Nat
    /\ HoldTtl < NoticeTtl
    /\ {MaxUpdates, MaxStarts, MaxFaults, MaxCrashes} \subseteq Nat

VARIABLES
    \* the database
    user,           \* TelegramUser of the member
    gate,           \* GroupUserGateState of the member in the group
    event,          \* message -> its BotStartGateEvent
    cleanup,        \* notices with a cleanup_notice event still to be done
    \* the process
    handler,        \* handler -> where it is, and its local variables
    starter,        \* the handler of the member's private message
    cleaner,        \* bot -> its notice_cleanup_loop
    \* Telegram
    chat,           \* messages and notices that can be seen in the group
    reachable,      \* the member has started the bot and does not block it
    posted,         \* messages that the member has sent
    \* observation only
    shown,          \* age of the reservation of the last notice recorded
    strays,         \* notices of which the code has lost hold
    updates, starts, faults, crashes

database == <<user, gate, event, cleanup>>
process == <<handler, starter, cleaner>>
telegram == <<chat, reachable, posted>>
bounds == <<updates, starts, faults, crashes>>
vars == <<database, process, telegram, shown, strays, bounds>>

Recent == 0 .. HoldTtl
Old == HoldTtl + 1

Status == {"none", "pending", "completed", "failed"}
Action == {"none", "hold", "warn", "delete", "retry_delete"}

HandlerPc == {"idle", "live", "touchBlocked", "touchReachable", "decide",
              "drop", "hold", "purge", "delete",
              "mark", "fail", "retry", "reserve",
              "send", "release", "undo", "record", "retract", "queue",
              "replace", "complete"}
StarterPc == {"idle", "mark", "clear", "forget", "again"}
CleanerPc == {"rest", "expire", "clear", "sweep", "drain", "settle"}

Idle == [pc |-> "idle", message |-> None, action |-> "none", deleted |-> "skip",
         previous |-> None, notice |-> None]
NotStarting == [pc |-> "idle", notice |-> None]
Resting == [pc |-> "rest", notice |-> None, todo |-> {}]
Sweeping == [pc |-> "sweep", notice |-> None, todo |-> {}]

MaybeNotice == Notices \cup {None}

GateRow == [pending: 0 .. Old, warned: BOOLEAN,
            by: Handlers \cup {None}, age: 0 .. NoticeTtl,
            notice: MaybeNotice, left: 0 .. NoticeTtl]
EventRow == [action: Action, status: Status, age: 0 .. Old]
HandlerState == [pc: HandlerPc, message: Messages \cup {None}, action: Action,
                 deleted: {"skip", "yes", "no"},
                 previous: MaybeNotice, notice: MaybeNotice]
CleanerState == [pc: CleanerPc, notice: MaybeNotice, todo: SUBSET Notices]

TypeOK ==
    /\ user \in [started: BOOLEAN, blocked: BOOLEAN]
    /\ gate \in GateRow
    /\ event \in [Messages -> EventRow]
    /\ cleanup \subseteq Notices
    /\ handler \in [Handlers -> HandlerState]
    /\ starter \in [pc: StarterPc, notice: MaybeNotice]
    /\ cleaner \in [Bots -> CleanerState]
    /\ chat \subseteq Messages \cup Notices
    /\ reachable \in BOOLEAN
    /\ posted \subseteq Messages
    /\ shown \in 0 .. NoticeTtl
    /\ strays \subseteq Notices
    /\ updates \in 0 .. MaxUpdates
    /\ starts \in 0 .. MaxStarts
    /\ faults \in 0 .. MaxFaults
    /\ crashes \in 0 .. MaxCrashes

Init ==
    /\ user = [started |-> FALSE, blocked |-> FALSE]
    /\ gate = [pending |-> Old, warned |-> FALSE, by |-> None, age |-> NoticeTtl,
               notice |-> None, left |-> 0]
    /\ event = [m \in Messages |-> [action |-> "none", status |-> "none", age |-> Old]]
    /\ cleanup = {}
    /\ handler = [h \in Handlers |-> Idle]
    /\ starter = NotStarting
    /\ cleaner = [b \in Bots |-> Resting]
    /\ chat = {}
    /\ reachable = FALSE
    /\ posted = {}
    /\ shown = NoticeTtl
    /\ strays = {}
    /\ updates = 0
    /\ starts = 0
    /\ faults = 0
    /\ crashes = 0

-------------------------------------------------------------------------------
(* delete_message, as the code tells its outcomes apart: it succeeds; it   *)
(* is refused (TelegramBadRequest), since the message is gone; or it fails *)
(* on the way, before or after Telegram has deleted the message.  A bot    *)
(* that is not in the group is refused, too (BreaksFor and the others).    *)
Fault == faults < MaxFaults /\ faults' = faults + 1

Deletes(x) == x \in chat /\ chat' = chat \ {x} /\ UNCHANGED faults
Refuses(x) == x \notin chat /\ UNCHANGED <<chat, faults>>
Breaks(x) == x \in chat /\ Fault /\ chat' \in {chat, chat \ {x}}

DeletesFor(b, x) == b \notin Outsiders /\ Deletes(x)
RefusesTo(b, x) == Refuses(x) \/ (b \in Outsiders /\ UNCHANGED <<chat, faults>>)
BreaksFor(b, x) == Breaks(x) /\ (b \in Outsiders => UNCHANGED chat)

(* The event of a message: the items of an album have one together.        *)
EventOf(m) == IF m \in Album THEN CHOOSE first \in Album : TRUE ELSE m

Allowed == user.started /\ ~user.blocked

At(h, pc) == handler[h].pc = pc
Goto(h, pc) == handler' = [handler EXCEPT ![h] = [@ EXCEPT !.pc = pc]]
Rest(h) == handler' = [handler EXCEPT ![h] = Idle]
Go(h, pc) == IF pc = "idle" THEN Rest(h) ELSE Goto(h, pc)

(* The age of an event counts while it is pending.                         *)
Settled(e, status) == [e EXCEPT !.status = status, !.age = Old]

SetEvent(m, e) == event' = [event EXCEPT ![EventOf(m)] = e]
SetStatus(m, status) == SetEvent(m, Settled(event[EventOf(m)], status))

(* Every message that is held while a warning is under way fails with it,  *)
(* and may then be decided anew.                                           *)
SettleWarning(m, status) ==
    event' = [x \in Messages |->
        IF x = EventOf(m) THEN Settled(event[x], status)
        ELSE IF event[x].action = "hold" /\ event[x].status = "pending"
             THEN Settled(event[x], "failed")
             ELSE event[x]]

-------------------------------------------------------------------------------
(* enforce_bot_start_message *)

(* An update of a message that is not exempt, in a group with the gate on; *)
(* _load_gate_context reads the row of the member.  A message comes again  *)
(* when it is edited, or when the process has forgotten that it has seen   *)
(* it.                                                                     *)
Receive(h, m) ==
    /\ At(h, "idle")
    /\ updates < MaxUpdates
    /\ updates' = updates + 1
    /\ posted' = posted \cup {m}
    /\ chat' = IF m \in posted THEN chat ELSE chat \cup {m}
    /\ handler' = [handler EXCEPT ![h] =
            [Idle EXCEPT !.pc = IF user.started THEN "live" ELSE "decide", !.message = m]]
    /\ UNCHANGED <<database, starter, cleaner, reachable, shown, strays,
                   starts, faults, crashes>>

(* send_chat_action to a member who has started the bot: TelegramForbidden *)
(* tells that the bot is blocked, any other error lets the message pass.   *)
CheckLive(h) ==
    /\ At(h, "live")
    /\ \/ reachable /\ Goto(h, "touchReachable") /\ UNCHANGED faults
       \/ ~reachable /\ Goto(h, "touchBlocked") /\ UNCHANGED faults
       \/ Rest(h) /\ Fault
    /\ UNCHANGED <<database, starter, cleaner, telegram, shown, strays, updates, starts, crashes>>

(* _touch_user *)
Touch(h) ==
    /\ \/ /\ At(h, "touchBlocked")
          /\ user' = [started |-> FALSE, blocked |-> TRUE]
          /\ Goto(h, "decide")
       \/ /\ At(h, "touchReachable")
          /\ user' = [user EXCEPT !.blocked = FALSE]
          /\ Rest(h)
    /\ UNCHANGED <<gate, event, cleanup, starter, cleaner, telegram, shown, strays, bounds>>

(* _prepare_decision.  A message is dealt with once, unless that failed or *)
(* has been under way for too long.  Of several messages only one warns.   *)
Undecided(e) == e.status \in {"none", "failed"} \/ (e.status = "pending" /\ e.age = Old)

Decision ==
    IF gate.pending \in Recent THEN "hold"
    ELSE IF gate.warned THEN "delete" ELSE "warn"

FirstStep == [hold |-> "hold", warn |-> "reserve", delete |-> "delete"]

PrepareDecision(h) ==
    LET m == handler[h].message IN
    /\ At(h, "decide")
    /\ \/ /\ Allowed
          /\ Rest(h)
          /\ UNCHANGED <<gate, event>>
       \/ /\ ~Allowed
          /\ ~Undecided(event[EventOf(m)])
          /\ Go(h, IF m \in Album THEN "drop" ELSE "idle")
          /\ UNCHANGED <<gate, event>>
       \/ /\ ~Allowed
          /\ Undecided(event[EventOf(m)])
          /\ SetEvent(m, [action |-> Decision, status |-> "pending", age |-> 0])
          /\ gate' = [gate EXCEPT !.pending =
                CASE Decision = "hold" -> @ [] Decision = "warn" -> 0 [] OTHER -> Old]
          /\ handler' = [handler EXCEPT ![h] =
                [@ EXCEPT !.pc = FirstStep[Decision], !.action = Decision]]
    /\ UNCHANGED <<user, cleanup, starter, cleaner, telegram, shown, strays, bounds>>

(* The four places where the message itself is deleted, and what follows.  *)
(* In the last two the deletion is settled in the event at once.           *)
DeleteMessage(h) ==
    LET m == handler[h].message IN
    /\ Deletes(m) \/ Refuses(m) \/ Breaks(m)
    /\ LET ok == m \in chat /\ UNCHANGED faults IN
       \/ At(h, "drop") /\ Rest(h)
       \/ At(h, "hold") /\ Goto(h, IF ok THEN "mark" ELSE "fail")
       \/ At(h, "delete") /\ Goto(h, IF ok THEN "mark" ELSE "retry")
       \/ /\ At(h, "purge")
          /\ handler' = [handler EXCEPT ![h] =
                [@ EXCEPT !.pc = "send", !.deleted = IF ok THEN "yes" ELSE "no"]]
    /\ UNCHANGED <<database, starter, cleaner, reachable, posted,
                   shown, strays, updates, starts, crashes>>

(* _mark_deleted, _event_failed and _deletion_failed *)
MarkDeleted(h) ==
    /\ At(h, "mark")
    /\ SetStatus(handler[h].message, "completed")
    /\ Go(h, IF handler[h].action = "delete" THEN "reserve" ELSE "idle")
    /\ UNCHANGED <<user, gate, cleanup, starter, cleaner, telegram, shown, strays, bounds>>

EventFailed(h) ==
    /\ At(h, "fail")
    /\ SetStatus(handler[h].message, "failed")
    /\ Rest(h)
    /\ UNCHANGED <<user, gate, cleanup, starter, cleaner, telegram, shown, strays, bounds>>

DeletionFailed(h) ==
    /\ At(h, "retry")
    /\ SetEvent(handler[h].message,
                [action |-> "retry_delete", status |-> "failed", age |-> Old])
    /\ Rest(h)
    /\ UNCHANGED <<user, gate, cleanup, starter, cleaner, telegram, shown, strays, bounds>>

(* _reserve_notice.  A reservation without a notice expires early.         *)
FaultyReserved == gate.age < HoldTtl
Reserved == gate.age < (IF gate.notice = None THEN HoldTtl ELSE NoticeTtl)

ReserveNotice(h) ==
    /\ At(h, "reserve")
    /\ \/ /\ Reserved
          /\ Go(h, IF handler[h].action = "warn" THEN "complete" ELSE "idle")
          /\ UNCHANGED gate
       \/ /\ ~Reserved
          /\ gate' = [gate EXCEPT !.by = h, !.age = 0]
          /\ handler' = [handler EXCEPT ![h] =
                [@ EXCEPT !.pc = IF handler[h].action = "warn" THEN "purge" ELSE "send",
                          !.previous = gate.notice]]
    /\ UNCHANGED <<user, event, cleanup, starter, cleaner, telegram, shown, strays, bounds>>

(* send_message.  If the answer is lost the notice may be in the group.    *)
(* Message ids that nothing refers to any more serve again.                *)
Unused(n) ==
    /\ n \notin chat \cup cleanup \cup {gate.notice, starter.notice}
    /\ \A h \in Handlers : n \notin {handler[h].notice, handler[h].previous}
    /\ \A b \in Bots : n \notin cleaner[b].todo \cup {cleaner[b].notice}

SendNotice(h) ==
    /\ At(h, "send")
    /\ \E n \in Notices : Unused(n)
    /\ LET n == CHOOSE n \in Notices : Unused(n) IN
       \/ /\ chat' = chat \cup {n}
          /\ handler' = [handler EXCEPT ![h] = [@ EXCEPT !.pc = "record", !.notice = n]]
          /\ strays' = strays \ {n}
          /\ UNCHANGED faults
       \/ /\ Fault
          /\ \/ UNCHANGED <<chat, strays>>
             \/ chat' = chat \cup {n} /\ strays' = strays \cup {n}
          /\ Goto(h, "release")
    /\ UNCHANGED <<database, starter, cleaner, reachable, posted, shown, updates, starts, crashes>>

(* _release_notice, then _warning_failed *)
ReleaseNotice(h) ==
    /\ At(h, "release")
    /\ gate' = IF gate.by = h THEN [gate EXCEPT !.by = None, !.age = NoticeTtl] ELSE gate
    /\ Go(h, IF handler[h].action = "warn" THEN "undo" ELSE "idle")
    /\ UNCHANGED <<user, event, cleanup, starter, cleaner, telegram, shown, strays, bounds>>

WarningFailed(h) ==
    /\ At(h, "undo")
    /\ SettleWarning(handler[h].message, "failed")
    /\ gate' = [gate EXCEPT !.pending = Old]
    /\ Rest(h)
    /\ UNCHANGED <<user, cleanup, starter, cleaner, telegram, shown, strays, bounds>>

(* _record_notice.  A notice that comes too late, because the member has   *)
(* started the bot or the reservation has gone to another handler, is      *)
(* taken back.                                                             *)
AfterNotice(h) == IF handler[h].action = "warn" THEN "complete" ELSE "idle"

FaultyRecordNotice(h) ==
    /\ At(h, "record")
    /\ gate' = [gate EXCEPT !.notice = handler[h].notice, !.left = NoticeTtl + HoldTtl - gate.age]
    /\ Goto(h, AfterNotice(h))
    /\ UNCHANGED <<user, event, cleanup, starter, cleaner, telegram, shown, strays, bounds>>

RecordNotice(h) ==
    /\ At(h, "record")
    /\ \/ /\ Allowed \/ gate.by # h
          /\ Goto(h, "retract")
          /\ UNCHANGED <<gate, shown>>
       \/ /\ ~Allowed /\ gate.by = h
          /\ gate' = [gate EXCEPT !.notice = handler[h].notice, !.left = NoticeTtl - gate.age]
          /\ shown' = gate.age
          /\ Go(h, IF handler[h].previous = None THEN AfterNotice(h) ELSE "replace")
    /\ UNCHANGED <<user, event, cleanup, starter, cleaner, telegram, strays, bounds>>

FaultyRetractNotice(h) ==
    /\ At(h, "retract")
    /\ \/ Deletes(handler[h].notice) \/ Breaks(handler[h].notice)
    /\ Go(h, AfterNotice(h))
    /\ UNCHANGED <<database, starter, cleaner, reachable, posted,
                   shown, strays, updates, starts, crashes>>

RetractNotice(h) ==
    LET n == handler[h].notice IN
    /\ At(h, "retract")
    /\ \/ Deletes(n) /\ Go(h, AfterNotice(h))
       \/ (Refuses(n) \/ Breaks(n)) /\ Goto(h, "queue")
    /\ UNCHANGED <<database, starter, cleaner, reachable, posted,
                   shown, strays, updates, starts, crashes>>

(* _queue_notice_cleanup *)
QueueCleanup(h) ==
    /\ At(h, "queue")
    /\ cleanup' = cleanup \cup {handler[h].notice}
    /\ Go(h, AfterNotice(h))
    /\ UNCHANGED <<user, gate, event, starter, cleaner, telegram, shown, strays, bounds>>

(* The notice that was replaced is deleted; a failure is passed over.      *)
ReplaceNotice(h) ==
    LET n == handler[h].previous IN
    /\ At(h, "replace")
    /\ \/ Deletes(n) /\ UNCHANGED strays
       \/ Refuses(n) /\ UNCHANGED strays
       \/ Breaks(n) /\ strays' = strays \cup ({n} \cap chat')
    /\ Go(h, AfterNotice(h))
    /\ UNCHANGED <<database, starter, cleaner, reachable, posted,
                   shown, updates, starts, crashes>>

(* _warning_completed; the event is settled once more if the message of    *)
(* the member was dealt with.                                              *)
FaultyWarningCompleted(h) ==
    /\ At(h, "complete")
    /\ SettleWarning(handler[h].message, "completed")
    /\ gate' = [gate EXCEPT !.pending = Old, !.warned = TRUE]
    /\ Rest(h)
    /\ UNCHANGED <<user, cleanup, starter, cleaner, telegram, shown, strays, bounds>>

WarningCompleted(h) ==
    /\ At(h, "complete")
    /\ SettleWarning(handler[h].message, "completed")
    /\ gate' = [gate EXCEPT !.pending = Old, !.warned = ~Allowed]
    /\ Go(h, CASE handler[h].deleted = "yes" -> "mark"
               [] handler[h].deleted = "no" -> "retry"
               [] OTHER -> "idle")
    /\ UNCHANGED <<user, cleanup, starter, cleaner, telegram, shown, strays, bounds>>

MessageStep(h) ==
    \/ CheckLive(h) \/ Touch(h) \/ PrepareDecision(h)
    \/ DeleteMessage(h) \/ MarkDeleted(h) \/ EventFailed(h) \/ DeletionFailed(h)
    \/ ReserveNotice(h) \/ SendNotice(h) \/ ReleaseNotice(h) \/ WarningFailed(h)
    \/ RecordNotice(h) \/ RetractNotice(h) \/ QueueCleanup(h) \/ ReplaceNotice(h)
    \/ WarningCompleted(h)

-------------------------------------------------------------------------------
(* BotStartGateMiddleware on a private message, and send_welcome *)

PrivateMessage ==
    /\ starter.pc = "idle"
    /\ starts < MaxStarts
    /\ starts' = starts + 1
    /\ reachable' = TRUE
    /\ starter' = [starter EXCEPT !.pc = "mark"]
    /\ UNCHANGED <<database, handler, cleaner, chat, posted, shown, strays,
                   updates, faults, crashes>>

(* mark_user_started, by the middleware and, for /start, by send_welcome   *)
(* too, which leaves the notices alone.                                    *)
MarkUserStarted ==
    /\ starter.pc \in {"mark", "again"}
    /\ user' = [started |-> TRUE, blocked |-> FALSE]
    /\ gate' = [gate EXCEPT !.pending = Old, !.warned = FALSE, !.by = None, !.age = NoticeTtl]
    /\ event' = [m \in Messages |->
            IF event[m].status = "pending" THEN Settled(event[m], "completed") ELSE event[m]]
    /\ shown' = NoticeTtl
    /\ starter' = IF starter.pc = "again" THEN NotStarting
                  ELSE IF gate.notice = None THEN [starter EXCEPT !.pc = "again"]
                  ELSE [pc |-> "clear", notice |-> gate.notice]
    /\ UNCHANGED <<cleanup, handler, cleaner, telegram, strays, bounds>>

(* clear_warning, by the bot that got the private message *)
ClearWarning ==
    /\ starter.pc = "clear"
    /\ \E b \in Bots :
       \/ /\ DeletesFor(b, starter.notice)
          /\ starter' = [starter EXCEPT !.pc = "forget"]
       \/ /\ RefusesTo(b, starter.notice) \/ BreaksFor(b, starter.notice)
          /\ starter' = [pc |-> "again", notice |-> None]
    /\ UNCHANGED <<database, handler, cleaner, reachable, posted,
                   shown, strays, updates, starts, crashes>>

(* clear_notice_record *)
Forget(n) ==
    gate' = IF gate.notice = n THEN [gate EXCEPT !.notice = None, !.left = 0] ELSE gate

ForgetWarning ==
    /\ starter.pc = "forget"
    /\ Forget(starter.notice)
    /\ starter' = [pc |-> "again", notice |-> None]
    /\ UNCHANGED <<user, event, cleanup, handler, cleaner, telegram, shown, strays, bounds>>

(* Only /start leads to send_welcome.                                      *)
NoCommand ==
    /\ starter.pc = "again"
    /\ starter' = NotStarting
    /\ UNCHANGED <<database, handler, cleaner, telegram, shown, strays, bounds>>

StarterStep == MarkUserStarted \/ ClearWarning \/ ForgetWarning \/ NoCommand

-------------------------------------------------------------------------------
(* cleanup_due_notices, once a second in the loop of each bot *)

Move(b, loop) == cleaner' = [cleaner EXCEPT ![b] = loop]

Drain(todo) ==
    IF todo = {} THEN Resting ELSE [pc |-> "drain", notice |-> None, todo |-> todo]

(* _due_notices, and _due_notice_cleanup_events if none is due             *)
CleanerLooks(b) ==
    /\ cleaner[b].pc = "rest"
    /\ IF gate.notice # None /\ gate.left = 0
       THEN Move(b, [pc |-> "expire", notice |-> gate.notice, todo |-> {}])
       ELSE cleanup # {} /\ Move(b, Drain(cleanup))
    /\ UNCHANGED <<database, handler, starter, telegram, shown, strays, bounds>>

(* A TelegramBadRequest counts as a deletion, although Telegram gives the  *)
(* same answer to a bot that is not in the group.                          *)
CountsAsDeleted(b, n) == DeletesFor(b, n) \/ RefusesTo(b, n)

CleanerExpires(b) ==
    LET c == cleaner[b] IN
    /\ c.pc = "expire"
    /\ \/ CountsAsDeleted(b, c.notice) /\ Move(b, [c EXCEPT !.pc = "clear"])
       \/ BreaksFor(b, c.notice) /\ Move(b, Sweeping)
    /\ UNCHANGED <<database, handler, starter, reachable, posted,
                   shown, strays, updates, starts, crashes>>

(* What a bot that is not in the group strikes off is lost if it is there. *)
Loses(b, struck) == strays' = strays \cup (IF b \in Outsiders THEN struck \cap chat ELSE {})

(* clear_notice_record *)
CleanerClears(b) ==
    LET c == cleaner[b] IN
    /\ c.pc = "clear"
    /\ Forget(c.notice)
    /\ Loses(b, {c.notice} \cap {gate.notice})
    /\ Move(b, Sweeping)
    /\ UNCHANGED <<user, event, cleanup, handler, starter, telegram, shown, bounds>>

(* _due_notice_cleanup_events *)
CleanerSweeps(b) ==
    /\ cleaner[b].pc = "sweep"
    /\ Move(b, Drain(cleanup))
    /\ UNCHANGED <<database, handler, starter, telegram, shown, strays, bounds>>

CleanerDrains(b) ==
    LET c == cleaner[b] IN
    /\ c.pc = "drain"
    /\ \E n \in c.todo :
       \/ CountsAsDeleted(b, n) /\ Move(b, [c EXCEPT !.pc = "settle", !.notice = n])
       \/ BreaksFor(b, n) /\ Move(b, Drain(c.todo \ {n}))
    /\ UNCHANGED <<database, handler, starter, reachable, posted,
                   shown, strays, updates, starts, crashes>>

(* _complete_notice_cleanup_event *)
CleanerSettles(b) ==
    LET c == cleaner[b] IN
    /\ c.pc = "settle"
    /\ cleanup' = cleanup \ {c.notice}
    /\ Loses(b, {c.notice} \cap cleanup)
    /\ Move(b, Drain(c.todo \ {c.notice}))
    /\ UNCHANGED <<user, gate, event, handler, starter, telegram, shown, bounds>>

CleanerStep(b) ==
    \/ CleanerLooks(b) \/ CleanerExpires(b) \/ CleanerClears(b)
    \/ CleanerSweeps(b) \/ CleanerDrains(b) \/ CleanerSettles(b)

-------------------------------------------------------------------------------
(* The member blocks the bot in private. *)
Block ==
    /\ reachable
    /\ reachable' = FALSE
    /\ UNCHANGED <<database, process, chat, posted, shown, strays, bounds>>

Older(age, limit) == IF age < limit THEN age + 1 ELSE limit

Tick ==
    /\ gate' = [gate EXCEPT !.pending = Older(@, Old), !.age = Older(@, NoticeTtl),
                            !.left = IF @ > 0 THEN @ - 1 ELSE 0]
    /\ event' = [m \in Messages |-> [event[m] EXCEPT !.age = Older(@, Old)]]
    /\ shown' = Older(shown, NoticeTtl)
    /\ UNCHANGED <<user, cleanup, process, telegram, strays, bounds>>

(* The process dies; another one is started.  A notice that only a handler *)
(* knew of is lost.                                                        *)
Held(h) ==
    CASE handler[h].pc \in {"record", "retract", "queue"} -> {handler[h].notice}
      [] handler[h].pc = "replace" -> {handler[h].previous}
      [] OTHER -> {}

Crash ==
    /\ crashes < MaxCrashes
    /\ crashes' = crashes + 1
    /\ handler' = [h \in Handlers |-> Idle]
    /\ starter' = NotStarting
    /\ cleaner' = [b \in Bots |-> Resting]
    /\ strays' = strays \cup (chat \cap UNION {Held(h) : h \in Handlers})
    /\ UNCHANGED <<database, telegram, shown, updates, starts, faults>>

Next ==
    \/ \E h \in Handlers : MessageStep(h) \/ \E m \in Messages : Receive(h, m)
    \/ PrivateMessage \/ StarterStep
    \/ \E b \in Bots : CleanerStep(b)
    \/ Block \/ Tick \/ Crash

Spec == Init /\ [][Next]_vars

-------------------------------------------------------------------------------
(* As long as the row of the member says started, it does not say blocked, *)
(* no message waits for a decision, and neither a warning under way nor a  *)
(* settled one counts, although the handlers decide, reserve and settle in *)
(* separate transactions.  It says nothing of a member whose row has been  *)
(* set back by the late answer to a check that was made while the bot was  *)
(* still blocked (CheckLive, Touch): that member is gated again.           *)
StartedIsClean ==
    user.started =>
        /\ ~user.blocked
        /\ \A m \in Messages : event[m].status # "pending"
        /\ gate.pending = Old
        /\ ~gate.warned

(* No notice is reserved within three minutes of the reservation of the    *)
(* notice recorded last, unless the member has started the bot since:      *)
(* slow handlers, releases, retractions and the cleanup do not undo the    *)
(* pause between two notices.                                              *)
NoticesSpaced ==
    [][gate'.by # None /\ gate'.age = 0 /\ (gate.by # gate'.by \/ gate.age # 0)
        => shown = NoticeTtl]_vars

(* Every notice in the group is known to the database, which has it        *)
(* deleted later, or to the handler that is about to record or delete it.  *)
(* The code loses hold of one only when the answer to its sending is lost, *)
(* when the deletion of a replaced notice fails, when the process dies, or *)
(* when the cleanup loop of a bot that is not in the group takes Telegram's*)
(* refusal for a deletion.                                                 *)
LiveNoticeOwned ==
    \A n \in Notices \cap chat :
        \/ n = gate.notice
        \/ n \in cleanup
        \/ \E h \in Handlers : n \in Held(h)
        \/ n \in strays

===============================================================================
