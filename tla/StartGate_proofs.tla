---------------------------- MODULE StartGate_proofs ----------------------------
(***************************************************************************)
(* A member who has started the bot is clean, for any number of messages,  *)
(* handlers and bots, and while every bot is in the group no notice is     *)
(* left in it that the code has not lost in one of the ways it accepts.    *)
(* Two notices are three minutes apart whatever the tasks do in between.   *)
(***************************************************************************)
EXTENDS StartGate, TLAPS

(***************************************************************************)
(* What a handler or the gate's row can be turned into.                    *)
(***************************************************************************)

(* A handler that is to record, retract or queue a notice has sent it.     *)
HasNotice(s) == s.pc \in {"record", "retract", "queue"} => s.notice \in Notices
Placed == \A h \in Handlers : HasNotice(handler[h])

LEMMA HandlerTyped ==
    ASSUME handler \in [Handlers -> HandlerState], Placed, NEW h \in Handlers,
           NEW s \in HandlerState, HasNotice(s),
           handler' = [handler EXCEPT ![h] = s]
    PROVE  handler' \in [Handlers -> HandlerState] /\ Placed'
BY DEF Placed, HasNotice

LEMMA IdleTyped == Idle \in HandlerState /\ HasNotice(Idle)
BY DEF Idle, HandlerState, HandlerPc, Action, MaybeNotice, HasNotice

LEMMA RestTyped ==
    ASSUME handler \in [Handlers -> HandlerState], Placed, NEW h \in Handlers, Rest(h)
    PROVE  handler' \in [Handlers -> HandlerState] /\ Placed'
BY IdleTyped, HandlerTyped DEF Rest

LEMMA GotoTyped ==
    ASSUME handler \in [Handlers -> HandlerState], Placed, NEW h \in Handlers,
           NEW pc \in HandlerPc, Goto(h, pc),
           pc \in {"record", "retract", "queue"} => handler[h].notice \in Notices
    PROVE  handler' \in [Handlers -> HandlerState] /\ Placed'
<1> DEFINE s == [handler[h] EXCEPT !.pc = pc]
<1>1. handler[h] \in HandlerState
  OBVIOUS
<1>2. s \in HandlerState /\ s.pc = pc /\ s.notice = handler[h].notice
  BY <1>1 DEF HandlerState
<1>3. HasNotice(s)
  BY <1>2 DEF HasNotice
<1>4. handler' = [handler EXCEPT ![h] = s]
  BY DEF Goto
<1> HIDE DEF s
<1> QED BY <1>2, <1>3, <1>4, HandlerTyped

LEMMA GoTyped ==
    ASSUME handler \in [Handlers -> HandlerState], Placed, NEW h \in Handlers,
           NEW pc \in HandlerPc, Go(h, pc),
           pc \notin {"record", "retract", "queue"}
    PROVE  handler' \in [Handlers -> HandlerState] /\ Placed'
BY RestTyped, GotoTyped DEF Go

(* The rows of the gate and of the events.                                 *)
LEMMA RowTyped ==
    ASSUME NEW row \in GateRow
    PROVE  /\ \A p \in 0 .. Old : [row EXCEPT !.pending = p] \in GateRow
           /\ \A w \in BOOLEAN : [row EXCEPT !.warned = w] \in GateRow
           /\ \A b \in Handlers \cup {None} : [row EXCEPT !.by = b] \in GateRow
           /\ \A a \in 0 .. NoticeTtl : [row EXCEPT !.age = a] \in GateRow
           /\ \A n \in MaybeNotice : [row EXCEPT !.notice = n] \in GateRow
           /\ \A l \in 0 .. NoticeTtl : [row EXCEPT !.left = l] \in GateRow
BY DEF GateRow

LEMMA ConstantsTyped ==
    /\ HoldTtl \in Nat /\ HoldTtl > 0
    /\ NoticeTtl \in Nat /\ NoticeTtl > HoldTtl
    /\ Old \in Nat /\ 0 \in 0 .. Old /\ Old \in 0 .. Old
    /\ 0 \in 0 .. NoticeTtl /\ NoticeTtl \in 0 .. NoticeTtl
BY GateAssumption DEF Old

LEMMA SettledTyped ==
    ASSUME NEW e \in EventRow, NEW status \in Status
    PROVE  Settled(e, status) \in EventRow /\ Settled(e, status).status = status
BY ConstantsTyped DEF Settled, EventRow

(* The event of a message in the table, and the table after a change of it.*)
LEMMA EventTyped ==
    ASSUME event \in [Messages -> EventRow], NEW m, NEW e \in EventRow, SetEvent(m, e)
    PROVE  event' \in [Messages -> EventRow]
BY DEF SetEvent

LEMMA SettleWarningTyped ==
    ASSUME event \in [Messages -> EventRow], NEW m, NEW status \in Status,
           SettleWarning(m, status)
    PROVE  event' \in [Messages -> EventRow]
<1>1. \A x \in Messages : Settled(event[x], status) \in EventRow
                          /\ Settled(event[x], "failed") \in EventRow
  BY SettledTyped DEF Status
<1> QED BY <1>1 DEF SettleWarning

-------------------------------------------------------------------------------
(***************************************************************************)
(* Types.  Every action keeps TypeOK, with Placed.                         *)
(***************************************************************************)
Typed == TypeOK /\ Placed

LEMMA InitTyped == Init => Typed
<1> SUFFICES ASSUME Init PROVE Typed
  OBVIOUS
<1>1. gate \in GateRow
  BY ConstantsTyped DEF Init, GateRow, MaybeNotice
<1>2. event \in [Messages -> EventRow]
  BY ConstantsTyped DEF Init, EventRow, Action, Status
<1>3. handler \in [Handlers -> HandlerState] /\ Placed
  BY IdleTyped DEF Init, Placed
<1>4. /\ starter \in [pc: StarterPc, notice: MaybeNotice]
      /\ cleaner \in [Bots -> CleanerState]
  <2>1. Resting \in CleanerState
    BY DEF Resting, CleanerPc, CleanerState, MaybeNotice
  <2>2. NotStarting \in [pc: StarterPc, notice: MaybeNotice]
    BY DEF NotStarting, StarterPc, MaybeNotice
  <2>3. cleaner = [b \in Bots |-> Resting] /\ starter = NotStarting
    BY DEF Init
  <2>4. cleaner \in [Bots -> CleanerState]
    BY <2>1, <2>3
  <2> QED BY <2>2, <2>3, <2>4
<1>5. user \in [started: BOOLEAN, blocked: BOOLEAN]
  BY DEF Init
<1>6. /\ cleanup \subseteq Notices /\ chat \subseteq Messages \cup Notices
      /\ reachable \in BOOLEAN /\ posted \subseteq Messages
      /\ shown \in 0 .. NoticeTtl /\ strays \subseteq Notices
      /\ updates \in 0 .. MaxUpdates /\ starts \in 0 .. MaxStarts
      /\ faults \in 0 .. MaxFaults /\ crashes \in 0 .. MaxCrashes
  <2>1. \A n \in Nat : 0 \in 0 .. n
    OBVIOUS
  <2>2. MaxUpdates \in Nat /\ MaxStarts \in Nat /\ MaxFaults \in Nat /\ MaxCrashes \in Nat
    BY GateAssumption
  <2> QED BY <2>1, <2>2, ConstantsTyped DEF Init
<1> QED BY <1>1, <1>2, <1>3, <1>4, <1>5, <1>6 DEF Typed, TypeOK

(* What the outcomes of a call of Telegram do to the chat and the bound.   *)
LEMMA CallTyped ==
    ASSUME TypeOK, NEW x, Deletes(x) \/ Refuses(x) \/ Breaks(x)
    PROVE  chat' \subseteq Messages \cup Notices /\ faults' \in 0 .. MaxFaults
BY GateAssumption DEF Deletes, Refuses, Breaks, Fault, TypeOK

LEMMA CallForTyped ==
    ASSUME TypeOK, NEW b, NEW x, DeletesFor(b, x) \/ RefusesTo(b, x) \/ BreaksFor(b, x)
    PROVE  chat' \subseteq Messages \cup Notices /\ faults' \in 0 .. MaxFaults
BY CallTyped DEF DeletesFor, RefusesTo, BreaksFor, TypeOK

LEMMA ReceiveTyped ==
    ASSUME Typed, NEW h \in Handlers, NEW m \in Messages, Receive(h, m)
    PROVE  Typed'
<1> DEFINE s == [Idle EXCEPT !.pc = IF user.started THEN "live" ELSE "decide", !.message = m]
<1>1. s \in HandlerState /\ HasNotice(s)
  BY DEF Idle, HandlerState, HandlerPc, Action, MaybeNotice, HasNotice
<1>2. handler' = [handler EXCEPT ![h] = s]
  BY DEF Receive
<1> HIDE DEF s
<1>3. handler' \in [Handlers -> HandlerState] /\ Placed'
  BY <1>1, <1>2, HandlerTyped DEF Typed, TypeOK
<1>4. updates' \in 0 .. MaxUpdates /\ chat' \subseteq Messages \cup Notices
      /\ posted' \subseteq Messages
  BY GateAssumption DEF Receive, Typed, TypeOK
<1> QED BY <1>3, <1>4 DEF Typed, TypeOK, Receive, database

LEMMA CheckLiveTyped ==
    ASSUME Typed, NEW h \in Handlers, CheckLive(h)
    PROVE  Typed'
<1>1. handler' \in [Handlers -> HandlerState] /\ Placed'
  <2>1. CASE Goto(h, "touchReachable")
    BY <2>1, GotoTyped DEF Typed, TypeOK, HandlerPc
  <2>2. CASE Goto(h, "touchBlocked")
    BY <2>2, GotoTyped DEF Typed, TypeOK, HandlerPc
  <2>3. CASE Rest(h)
    BY <2>3, RestTyped DEF Typed, TypeOK
  <2> QED BY <2>1, <2>2, <2>3 DEF CheckLive
<1>2. faults' \in 0 .. MaxFaults
  BY GateAssumption DEF CheckLive, Fault, Typed, TypeOK
<1> QED BY <1>1, <1>2 DEF Typed, TypeOK, CheckLive, database, telegram

LEMMA TouchTyped ==
    ASSUME Typed, NEW h \in Handlers, Touch(h)
    PROVE  Typed'
<1>1. handler' \in [Handlers -> HandlerState] /\ Placed'
  <2>1. CASE Goto(h, "decide")
    BY <2>1, GotoTyped DEF Typed, TypeOK, HandlerPc
  <2>2. CASE Rest(h)
    BY <2>2, RestTyped DEF Typed, TypeOK
  <2> QED BY <2>1, <2>2 DEF Touch
<1>2. user' \in [started: BOOLEAN, blocked: BOOLEAN]
  <2>1. [started |-> FALSE, blocked |-> TRUE] \in [started: BOOLEAN, blocked: BOOLEAN]
    OBVIOUS
  <2>2. user \in [started: BOOLEAN, blocked: BOOLEAN]
    BY DEF Typed, TypeOK
  <2>3. [user EXCEPT !.blocked = FALSE] \in [started: BOOLEAN, blocked: BOOLEAN]
    BY <2>2
  <2> QED BY <2>1, <2>3 DEF Touch
<1> QED BY <1>1, <1>2 DEF Typed, TypeOK, Touch, telegram, bounds

LEMMA PrepareDecisionTyped ==
    ASSUME Typed, NEW h \in Handlers, PrepareDecision(h)
    PROVE  Typed'
<1>1. Decision \in {"hold", "warn", "delete"}
  BY DEF Decision
<1>2. /\ handler' \in [Handlers -> HandlerState] /\ Placed'
      /\ event' \in [Messages -> EventRow]
      /\ gate' \in GateRow
  <2>1. CASE Rest(h) /\ UNCHANGED <<gate, event>>
    BY <2>1, RestTyped DEF Typed, TypeOK
  <2>2. CASE /\ Go(h, IF handler[h].message \in Album THEN "drop" ELSE "idle")
             /\ UNCHANGED <<gate, event>>
    BY <2>2, GoTyped DEF Typed, TypeOK, HandlerPc
  <2>3. CASE Undecided(event[EventOf(handler[h].message)]) /\ ~Allowed
    <3> DEFINE s == [handler[h] EXCEPT !.pc = FirstStep[Decision], !.action = Decision]
    <3>1. s \in HandlerState /\ HasNotice(s)
      <4>1. handler[h] \in HandlerState
        BY DEF Typed, TypeOK
      <4>2. FirstStep[Decision] \in {"hold", "reserve", "delete"}
        BY <1>1 DEF FirstStep
      <4> QED BY <1>1, <4>1, <4>2 DEF HandlerState, HandlerPc, Action, HasNotice
    <3>2. handler' = [handler EXCEPT ![h] = s]
      BY <2>3 DEF PrepareDecision
    <3> HIDE DEF s
    <3>3. handler' \in [Handlers -> HandlerState] /\ Placed'
      BY <3>1, <3>2, HandlerTyped DEF Typed, TypeOK
    <3>4. event' \in [Messages -> EventRow]
      <4>1. [action |-> Decision, status |-> "pending", age |-> 0] \in EventRow
        BY <1>1, ConstantsTyped DEF EventRow, Action, Status
      <4> QED BY <2>3, <4>1, EventTyped DEF PrepareDecision, Typed, TypeOK
    <3>5. gate' \in GateRow
      <4>1. PICK p : /\ p \in {gate.pending, 0, Old}
                     /\ gate' = [gate EXCEPT !.pending = p]
        BY <2>3, <1>1 DEF PrepareDecision
      <4>2. p \in 0 .. Old /\ gate \in GateRow
        BY <4>1, ConstantsTyped DEF Typed, TypeOK, GateRow
      <4> QED BY <4>1, <4>2, RowTyped
    <3> QED BY <3>3, <3>4, <3>5
  <2> QED BY <2>1, <2>2, <2>3 DEF PrepareDecision
<1> QED BY <1>2 DEF Typed, TypeOK, PrepareDecision, telegram, bounds

LEMMA DeleteMessageTyped ==
    ASSUME Typed, NEW h \in Handlers, DeleteMessage(h)
    PROVE  Typed'
<1>1. chat' \subseteq Messages \cup Notices /\ faults' \in 0 .. MaxFaults
  BY CallTyped DEF DeleteMessage, Typed
<1>2. handler' \in [Handlers -> HandlerState] /\ Placed'
  <2>1. CASE Rest(h)
    BY <2>1, RestTyped DEF Typed, TypeOK
  <2>2. CASE \E pc \in {"mark", "fail", "retry"} : Goto(h, pc)
    BY <2>2, GotoTyped DEF Typed, TypeOK, HandlerPc
  <2>3. CASE \E d \in {"yes", "no"} : handler' = [handler EXCEPT ![h] =
                                        [@ EXCEPT !.pc = "send", !.deleted = d]]
    <3>1. PICK d \in {"yes", "no"} : handler' = [handler EXCEPT ![h] =
                                        [@ EXCEPT !.pc = "send", !.deleted = d]]
      BY <2>3
    <3> DEFINE s == [handler[h] EXCEPT !.pc = "send", !.deleted = d]
    <3>2. s \in HandlerState /\ HasNotice(s)
      <4>1. handler[h] \in HandlerState
        BY DEF Typed, TypeOK
      <4> QED BY <4>1 DEF HandlerState, HandlerPc, HasNotice
    <3>3. handler' = [handler EXCEPT ![h] = s]
      BY <3>1
    <3> HIDE DEF s
    <3> QED BY <3>2, <3>3, HandlerTyped DEF Typed, TypeOK
  <2> QED BY <2>1, <2>2, <2>3 DEF DeleteMessage
<1> QED BY <1>1, <1>2 DEF Typed, TypeOK, DeleteMessage, database

LEMMA MarkDeletedTyped ==
    ASSUME Typed, NEW h \in Handlers, MarkDeleted(h) \/ EventFailed(h) \/ DeletionFailed(h)
    PROVE  Typed'
<1> DEFINE m == handler[h].message
<1>1. handler' \in [Handlers -> HandlerState] /\ Placed'
  <2>1. CASE \E pc \in {"reserve", "idle"} : Go(h, pc)
    BY <2>1, GoTyped DEF Typed, TypeOK, HandlerPc
  <2>2. CASE Rest(h)
    BY <2>2, RestTyped DEF Typed, TypeOK
  <2> QED BY <2>1, <2>2 DEF MarkDeleted, EventFailed, DeletionFailed
<1>2. event' \in [Messages -> EventRow]
  <2>1. ASSUME NEW status \in Status, SetStatus(m, status)
        PROVE  event' \in [Messages -> EventRow]
    <3>1. CASE EventOf(m) \in Messages
      <4>1. Settled(event[EventOf(m)], status) \in EventRow
        BY <3>1, SettledTyped DEF Typed, TypeOK
      <4> QED BY <2>1, <4>1, EventTyped DEF SetStatus, Typed, TypeOK
    <3>2. CASE EventOf(m) \notin Messages
      BY <2>1, <3>2 DEF SetStatus, SetEvent, Typed, TypeOK
    <3> QED BY <3>1, <3>2
  <2>2. [action |-> "retry_delete", status |-> "failed", age |-> Old] \in EventRow
    BY ConstantsTyped DEF EventRow, Action, Status
  <2>3. CASE DeletionFailed(h)
    BY <2>2, <2>3, EventTyped DEF DeletionFailed, Typed, TypeOK
  <2>4. CASE MarkDeleted(h)
    BY <2>1, <2>4 DEF MarkDeleted, Status
  <2>5. CASE EventFailed(h)
    BY <2>1, <2>5 DEF EventFailed, Status
  <2> QED BY <2>3, <2>4, <2>5
<1> HIDE DEF m
<1> QED BY <1>1, <1>2 DEF Typed, TypeOK, MarkDeleted, EventFailed, DeletionFailed,
             telegram, bounds

LEMMA ReserveNoticeTyped ==
    ASSUME Typed, NEW h \in Handlers, ReserveNotice(h)
    PROVE  Typed'
<1>1. gate \in GateRow /\ handler[h] \in HandlerState
  BY DEF Typed, TypeOK
<1>2. gate' \in GateRow
  <2>1. [[gate EXCEPT !.by = h] EXCEPT !.age = 0] \in GateRow
    BY <1>1, RowTyped, ConstantsTyped
  <2>2. [gate EXCEPT !.by = h, !.age = 0] = [[gate EXCEPT !.by = h] EXCEPT !.age = 0]
    BY <1>1 DEF GateRow
  <2> QED BY <1>1, <2>1, <2>2 DEF ReserveNotice
<1>3. handler' \in [Handlers -> HandlerState] /\ Placed'
  <2>1. CASE \E pc \in {"complete", "idle"} : Go(h, pc)
    BY <2>1, GoTyped DEF Typed, TypeOK, HandlerPc
  <2>2. CASE \E pc \in {"purge", "send"} : handler' = [handler EXCEPT ![h] =
                [@ EXCEPT !.pc = pc, !.previous = gate.notice]]
    <3>1. PICK pc \in {"purge", "send"} : handler' = [handler EXCEPT ![h] =
                [@ EXCEPT !.pc = pc, !.previous = gate.notice]]
      BY <2>2
    <3> DEFINE s == [handler[h] EXCEPT !.pc = pc, !.previous = gate.notice]
    <3>2. s \in HandlerState /\ HasNotice(s)
      BY <1>1 DEF HandlerState, HandlerPc, HasNotice, GateRow
    <3>3. handler' = [handler EXCEPT ![h] = s]
      BY <3>1
    <3> HIDE DEF s
    <3> QED BY <3>2, <3>3, HandlerTyped DEF Typed, TypeOK
  <2> QED BY <2>1, <2>2 DEF ReserveNotice
<1> QED BY <1>2, <1>3 DEF Typed, TypeOK, ReserveNotice, telegram, bounds

LEMMA SendNoticeTyped ==
    ASSUME Typed, NEW h \in Handlers, SendNotice(h)
    PROVE  Typed'
<1> DEFINE n == CHOOSE n \in Notices : Unused(n)
<1>1. n \in Notices
  BY DEF SendNotice
<1>2. /\ \/ handler' = [handler EXCEPT ![h] = [@ EXCEPT !.pc = "record", !.notice = n]]
         \/ Goto(h, "release")
      /\ chat' \in {chat, chat \cup {n}} /\ strays' \subseteq strays \cup {n}
      /\ UNCHANGED faults \/ Fault
  BY DEF SendNotice
<1> HIDE DEF n
<1>3. handler' \in [Handlers -> HandlerState] /\ Placed'
  <2>1. CASE Goto(h, "release")
    BY <2>1, GotoTyped DEF Typed, TypeOK, HandlerPc
  <2>2. CASE handler' = [handler EXCEPT ![h] = [@ EXCEPT !.pc = "record", !.notice = n]]
    <3> DEFINE s == [handler[h] EXCEPT !.pc = "record", !.notice = n]
    <3>1. s \in HandlerState /\ HasNotice(s)
      <4>1. handler[h] \in HandlerState
        BY DEF Typed, TypeOK
      <4> QED BY <1>1, <4>1 DEF HandlerState, HandlerPc, HasNotice, MaybeNotice
    <3>2. handler' = [handler EXCEPT ![h] = s]
      BY <2>2
    <3> HIDE DEF s
    <3> QED BY <3>1, <3>2, HandlerTyped DEF Typed, TypeOK
  <2> QED BY <1>2, <2>1, <2>2
<1>4. /\ chat' \subseteq Messages \cup Notices /\ strays' \subseteq Notices
      /\ faults' \in 0 .. MaxFaults
  BY <1>1, <1>2, GateAssumption DEF Fault, Typed, TypeOK
<1> QED BY <1>3, <1>4 DEF Typed, TypeOK, SendNotice, database

LEMMA ReleaseNoticeTyped ==
    ASSUME Typed, NEW h \in Handlers, ReleaseNotice(h)
    PROVE  Typed'
<1>1. handler' \in [Handlers -> HandlerState] /\ Placed'
  <2>1. PICK pc \in {"undo", "idle"} : Go(h, pc)
    BY DEF ReleaseNotice
  <2> QED BY <2>1, GoTyped DEF Typed, TypeOK, HandlerPc
<1>2. gate' \in GateRow
  <2>1. gate \in GateRow
    BY DEF Typed, TypeOK
  <2>2. [gate EXCEPT !.by = None, !.age = NoticeTtl] \in GateRow
    BY <2>1, ConstantsTyped DEF GateRow
  <2> QED BY <2>1, <2>2 DEF ReleaseNotice
<1> QED BY <1>1, <1>2 DEF Typed, TypeOK, ReleaseNotice, telegram, bounds

LEMMA WarningSettledTyped ==
    ASSUME Typed, NEW h \in Handlers, WarningFailed(h) \/ WarningCompleted(h)
    PROVE  Typed'
<1>1. handler' \in [Handlers -> HandlerState] /\ Placed'
  <2>1. CASE Rest(h)
    BY <2>1, RestTyped DEF Typed, TypeOK
  <2>2. CASE \E pc \in {"mark", "retry", "idle"} : Go(h, pc)
    BY <2>2, GoTyped DEF Typed, TypeOK, HandlerPc
  <2> QED BY <2>1, <2>2 DEF WarningFailed, WarningCompleted
<1>2. event' \in [Messages -> EventRow]
  BY SettleWarningTyped DEF WarningFailed, WarningCompleted, Status, Typed, TypeOK
<1>3. gate' \in GateRow
  <2>1. gate \in GateRow /\ Allowed \in BOOLEAN
    BY DEF Typed, TypeOK, Allowed
  <2>2. [gate EXCEPT !.pending = Old] \in GateRow
    BY <2>1, RowTyped, ConstantsTyped
  <2>3. \A w \in BOOLEAN : [gate EXCEPT !.pending = Old, !.warned = w] \in GateRow
    BY <2>1, ConstantsTyped DEF GateRow
  <2> QED BY <2>1, <2>2, <2>3 DEF WarningFailed, WarningCompleted
<1> QED BY <1>1, <1>2, <1>3
        DEF Typed, TypeOK, WarningFailed, WarningCompleted, telegram, bounds

LEMMA RecordNoticeTyped ==
    ASSUME Typed, NEW h \in Handlers, RecordNotice(h)
    PROVE  Typed'
<1>1. gate \in GateRow /\ handler[h] \in HandlerState /\ handler[h].notice \in Notices
  BY DEF RecordNotice, At, Typed, TypeOK, Placed, HasNotice
<1>2. handler' \in [Handlers -> HandlerState] /\ Placed'
  <2>1. CASE Goto(h, "retract")
    BY <1>1, <2>1, GotoTyped DEF Typed, TypeOK, HandlerPc
  <2>2. CASE \E pc \in {"complete", "idle", "replace"} : Go(h, pc)
    BY <2>2, GoTyped DEF Typed, TypeOK, HandlerPc
  <2> QED BY <2>1, <2>2 DEF RecordNotice, AfterNotice
<1>3. gate' \in GateRow /\ shown' \in 0 .. NoticeTtl
  <2>1. NoticeTtl - gate.age \in 0 .. NoticeTtl /\ gate.age \in 0 .. NoticeTtl
    BY <1>1, ConstantsTyped DEF GateRow
  <2>2. \A n \in MaybeNotice, l \in 0 .. NoticeTtl :
            [gate EXCEPT !.notice = n, !.left = l] \in GateRow
    BY <1>1 DEF GateRow
  <2>3. handler[h].notice \in MaybeNotice
    BY <1>1 DEF MaybeNotice
  <2>4. [gate EXCEPT !.notice = handler[h].notice, !.left = NoticeTtl - gate.age] \in GateRow
    BY <2>1, <2>2, <2>3
  <2>5. CASE UNCHANGED <<gate, shown>>
    BY <1>1, <2>5 DEF Typed, TypeOK
  <2>6. CASE /\ gate' = [gate EXCEPT !.notice = handler[h].notice,
                                     !.left = NoticeTtl - gate.age]
             /\ shown' = gate.age
    BY <2>1, <2>4, <2>6
  <2> QED BY <2>5, <2>6 DEF RecordNotice
<1> QED BY <1>2, <1>3 DEF Typed, TypeOK, RecordNotice, telegram, bounds

LEMMA RetractNoticeTyped ==
    ASSUME Typed, NEW h \in Handlers, RetractNotice(h) \/ QueueCleanup(h)
    PROVE  Typed'
<1>1. handler[h].notice \in Notices
  BY DEF RetractNotice, QueueCleanup, At, Typed, Placed, HasNotice
<1>2. handler' \in [Handlers -> HandlerState] /\ Placed'
  <2>1. CASE Goto(h, "queue")
    BY <1>1, <2>1, GotoTyped DEF Typed, TypeOK, HandlerPc
  <2>2. CASE \E pc \in {"complete", "idle"} : Go(h, pc)
    BY <2>2, GoTyped DEF Typed, TypeOK, HandlerPc
  <2> QED BY <2>1, <2>2 DEF RetractNotice, QueueCleanup, AfterNotice
<1>3. CASE RetractNotice(h)
  <2>1. chat' \subseteq Messages \cup Notices /\ faults' \in 0 .. MaxFaults
    BY <1>3, CallTyped DEF RetractNotice, Typed
  <2> QED BY <1>2, <1>3, <2>1 DEF Typed, TypeOK, RetractNotice, database
<1>4. CASE QueueCleanup(h)
  BY <1>1, <1>2, <1>4 DEF Typed, TypeOK, QueueCleanup, telegram, bounds
<1> QED BY <1>3, <1>4

LEMMA ReplaceNoticeTyped ==
    ASSUME Typed, NEW h \in Handlers, ReplaceNotice(h)
    PROVE  Typed'
<1>1. handler' \in [Handlers -> HandlerState] /\ Placed'
  <2>1. PICK pc \in {"complete", "idle"} : Go(h, pc)
    BY DEF ReplaceNotice, AfterNotice
  <2> QED BY <2>1, GoTyped DEF Typed, TypeOK, HandlerPc
<1>2. chat' \subseteq Messages \cup Notices /\ faults' \in 0 .. MaxFaults
  BY CallTyped DEF ReplaceNotice, Typed
<1>3. strays' \subseteq Notices
  <2>1. handler[h].previous \in MaybeNotice
    BY DEF Typed, TypeOK, HandlerState
  <2>2. {handler[h].previous} \cap chat' \subseteq Notices
    BY <1>2, <2>1, GateAssumption DEF MaybeNotice
  <2> QED BY <2>2 DEF ReplaceNotice, Typed, TypeOK
<1> QED BY <1>1, <1>2, <1>3 DEF Typed, TypeOK, ReplaceNotice, database

LEMMA MessageStepTyped ==
    ASSUME Typed, NEW h \in Handlers, MessageStep(h)
    PROVE  Typed'
BY CheckLiveTyped, TouchTyped, PrepareDecisionTyped, DeleteMessageTyped, MarkDeletedTyped,
   ReserveNoticeTyped, SendNoticeTyped, ReleaseNoticeTyped, WarningSettledTyped,
   RecordNoticeTyped, RetractNoticeTyped, ReplaceNoticeTyped
   DEF MessageStep

LEMMA ForgetTyped ==
    ASSUME TypeOK, NEW n, Forget(n)
    PROVE  gate' \in GateRow
<1>1. gate \in GateRow
  BY DEF TypeOK
<1>2. [gate EXCEPT !.notice = None, !.left = 0] \in GateRow
  BY <1>1, ConstantsTyped DEF GateRow, MaybeNotice
<1> QED BY <1>1, <1>2 DEF Forget

LEMMA StarterTyped ==
    ASSUME Typed, PrivateMessage \/ StarterStep
    PROVE  Typed'
<1> DEFINE State == [pc: StarterPc, notice: MaybeNotice]
<1>1. starter \in State /\ gate \in GateRow /\ gate.notice \in MaybeNotice
  BY DEF Typed, TypeOK, GateRow
<1>2. NotStarting \in State
  BY DEF NotStarting, StarterPc, MaybeNotice
<1>3. /\ \A pc \in StarterPc : [starter EXCEPT !.pc = pc] \in State
      /\ \A n \in MaybeNotice : [pc |-> "clear", notice |-> n] \in State
      /\ [pc |-> "again", notice |-> None] \in State
  BY <1>1 DEF StarterPc, MaybeNotice
<1>5. CASE PrivateMessage
  <2>1. starter' \in State
    BY <1>3, <1>5 DEF PrivateMessage, StarterPc
  <2>2. starts' \in 0 .. MaxStarts
    BY <1>5, GateAssumption DEF PrivateMessage, Typed, TypeOK
  <2> QED BY <1>5, <2>1, <2>2 DEF Typed, TypeOK, Placed, HasNotice, PrivateMessage, database
<1>6. CASE MarkUserStarted
  <2>1. starter' \in State
    BY <1>1, <1>2, <1>3, <1>6 DEF MarkUserStarted, StarterPc
  <2>2. gate' \in GateRow
    <3>1. [gate EXCEPT !.pending = Old, !.warned = FALSE, !.by = None, !.age = NoticeTtl]
            \in GateRow
      BY <1>1, ConstantsTyped DEF GateRow
    <3> QED BY <1>6, <3>1 DEF MarkUserStarted
  <2>3. event' \in [Messages -> EventRow]
    <3>1. \A m \in Messages : Settled(event[m], "completed") \in EventRow
      BY SettledTyped DEF Status, Typed, TypeOK
    <3>2. event \in [Messages -> EventRow]
      BY DEF Typed, TypeOK
    <3> QED BY <1>6, <3>1, <3>2 DEF MarkUserStarted
  <2>4. user' \in [started: BOOLEAN, blocked: BOOLEAN] /\ shown' \in 0 .. NoticeTtl
    BY <1>6, ConstantsTyped DEF MarkUserStarted
  <2> QED BY <1>6, <2>1, <2>2, <2>3, <2>4
          DEF Typed, TypeOK, Placed, HasNotice, MarkUserStarted, telegram, bounds
<1>7. CASE ClearWarning
  <2>1. starter' \in State
    BY <1>3, <1>7 DEF ClearWarning, StarterPc
  <2>2. chat' \subseteq Messages \cup Notices /\ faults' \in 0 .. MaxFaults
    BY <1>7, CallForTyped DEF ClearWarning, Typed
  <2> QED BY <1>7, <2>1, <2>2 DEF Typed, TypeOK, Placed, HasNotice, ClearWarning, database
<1>8. CASE ForgetWarning
  <2>1. starter' \in State
    BY <1>3, <1>8 DEF ForgetWarning
  <2>2. gate' \in GateRow
    BY <1>8, ForgetTyped DEF ForgetWarning, Typed
  <2> QED BY <1>8, <2>1, <2>2
          DEF Typed, TypeOK, Placed, HasNotice, ForgetWarning, telegram, bounds
<1>9. CASE NoCommand
  BY <1>2, <1>9 DEF Typed, TypeOK, Placed, HasNotice, NoCommand, database, telegram, bounds
<1> QED BY <1>5, <1>6, <1>7, <1>8, <1>9 DEF StarterStep

LEMMA LosesTyped ==
    ASSUME TypeOK, NEW b, NEW struck \in SUBSET MaybeNotice, Loses(b, struck)
    PROVE  strays' \subseteq Notices
BY GateAssumption DEF Loses, TypeOK, MaybeNotice

LEMMA CleanerTyped ==
    ASSUME Typed, NEW b \in Bots, CleanerStep(b)
    PROVE  Typed'
<1>1. cleaner \in [Bots -> CleanerState] /\ cleaner[b] \in CleanerState
  BY DEF Typed, TypeOK
<1>2. ASSUME NEW c \in CleanerState, Move(b, c)
      PROVE  cleaner' \in [Bots -> CleanerState]
  BY <1>1, <1>2 DEF Move
<1>3. Sweeping \in CleanerState
  BY DEF Sweeping, CleanerState, CleanerPc, MaybeNotice
<1>4. \A todo \in SUBSET Notices : Drain(todo) \in CleanerState
  BY DEF Drain, Resting, CleanerState, CleanerPc, MaybeNotice
<1>5. cleaner[b].todo \subseteq Notices /\ cleanup \subseteq Notices
  BY <1>1 DEF CleanerState, Typed, TypeOK
<1>6. CASE CleanerLooks(b)
  <2>1. [pc |-> "expire", notice |-> gate.notice, todo |-> {}] \in CleanerState
    BY DEF CleanerState, CleanerPc, GateRow, Typed, TypeOK
  <2>2. cleaner' \in [Bots -> CleanerState]
    BY <1>2, <1>4, <1>5, <1>6, <2>1 DEF CleanerLooks
  <2> QED BY <1>6, <2>2
          DEF Typed, TypeOK, Placed, HasNotice, CleanerLooks, database, telegram, bounds
<1>7. CASE CleanerExpires(b)
  <2>1. [cleaner[b] EXCEPT !.pc = "clear"] \in CleanerState
    BY <1>1 DEF CleanerState, CleanerPc
  <2>2. cleaner' \in [Bots -> CleanerState]
    BY <1>2, <1>3, <1>7, <2>1 DEF CleanerExpires
  <2>3. chat' \subseteq Messages \cup Notices /\ faults' \in 0 .. MaxFaults
    BY <1>7, CallForTyped DEF CleanerExpires, CountsAsDeleted, Typed
  <2> QED BY <1>7, <2>2, <2>3 DEF Typed, TypeOK, Placed, HasNotice, CleanerExpires, database
<1>8. CASE CleanerClears(b)
  <2>1. cleaner' \in [Bots -> CleanerState]
    BY <1>2, <1>3, <1>8 DEF CleanerClears
  <2>2. gate' \in GateRow
    BY <1>8, ForgetTyped DEF CleanerClears, Typed
  <2>3. strays' \subseteq Notices
    <3>1. {cleaner[b].notice} \cap {gate.notice} \in SUBSET MaybeNotice
      BY <1>1 DEF CleanerState
    <3> QED BY <1>8, <3>1, LosesTyped DEF CleanerClears, Typed
  <2> QED BY <1>8, <2>1, <2>2, <2>3
          DEF Typed, TypeOK, Placed, HasNotice, CleanerClears, telegram, bounds
<1>9. CASE CleanerSweeps(b)
  <2>1. cleaner' \in [Bots -> CleanerState]
    BY <1>2, <1>4, <1>5, <1>9 DEF CleanerSweeps
  <2> QED BY <1>9, <2>1
          DEF Typed, TypeOK, Placed, HasNotice, CleanerSweeps, database, telegram, bounds
<1>10. CASE CleanerDrains(b)
  <2>1. \A n \in cleaner[b].todo :
            /\ [cleaner[b] EXCEPT !.pc = "settle", !.notice = n] \in CleanerState
            /\ Drain(cleaner[b].todo \ {n}) \in CleanerState
    BY <1>1, <1>4, <1>5 DEF CleanerState, CleanerPc, MaybeNotice
  <2>2. cleaner' \in [Bots -> CleanerState]
    BY <1>2, <1>10, <2>1 DEF CleanerDrains
  <2>3. chat' \subseteq Messages \cup Notices /\ faults' \in 0 .. MaxFaults
    BY <1>10, CallForTyped DEF CleanerDrains, CountsAsDeleted, Typed
  <2> QED BY <1>10, <2>2, <2>3 DEF Typed, TypeOK, Placed, HasNotice, CleanerDrains, database
<1>11. CASE CleanerSettles(b)
  <2>1. Drain(cleaner[b].todo \ {cleaner[b].notice}) \in CleanerState
    BY <1>4, <1>5
  <2>2. cleaner' \in [Bots -> CleanerState]
    BY <1>2, <1>11, <2>1 DEF CleanerSettles
  <2>3. strays' \subseteq Notices
    <3>1. {cleaner[b].notice} \cap cleanup \in SUBSET MaybeNotice
      BY <1>1 DEF CleanerState
    <3> QED BY <1>11, <3>1, LosesTyped DEF CleanerSettles, Typed
  <2> QED BY <1>11, <1>5, <2>2, <2>3
          DEF Typed, TypeOK, Placed, HasNotice, CleanerSettles, telegram, bounds
<1> QED BY <1>6, <1>7, <1>8, <1>9, <1>10, <1>11 DEF CleanerStep

LEMMA OthersTyped ==
    ASSUME Typed, Block \/ Tick \/ Crash
    PROVE  Typed'
<1>1. CASE Block
  BY <1>1 DEF Typed, TypeOK, Placed, HasNotice, Block, database, process, bounds
<1>2. CASE Tick
  <2>1. \A limit \in Nat : \A age \in 0 .. limit : Older(age, limit) \in 0 .. limit
    BY DEF Older
  <2>2. gate' \in GateRow
    <3>1. gate \in GateRow
      BY DEF Typed, TypeOK
    <3>2. gate' = [gate EXCEPT !.pending = Older(gate.pending, Old),
                              !.age = Older(gate.age, NoticeTtl),
                              !.left = IF gate.left > 0 THEN gate.left - 1 ELSE 0]
      BY <1>2, <3>1 DEF Tick, GateRow
    <3>3. /\ Older(gate.pending, Old) \in 0 .. Old
          /\ Older(gate.age, NoticeTtl) \in 0 .. NoticeTtl
          /\ (IF gate.left > 0 THEN gate.left - 1 ELSE 0) \in 0 .. NoticeTtl
      BY <2>1, <3>1, ConstantsTyped DEF GateRow
    <3> QED BY <3>1, <3>2, <3>3 DEF GateRow
  <2>3. event' \in [Messages -> EventRow]
    <3>1. ASSUME NEW m \in Messages
          PROVE  [event[m] EXCEPT !.age = Older(@, Old)] \in EventRow
      <4>1. event[m] \in EventRow
        BY DEF Typed, TypeOK
      <4>2. Older(event[m].age, Old) \in 0 .. Old
        BY <2>1, <4>1, ConstantsTyped DEF EventRow
      <4> QED BY <4>1, <4>2 DEF EventRow
    <3> QED BY <1>2, <3>1 DEF Tick
  <2>4. shown' \in 0 .. NoticeTtl
    BY <1>2, <2>1, ConstantsTyped DEF Tick, Typed, TypeOK
  <2> QED BY <1>2, <2>2, <2>3, <2>4
          DEF Typed, TypeOK, Placed, HasNotice, Tick, process, telegram, bounds
<1>3. CASE Crash
  <2>1. handler' \in [Handlers -> HandlerState] /\ Placed'
    BY <1>3, IdleTyped DEF Crash, Placed
  <2>2. starter' \in [pc: StarterPc, notice: MaybeNotice]
    BY <1>3 DEF Crash, NotStarting, StarterPc, MaybeNotice
  <2>3. cleaner' \in [Bots -> CleanerState]
    <3>1. Resting \in CleanerState
      BY DEF Resting, CleanerPc, CleanerState, MaybeNotice
    <3> QED BY <1>3, <3>1 DEF Crash
  <2>4. strays' \subseteq Notices
    <3>1. \A h \in Handlers : Held(h) \subseteq MaybeNotice
      BY DEF Held, Typed, TypeOK, HandlerState
    <3>2. chat \cap UNION {Held(h) : h \in Handlers} \subseteq Notices
      BY <3>1, GateAssumption DEF MaybeNotice, Typed, TypeOK
    <3> QED BY <1>3, <3>2 DEF Crash, Typed, TypeOK
  <2>5. crashes' \in 0 .. MaxCrashes
    BY <1>3, GateAssumption DEF Crash, Typed, TypeOK
  <2> QED BY <1>3, <2>1, <2>2, <2>3, <2>4, <2>5 DEF Typed, TypeOK, Crash, database, telegram
<1> QED BY <1>1, <1>2, <1>3

LEMMA NextTyped ==
    ASSUME Typed, [Next]_vars
    PROVE  Typed'
<1>1. CASE Next
  BY <1>1, MessageStepTyped, ReceiveTyped, StarterTyped, CleanerTyped, OthersTyped DEF Next
<1>2. CASE UNCHANGED vars
  BY <1>2 DEF Typed, TypeOK, Placed, HasNotice, vars, database, process, telegram, bounds
<1> QED BY <1>1, <1>2

(* The rows, the tasks and the bounds keep their types.                    *)
THEOREM TypeCorrect == Spec => []TypeOK
<1>1. Spec => []Typed
  BY InitTyped, NextTyped, PTL DEF Spec
<1>2. Typed => TypeOK
  BY DEF Typed
<1> QED BY <1>1, <1>2, PTL

-------------------------------------------------------------------------------
(***************************************************************************)
(* A started member is clean.  The strengthening is that a member who has  *)
(* started the bot does not block it, so far as the row goes: a handler    *)
(* that finds the bot reachable clears "blocked" alone.                    *)
(***************************************************************************)
AllowedIsClean ==
    Allowed => /\ \A m \in Messages : event[m].status # "pending"
               /\ gate.pending = Old
               /\ ~gate.warned

Clean ==
    /\ Typed
    /\ user.started => ~user.blocked
    /\ AllowedIsClean

(* A step that settles events, and opens none, keeps a started member clean*)
LEMMA CleanKept ==
    ASSUME AllowedIsClean, Allowed' => Allowed,
           \A m \in Messages : event'[m].status = "pending" => event[m].status = "pending",
           Allowed => gate'.pending \in {gate.pending, Old},
           Allowed => gate'.warned \in {gate.warned, FALSE}
    PROVE  AllowedIsClean'
BY DEF AllowedIsClean

LEMMA EventsSettled ==
    ASSUME TypeOK, NEW m, NEW status \in {"completed", "failed"},
           SetStatus(m, status) \/ SettleWarning(m, status)
    PROVE  \A x \in Messages : event'[x].status = "pending" => event[x].status = "pending"
<1>1. \A x \in Messages :
        /\ event[x] \in EventRow
        /\ Settled(event[x], status).status = status
        /\ Settled(event[x], "failed").status = "failed"
  BY SettledTyped DEF TypeOK, Status
<1>2. ASSUME SetStatus(m, status), NEW x \in Messages, event'[x].status = "pending"
      PROVE  event[x].status = "pending"
  <2>1. event'[x] = IF x = EventOf(m) THEN Settled(event[x], status) ELSE event[x]
    BY <1>2 DEF SetStatus, SetEvent, TypeOK
  <2> QED BY <1>1, <1>2, <2>1
<1>3. ASSUME SettleWarning(m, status), NEW x \in Messages, event'[x].status = "pending"
      PROVE  event[x].status = "pending"
  <2>1. event'[x] \in {Settled(event[x], status), Settled(event[x], "failed"), event[x]}
    BY <1>3 DEF SettleWarning
  <2> QED BY <1>1, <1>3, <2>1
<1> QED BY <1>2, <1>3

LEMMA NextClean ==
    ASSUME Clean, [Next]_vars
    PROVE  Clean'
<1> USE DEF Clean
<1>1. Typed'
  BY NextTyped
<1>2. TypeOK /\ gate \in GateRow /\ user \in [started: BOOLEAN, blocked: BOOLEAN]
  BY DEF Typed, TypeOK
<1>3. ASSUME UNCHANGED <<user, gate, event>>
      PROVE  Clean'
  BY <1>1, <1>3 DEF AllowedIsClean, Allowed
<1>4. ASSUME NEW h \in Handlers, MessageStep(h)
      PROVE  Clean'
  <2>1. CASE Touch(h)
    <3>1. (user'.started => ~user'.blocked) /\ (Allowed' => Allowed)
      BY <1>2, <2>1 DEF Touch, Allowed
    <3>2. AllowedIsClean'
      BY <3>1, <2>1, CleanKept DEF Touch
    <3> QED BY <1>1, <3>1, <3>2
  <2>2. CASE PrepareDecision(h)
    <3>1. CASE UNCHANGED <<gate, event>>
      BY <1>3, <2>2, <3>1 DEF PrepareDecision
    <3>2. CASE ~Allowed
      BY <1>1, <2>2, <3>2 DEF PrepareDecision, AllowedIsClean, Allowed
    <3> QED BY <2>2, <3>1, <3>2 DEF PrepareDecision
  <2>3. CASE MarkDeleted(h) \/ EventFailed(h) \/ DeletionFailed(h)
    <3>1. \A x \in Messages : event'[x].status = "pending" => event[x].status = "pending"
      <4>1. CASE MarkDeleted(h) \/ EventFailed(h)
        BY <1>2, <4>1, EventsSettled DEF MarkDeleted, EventFailed
      <4>2. CASE DeletionFailed(h)
        BY <4>2 DEF DeletionFailed, SetEvent, Typed, TypeOK
      <4> QED BY <2>3, <4>1, <4>2
    <3>2. UNCHANGED <<user, gate>>
      BY <2>3 DEF MarkDeleted, EventFailed, DeletionFailed
    <3>3. AllowedIsClean'
      BY <3>1, <3>2, CleanKept DEF Allowed
    <3> QED BY <1>1, <3>2, <3>3
  <2>4. CASE ReserveNotice(h) \/ ReleaseNotice(h) \/ RecordNotice(h)
    <3>1. gate'.pending = gate.pending /\ gate'.warned = gate.warned
      BY <1>2, <2>4 DEF ReserveNotice, ReleaseNotice, RecordNotice, GateRow
    <3>2. UNCHANGED <<user, event>>
      BY <2>4 DEF ReserveNotice, ReleaseNotice, RecordNotice
    <3> QED BY <1>1, <3>1, <3>2, CleanKept DEF Allowed
  <2>5. CASE WarningFailed(h) \/ WarningCompleted(h)
    <3>1. \A x \in Messages : event'[x].status = "pending" => event[x].status = "pending"
      BY <1>2, <2>5, EventsSettled DEF WarningFailed, WarningCompleted
    <3>2. gate'.pending = Old /\ gate'.warned \in {gate.warned, ~Allowed} /\ UNCHANGED user
      BY <1>2, <2>5 DEF WarningFailed, WarningCompleted, GateRow
    <3>3. AllowedIsClean'
      BY <3>1, <3>2, CleanKept DEF Allowed
    <3> QED BY <1>1, <3>2, <3>3
  <2>6. CASE \/ CheckLive(h) \/ DeleteMessage(h) \/ SendNotice(h)
             \/ RetractNotice(h) \/ QueueCleanup(h) \/ ReplaceNotice(h)
    BY <1>3, <2>6 DEF CheckLive, DeleteMessage, SendNotice, RetractNotice, QueueCleanup,
                      ReplaceNotice, database
  <2> QED BY <1>4, <2>1, <2>2, <2>3, <2>4, <2>5, <2>6 DEF MessageStep
<1>5. CASE MarkUserStarted
  <2>1. \A m \in Messages : event'[m].status # "pending"
    <3>1. \A m \in Messages : Settled(event[m], "completed").status = "completed"
      BY SettledTyped DEF Status, Typed, TypeOK
    <3>2. \A m \in Messages : event'[m] = IF event[m].status = "pending"
                                          THEN Settled(event[m], "completed") ELSE event[m]
      BY <1>5 DEF MarkUserStarted
    <3> QED BY <3>1, <3>2
  <2>2. /\ gate'.pending = Old /\ gate'.warned = FALSE
        /\ user'.started => ~user'.blocked
    BY <1>2, <1>5 DEF MarkUserStarted, GateRow
  <2> QED BY <1>1, <2>1, <2>2 DEF AllowedIsClean
<1>6. ASSUME NEW n, Forget(n), UNCHANGED <<user, event>>
      PROVE  Clean'
  <2>1. gate'.pending = gate.pending /\ gate'.warned = gate.warned
    BY <1>2, <1>6 DEF Forget, GateRow
  <2> QED BY <1>1, <1>6, <2>1, CleanKept DEF Allowed
<1>7. CASE PrivateMessage \/ ClearWarning \/ NoCommand \/ Block \/ Crash
  BY <1>3, <1>7 DEF PrivateMessage, ClearWarning, NoCommand, Block, Crash, database
<1>8. ASSUME NEW b \in Bots, CleanerStep(b)
      PROVE  Clean'
  <2>1. CASE CleanerClears(b)
    BY <1>6, <2>1 DEF CleanerClears
  <2>2. CASE \/ CleanerLooks(b) \/ CleanerExpires(b) \/ CleanerSweeps(b)
             \/ CleanerDrains(b) \/ CleanerSettles(b)
    BY <1>3, <2>2 DEF CleanerLooks, CleanerExpires, CleanerSweeps, CleanerDrains,
                      CleanerSettles, database
  <2> QED BY <1>8, <2>1, <2>2 DEF CleanerStep
<1>9. CASE Tick
  <2>1. \A m \in Messages : event'[m].status = event[m].status
    <3>1. ASSUME NEW m \in Messages
          PROVE  event'[m].status = event[m].status
      <4>1. event[m] \in EventRow /\ event'[m] = [event[m] EXCEPT !.age = Older(@, Old)]
        BY <1>9 DEF Tick, Typed, TypeOK
      <4> QED BY <4>1 DEF EventRow
    <3> QED BY <3>1
  <2>2. gate'.warned = gate.warned /\ gate'.pending = Older(gate.pending, Old)
    BY <1>2, <1>9 DEF Tick, GateRow
  <2>3. gate.pending = Old => gate'.pending = Old
    BY <2>2, ConstantsTyped DEF Older
  <2>4. UNCHANGED user
    BY <1>9 DEF Tick
  <2> QED BY <1>1, <2>1, <2>2, <2>3, <2>4 DEF AllowedIsClean, Allowed
<1>10. ASSUME NEW h \in Handlers, NEW m \in Messages, Receive(h, m)
       PROVE  Clean'
  BY <1>3, <1>10 DEF Receive, database
<1>11. CASE ForgetWarning
  BY <1>6, <1>11 DEF ForgetWarning
<1>12. CASE UNCHANGED vars
  BY <1>3, <1>12 DEF vars, database
<1> QED BY <1>4, <1>5, <1>7, <1>8, <1>9, <1>10, <1>11, <1>12 DEF Next, StarterStep

(* A row that says started lets the member pass: it does not say blocked,  *)
(* and no event and no warning counts against the member, whatever handlers*)
(* were under way when it was set; the transaction of mark_user_started and*)
(* the looks at "started" under the lock of the row are enough for that.   *)
(* Nothing is said of a row that a late "blocked" has set back.            *)
THEOREM StartedMembersAreClean == Spec => []StartedIsClean
<1>1. Init => Clean
  BY InitTyped DEF Init, Clean, AllowedIsClean, Allowed
<1>2. Clean => StartedIsClean
  BY DEF Clean, AllowedIsClean, StartedIsClean, Allowed
<1> QED BY <1>1, <1>2, NextClean, PTL DEF Spec
-------------------------------------------------------------------------------
(***************************************************************************)
(* Every notice in the group is owned.  A record is given up in three      *)
(* places only, and each needs a fact of its own: the record of a notice is*)
(* overwritten by the handler that holds the reservation, which has to know*)
(* the notice that was recorded before; it is cleared, and a cleanup event *)
(* is settled, by tasks of bots in the group, which have seen that the     *)
(* notice is gone, and that has to be still true when they come to do so,  *)
(* or by tasks of bots that are not in the group, which may lose it.       *)
(***************************************************************************)
Reserving == {"purge", "send", "record"}
Waiting == Reserving \cup {"release"}

KnowsPrevious(h) ==
    handler[h].pc \in Reserving /\ gate.by = h => gate.notice \in {handler[h].previous, None}

StarterSaw == starter.pc = "forget" => starter.notice \notin chat
CleanerSaw(b) ==
    b \notin Outsiders /\ cleaner[b].pc \in {"clear", "settle"}
        => cleaner[b].notice \notin chat

Owned ==
    /\ Typed
    /\ LiveNoticeOwned
    /\ \A h \in Handlers : KnowsPrevious(h)
    /\ StarterSaw
    /\ \A b \in Bots : CleanerSaw(b)

(* No message is a notice, and None is neither.                            *)
LEMMA NotInChat ==
    ASSUME TypeOK
    PROVE  None \notin chat /\ \A m \in Messages : m \notin MaybeNotice
BY GateAssumption DEF TypeOK, MaybeNotice

(* Nothing is lost when a notice leaves the database or the hands of a     *)
(* handler only after it has left the group, or for a place in either, or  *)
(* as a stray.                                                             *)
LEMMA LiveKept ==
    ASSUME LiveNoticeOwned,
           Notices \cap chat' \subseteq chat,
           gate.notice \in Notices \cap chat' =>
                gate'.notice = gate.notice \/ gate.notice \in strays',
           \A n \in cleanup : n \in cleanup' \/ n \in strays' \/ n \notin chat',
           strays \subseteq strays',
           \A h \in Handlers : \A n \in Held(h) :
                n \in Held(h)' \/ n \in cleanup' \/ n \in strays' \/ n \notin chat'
    PROVE  LiveNoticeOwned'
BY DEF LiveNoticeOwned

OthersStay(h) == \A g \in Handlers \ {h} : handler'[g] = handler[g]

LEMMA HeldByOthers ==
    ASSUME NEW h \in Handlers, OthersStay(h), NEW g \in Handlers, g # h
    PROVE  Held(g)' = Held(g)
BY DEF OthersStay, Held

LEMMA Moved ==
    ASSUME TypeOK, NEW h \in Handlers, NEW pc \in HandlerPc, Goto(h, pc)
    PROVE  /\ OthersStay(h)
           /\ handler'[h].pc = pc
           /\ handler'[h].notice = handler[h].notice
           /\ handler'[h].previous = handler[h].previous
<1>1. handler[h] \in HandlerState /\ handler \in [Handlers -> HandlerState]
  BY DEF TypeOK
<1>2. handler' = [handler EXCEPT ![h] = [handler[h] EXCEPT !.pc = pc]]
  BY <1>1 DEF Goto
<1> QED BY <1>1, <1>2 DEF OthersStay, HandlerState

LEMMA Rested ==
    ASSUME TypeOK, NEW h \in Handlers, Rest(h)
    PROVE  OthersStay(h) /\ handler'[h].pc = "idle"
BY DEF TypeOK, Rest, Idle, OthersStay

LEMMA Gone ==
    ASSUME TypeOK, NEW h \in Handlers, NEW pc \in HandlerPc, Go(h, pc)
    PROVE  /\ OthersStay(h)
           /\ handler'[h].pc = pc
           /\ pc # "idle" => /\ handler'[h].notice = handler[h].notice
                             /\ handler'[h].previous = handler[h].previous
BY Moved, Rested DEF Go

(* The steps of a handler that neither has a notice in hand nor gets one.  *)
LEMMA QuietStep ==
    ASSUME Owned, NEW h \in Handlers, OthersStay(h),
           Held(h) = {}, handler'[h].pc \notin Reserving,
           gate'.notice = gate.notice, gate'.by \in {gate.by, None},
           chat' \cap MaybeNotice \subseteq chat,
           UNCHANGED <<cleanup, starter, cleaner, strays>>,
           Typed'
    PROVE  Owned'
<1>1. Held(h) = {} /\ \A g \in Handlers \ {h} : Held(g)' = Held(g)
  BY HeldByOthers
<1>2. LiveNoticeOwned'
  <2>1. Notices \cap chat' \subseteq chat
    BY DEF MaybeNotice
  <2> QED BY <1>1, <2>1, LiveKept DEF Owned
<1>3. ASSUME NEW g \in Handlers
      PROVE  KnowsPrevious(g)'
  <2>1. CASE g = h
    BY <2>1 DEF KnowsPrevious
  <2>2. CASE g # h
    <3>1. handler'[g] = handler[g] /\ KnowsPrevious(g)
      BY <2>2 DEF OthersStay, Owned
    <3>2. None # g
      BY GateAssumption
    <3> QED BY <3>1, <3>2 DEF KnowsPrevious
  <2> QED BY <2>1, <2>2
<1>4. StarterSaw' /\ \A b \in Bots : CleanerSaw(b)'
  <2>1. starter.notice \in MaybeNotice /\ \A b \in Bots : cleaner[b].notice \in MaybeNotice
    BY DEF Owned, Typed, TypeOK, CleanerState
  <2> QED BY <2>1 DEF Owned, StarterSaw, CleanerSaw
<1> QED BY <1>2, <1>3, <1>4 DEF Owned

(* What a call of deleteMessage leaves in the group.                       *)
LEMMA CallShrinks ==
    ASSUME NEW x, Deletes(x) \/ Refuses(x) \/ Breaks(x)
    PROVE  chat' \subseteq chat
BY DEF Deletes, Refuses, Breaks

LEMMA CallForShrinks ==
    ASSUME NEW b, NEW x, DeletesFor(b, x) \/ RefusesTo(b, x) \/ BreaksFor(b, x)
    PROVE  chat' \subseteq chat
BY CallShrinks DEF DeletesFor, RefusesTo, BreaksFor

LEMMA QuietMoves ==
    ASSUME TypeOK, NEW h \in Handlers,
           \/ \E m \in Messages : Receive(h, m)
           \/ CheckLive(h) \/ Touch(h) \/ PrepareDecision(h)
           \/ MarkDeleted(h) \/ EventFailed(h) \/ DeletionFailed(h)
           \/ ReleaseNotice(h) \/ WarningFailed(h) \/ WarningCompleted(h)
    PROVE  OthersStay(h) /\ handler'[h].pc \notin Waiting
<1>1. ASSUME NEW pc \in HandlerPc \ Waiting, Go(h, pc) \/ Goto(h, pc)
      PROVE  OthersStay(h) /\ handler'[h].pc \notin Waiting
  BY <1>1, Moved, Gone
<1>2. CASE Rest(h)
  BY <1>2, Rested DEF Waiting, Reserving
<1>3. CASE \E m \in Messages : Receive(h, m)
  <2>1. PICK m \in Messages : Receive(h, m)
    BY <1>3
  <2> DEFINE s == [Idle EXCEPT !.pc = IF user.started THEN "live" ELSE "decide",
                               !.message = m]
  <2>2. s.pc \notin Waiting
    BY DEF Idle, Waiting, Reserving
  <2>3. handler' = [handler EXCEPT ![h] = s]
    BY <2>1 DEF Receive
  <2> HIDE DEF s
  <2> QED BY <2>2, <2>3 DEF OthersStay, TypeOK
<1>4. CASE CheckLive(h) \/ Touch(h)
  BY <1>1, <1>2, <1>4 DEF CheckLive, Touch, HandlerPc, Waiting, Reserving
<1>5. CASE PrepareDecision(h)
  <2>1. CASE Rest(h)
    BY <1>2, <2>1
  <2>2. CASE Go(h, IF handler[h].message \in Album THEN "drop" ELSE "idle")
    BY <1>1, <2>2 DEF HandlerPc, Waiting, Reserving
  <2>3. CASE handler' = [handler EXCEPT ![h] =
              [@ EXCEPT !.pc = FirstStep[Decision], !.action = Decision]]
    <3> DEFINE s == [handler[h] EXCEPT !.pc = FirstStep[Decision], !.action = Decision]
    <3>1. FirstStep[Decision] \in {"hold", "reserve", "delete"}
      BY DEF FirstStep, Decision
    <3>2. s.pc \notin Waiting
      BY <3>1 DEF TypeOK, HandlerState, Waiting, Reserving
    <3>3. handler' = [handler EXCEPT ![h] = s]
      BY <2>3
    <3> HIDE DEF s
    <3> QED BY <3>2, <3>3 DEF OthersStay, TypeOK
  <2> QED BY <1>5, <2>1, <2>2, <2>3 DEF PrepareDecision
<1>6. CASE MarkDeleted(h) \/ EventFailed(h) \/ DeletionFailed(h) \/ WarningFailed(h)
  BY <1>1, <1>2, <1>6
     DEF MarkDeleted, EventFailed, DeletionFailed, WarningFailed, HandlerPc, Waiting, Reserving
<1>7. CASE ReleaseNotice(h)
  BY <1>1, <1>7 DEF ReleaseNotice, HandlerPc, Waiting, Reserving
<1>8. CASE WarningCompleted(h)
  <2>1. PICK pc \in {"mark", "retry", "idle"} : Go(h, pc)
    BY <1>8 DEF WarningCompleted
  <2> QED BY <1>1, <2>1 DEF HandlerPc, Waiting, Reserving
<1> QED BY <1>3, <1>4, <1>5, <1>6, <1>7, <1>8

LEMMA QuietMessageSteps ==
    ASSUME Owned, NEW h \in Handlers, Typed',
           \/ \E m \in Messages : Receive(h, m)
           \/ CheckLive(h) \/ Touch(h) \/ PrepareDecision(h)
           \/ MarkDeleted(h) \/ EventFailed(h) \/ DeletionFailed(h)
           \/ ReleaseNotice(h) \/ WarningFailed(h) \/ WarningCompleted(h)
    PROVE  Owned'
<1>1. TypeOK /\ gate \in GateRow
  BY DEF Owned, Typed, TypeOK
<1>2. /\ Held(h) = {}
      /\ UNCHANGED <<cleanup, starter, cleaner, strays>>
  BY DEF Receive, CheckLive, Touch, PrepareDecision, MarkDeleted, EventFailed, DeletionFailed,
         ReleaseNotice, WarningFailed, WarningCompleted, At, Held, database
<1>3. gate'.notice = gate.notice /\ gate'.by \in {gate.by, None}
  BY <1>1 DEF Receive, CheckLive, Touch, PrepareDecision, MarkDeleted, EventFailed,
         DeletionFailed, ReleaseNotice, WarningFailed, WarningCompleted, database, GateRow
<1>4. chat' \cap MaybeNotice \subseteq chat
  BY <1>1, NotInChat DEF Receive, CheckLive, Touch, PrepareDecision, MarkDeleted, EventFailed,
         DeletionFailed, ReleaseNotice, WarningFailed, WarningCompleted, telegram
<1>5. OthersStay(h) /\ handler'[h].pc \notin Reserving
  BY <1>1, QuietMoves DEF Waiting
<1> QED BY <1>2, <1>3, <1>4, <1>5, QuietStep

(* The facts about the other tasks outlast every step that neither posts a *)
(* notice nor touches these tasks.                                         *)
LEMMA SawKept ==
    ASSUME Owned, chat' \subseteq chat, UNCHANGED <<starter, cleaner>>
    PROVE  StarterSaw' /\ \A b \in Bots : CleanerSaw(b)'
BY DEF Owned, StarterSaw, CleanerSaw

LEMMA KnowsKept ==
    ASSUME Owned, NEW h \in Handlers, OthersStay(h), gate' = gate,
           handler'[h].pc \notin Reserving
           \/ (handler[h].pc \in Reserving /\ handler'[h].previous = handler[h].previous)
    PROVE  \A g \in Handlers : KnowsPrevious(g)'
BY DEF Owned, KnowsPrevious, OthersStay

LEMMA DeleteMessageMoves ==
    ASSUME TypeOK, NEW h \in Handlers, DeleteMessage(h)
    PROVE  /\ OthersStay(h) /\ handler'[h].pc # "record"
           /\ \/ handler'[h].pc \notin Waiting
              \/ handler[h].pc \in Waiting /\ handler'[h].previous = handler[h].previous
<1>1. CASE Rest(h)
  BY <1>1, Rested DEF Waiting, Reserving
<1>2. CASE \E pc \in {"mark", "fail", "retry"} : Goto(h, pc)
  BY <1>2, Moved DEF Waiting, Reserving, HandlerPc
<1>3. CASE At(h, "purge") /\ \E d \in {"yes", "no"} : handler' =
              [handler EXCEPT ![h] = [@ EXCEPT !.pc = "send", !.deleted = d]]
  <2>1. PICK d \in {"yes", "no"} : handler' =
              [handler EXCEPT ![h] = [@ EXCEPT !.pc = "send", !.deleted = d]]
    BY <1>3
  <2> DEFINE s == [handler[h] EXCEPT !.pc = "send", !.deleted = d]
  <2>2. s.previous = handler[h].previous
    BY DEF TypeOK, HandlerState
  <2>3. handler' = [handler EXCEPT ![h] = s]
    BY <2>1
  <2> HIDE DEF s
  <2> QED BY <1>3, <2>2, <2>3 DEF OthersStay, At, Waiting, Reserving, TypeOK
<1> QED BY <1>1, <1>2, <1>3 DEF DeleteMessage

LEMMA DeleteMessageOwned ==
    ASSUME Owned, NEW h \in Handlers, DeleteMessage(h)
    PROVE  Owned'
<1>1. Typed'
  BY DeleteMessageTyped DEF Owned
<1>2. chat' \subseteq chat
  BY CallShrinks DEF DeleteMessage
<1>3. /\ Held(h) = {}
      /\ UNCHANGED <<gate, cleanup, starter, cleaner, strays>>
  BY DEF DeleteMessage, At, Held, database
<1>4. /\ OthersStay(h)
      /\ \/ handler'[h].pc \notin Reserving
         \/ handler[h].pc \in Reserving /\ handler'[h].previous = handler[h].previous
  BY DeleteMessageMoves DEF Owned, Typed, DeleteMessage, At, Waiting, Reserving
<1>5. LiveNoticeOwned'
  <2>1. \A g \in Handlers : \A n \in Held(g) : n \in Held(g)'
    BY <1>3, <1>4, HeldByOthers
  <2> QED BY <1>2, <1>3, <2>1, LiveKept DEF Owned
<1> QED BY <1>1, <1>2, <1>3, <1>4, <1>5, SawKept, KnowsKept DEF Owned

LEMMA ReserveNoticeOwned ==
    ASSUME Owned, NEW h \in Handlers, ReserveNotice(h)
    PROVE  Owned'
<1>1. Typed' /\ TypeOK /\ gate \in GateRow /\ handler[h] \in HandlerState
  BY ReserveNoticeTyped DEF Owned, Typed, TypeOK
<1>2. /\ Held(h) = {}
      /\ UNCHANGED <<cleanup, starter, cleaner, strays, chat>>
  BY DEF ReserveNotice, At, Held, telegram
<1>3. CASE UNCHANGED gate /\ \E pc \in {"complete", "idle"} : Go(h, pc)
  <2>1. OthersStay(h) /\ handler'[h].pc \notin Reserving
    BY <1>1, <1>3, Gone DEF Reserving, HandlerPc
  <2> QED BY <1>1, <1>2, <1>3, <2>1, QuietStep
<1>4. CASE /\ gate' = [gate EXCEPT !.by = h, !.age = 0]
           /\ \E pc \in {"purge", "send"} : handler' = [handler EXCEPT ![h] =
                    [@ EXCEPT !.pc = pc, !.previous = gate.notice]]
  <2>1. PICK pc \in {"purge", "send"} : handler' = [handler EXCEPT ![h] =
                    [@ EXCEPT !.pc = pc, !.previous = gate.notice]]
    BY <1>4
  <2> DEFINE s == [handler[h] EXCEPT !.pc = pc, !.previous = gate.notice]
  <2>2. s.previous = gate.notice
    BY <1>1 DEF HandlerState
  <2>3. handler' = [handler EXCEPT ![h] = s]
    BY <2>1
  <2> HIDE DEF s
  <2>4. OthersStay(h) /\ handler'[h].previous = gate.notice
    BY <1>1, <2>2, <2>3 DEF OthersStay, TypeOK
  <2>5. gate'.notice = gate.notice /\ gate'.by = h
    BY <1>1, <1>4 DEF GateRow
  <2>6. LiveNoticeOwned'
    <3>1. \A g \in Handlers : \A n \in Held(g) : n \in Held(g)'
      BY <1>2, <2>4, HeldByOthers
    <3> QED BY <1>2, <2>5, <3>1, LiveKept DEF Owned
  <2>7. \A g \in Handlers : KnowsPrevious(g)'
    BY <2>4, <2>5 DEF KnowsPrevious
  <2> QED BY <1>1, <1>2, <2>6, <2>7, SawKept DEF Owned
<1> QED BY <1>3, <1>4 DEF ReserveNotice

LEMMA SendNoticeOwned ==
    ASSUME Owned, NEW h \in Handlers, SendNotice(h)
    PROVE  Owned'
<1> DEFINE n == CHOOSE n \in Notices : Unused(n)
<1>1. n \in Notices /\ Unused(n)
  BY DEF SendNotice
<1>2. \/ /\ chat' = chat \cup {n}
         /\ handler' = [handler EXCEPT ![h] = [@ EXCEPT !.pc = "record", !.notice = n]]
         /\ strays' = strays \ {n}
      \/ /\ Goto(h, "release")
         /\ \/ UNCHANGED <<chat, strays>>
            \/ chat' = chat \cup {n} /\ strays' = strays \cup {n}
  BY DEF SendNotice
<1> HIDE DEF n
<1>3. /\ At(h, "send") /\ Held(h) = {}
      /\ UNCHANGED <<gate, cleanup, starter, cleaner>>
  BY DEF SendNotice, At, Held, database
<1>4. Typed' /\ TypeOK /\ handler[h] \in HandlerState
  BY SendNoticeTyped DEF Owned, Typed, TypeOK
<1>5. chat' \subseteq chat \cup {n}
  BY <1>2
<1>6. StarterSaw' /\ \A b \in Bots : CleanerSaw(b)'
  BY <1>1, <1>3, <1>5 DEF Owned, StarterSaw, CleanerSaw, Unused
<1>7. CASE /\ chat' = chat \cup {n} /\ strays' = strays \ {n}
           /\ handler' = [handler EXCEPT ![h] = [@ EXCEPT !.pc = "record", !.notice = n]]
  <2> DEFINE s == [handler[h] EXCEPT !.pc = "record", !.notice = n]
  <2>1. s.pc = "record" /\ s.notice = n /\ s.previous = handler[h].previous
    BY <1>4 DEF HandlerState
  <2>2. handler' = [handler EXCEPT ![h] = s]
    BY <1>7
  <2> HIDE DEF s
  <2>3. OthersStay(h) /\ handler'[h] = s
    BY <1>4, <2>2 DEF OthersStay, TypeOK
  <2>4. n \in Held(h)'
    BY <2>1, <2>3 DEF Held
  <2>5. \A g \in Handlers : \A x \in Held(g) : x \in Held(g)'
    BY <1>3, <2>3, HeldByOthers
  <2>6. LiveNoticeOwned'
    BY <1>3, <1>7, <2>4, <2>5 DEF Owned, LiveNoticeOwned
  <2>7. \A g \in Handlers : KnowsPrevious(g)'
    BY <1>3, <2>1, <2>3, KnowsKept DEF At, Reserving
  <2> QED BY <1>4, <1>6, <2>6, <2>7 DEF Owned
<1>8. CASE /\ Goto(h, "release")
           /\ \/ UNCHANGED <<chat, strays>>
              \/ chat' = chat \cup {n} /\ strays' = strays \cup {n}
  <2>1. OthersStay(h) /\ handler'[h].pc = "release"
    BY <1>4, <1>8, Moved DEF HandlerPc
  <2>2. \A g \in Handlers : \A x \in Held(g) : x \in Held(g)'
    BY <1>3, <2>1, HeldByOthers
  <2>3. LiveNoticeOwned'
    BY <1>3, <1>8, <2>2 DEF Owned, LiveNoticeOwned
  <2>4. \A g \in Handlers : KnowsPrevious(g)'
    BY <1>3, <2>1, KnowsKept DEF Reserving
  <2> QED BY <1>4, <1>6, <2>3, <2>4 DEF Owned
<1> QED BY <1>2, <1>7, <1>8

LEMMA RecordNoticeOwned ==
    ASSUME Owned, NEW h \in Handlers, RecordNotice(h)
    PROVE  Owned'
<1> DEFINE n == handler[h].notice
<1>1. Typed' /\ TypeOK /\ gate \in GateRow /\ handler[h] \in HandlerState
  BY RecordNoticeTyped DEF Owned, Typed, TypeOK
<1>2. /\ At(h, "record") /\ Held(h) = {n}
      /\ UNCHANGED <<cleanup, starter, cleaner, strays, chat>>
  BY DEF RecordNotice, At, Held, telegram
<1>3. CASE Goto(h, "retract") /\ UNCHANGED gate
  <2>1. OthersStay(h) /\ handler'[h].pc = "retract" /\ handler'[h].notice = n
    BY <1>1, <1>3, Moved DEF HandlerPc
  <2>2. \A g \in Handlers : \A x \in Held(g) : x \in Held(g)'
    <3>1. Held(h)' = {n}
      BY <2>1 DEF Held
    <3> QED BY <1>2, <2>1, <3>1, HeldByOthers
  <2>3. LiveNoticeOwned'
    BY <1>2, <1>3, <2>2, LiveKept DEF Owned
  <2> QED BY <1>1, <1>2, <1>3, <2>1, <2>3, SawKept, KnowsKept DEF Owned, Reserving
<1>4. CASE /\ gate.by = h
           /\ gate' = [gate EXCEPT !.notice = n, !.left = NoticeTtl - gate.age]
           /\ Go(h, IF handler[h].previous = None THEN AfterNotice(h) ELSE "replace")
  <2>1. PICK pc \in {"complete", "idle", "replace"} :
            Go(h, pc) /\ (pc = "replace" <=> handler[h].previous # None)
    BY <1>4 DEF AfterNotice
  <2>2. /\ OthersStay(h) /\ handler'[h].pc = pc
        /\ pc = "replace" => handler'[h].previous = handler[h].previous
    BY <1>1, <2>1, Gone DEF HandlerPc
  <2>3. gate'.notice = n /\ gate'.by = h
    BY <1>1, <1>4 DEF GateRow
  <2>4. gate.notice \in {handler[h].previous, None}
    BY <1>2, <1>4 DEF Owned, KnowsPrevious, At, Reserving
  <2>5. handler[h].previous \in Held(h)' \cup {None}
    BY <2>1, <2>2 DEF Held
  <2>6. ASSUME NEW x \in Notices \cap chat'
        PROVE  \/ x = gate'.notice \/ x \in cleanup'
               \/ \E g \in Handlers : x \in Held(g)'
               \/ x \in strays'
    <3>1. x # None
      BY <1>1, <2>6, GateAssumption
    <3>2. CASE x = gate.notice
      BY <2>4, <2>5, <3>1, <3>2
    <3>3. CASE \E g \in Handlers : x \in Held(g)
      <4>1. PICK g \in Handlers : x \in Held(g)
        BY <3>3
      <4>2. CASE g = h
        BY <1>2, <2>3, <4>1, <4>2
      <4>3. CASE g # h
        BY <2>2, <4>1, <4>3, HeldByOthers
      <4> QED BY <4>2, <4>3
    <3>4. CASE x \in cleanup \/ x \in strays
      BY <1>2, <3>4
    <3> QED BY <1>2, <2>6, <3>2, <3>3, <3>4 DEF Owned, LiveNoticeOwned
  <2>7. \A g \in Handlers : KnowsPrevious(g)'
    BY <2>1, <2>2, <2>3 DEF KnowsPrevious, Reserving, OthersStay
  <2> QED BY <1>1, <1>2, <2>6, <2>7, SawKept DEF Owned, LiveNoticeOwned
<1> QED BY <1>3, <1>4 DEF RecordNotice

LEMMA RetractNoticeOwned ==
    ASSUME Owned, NEW h \in Handlers,
           RetractNotice(h) \/ QueueCleanup(h) \/ ReplaceNotice(h)
    PROVE  Owned'
<1>1. Typed' /\ TypeOK
  BY RetractNoticeTyped, ReplaceNoticeTyped DEF Owned, Typed
<1>2. /\ chat' \subseteq chat
      /\ UNCHANGED <<gate, starter, cleaner>>
      /\ cleanup \subseteq cleanup' /\ strays \subseteq strays'
  BY CallShrinks DEF RetractNotice, QueueCleanup, ReplaceNotice, database, telegram
<1>3. OthersStay(h) /\ handler'[h].pc \notin Reserving
  <2>1. CASE Goto(h, "queue")
    BY <1>1, <2>1, Moved DEF HandlerPc, Reserving
  <2>2. CASE \E pc \in {"complete", "idle"} : Go(h, pc)
    BY <1>1, <2>2, Gone DEF HandlerPc, Reserving
  <2> QED BY <2>1, <2>2 DEF RetractNotice, QueueCleanup, ReplaceNotice, AfterNotice
<1>4. \A x \in Held(h) : x \in Held(h)' \/ x \in cleanup' \/ x \in strays' \/ x \notin chat'
  <2>1. CASE RetractNotice(h) /\ Goto(h, "queue")
    <3>1. handler'[h].pc = "queue" /\ handler'[h].notice = handler[h].notice
      BY <1>1, <2>1, Moved DEF HandlerPc
    <3> QED BY <2>1, <3>1 DEF RetractNotice, At, Held
  <2>2. CASE RetractNotice(h) /\ Deletes(handler[h].notice)
    BY <2>2 DEF RetractNotice, At, Held, Deletes
  <2>3. CASE QueueCleanup(h)
    BY <2>3 DEF QueueCleanup, At, Held
  <2>4. CASE ReplaceNotice(h)
    <3>1. Held(h) = {handler[h].previous}
      BY <2>4 DEF ReplaceNotice, At, Held
    <3> QED BY <2>4, <3>1 DEF ReplaceNotice, Deletes, Refuses
  <2> QED BY <2>1, <2>2, <2>3, <2>4 DEF RetractNotice
<1>5. LiveNoticeOwned'
  <2>1. \A g \in Handlers : \A x \in Held(g) :
            x \in Held(g)' \/ x \in cleanup' \/ x \in strays' \/ x \notin chat'
    BY <1>3, <1>4, HeldByOthers
  <2> QED BY <1>2, <2>1, LiveKept DEF Owned
<1> QED BY <1>1, <1>2, <1>3, <1>5, SawKept, KnowsKept DEF Owned

(* The tasks that are not handlers leave what the handlers hold alone.     *)
LEMMA OtherTask ==
    ASSUME Owned, Typed', UNCHANGED handler, chat' \subseteq chat, strays \subseteq strays',
           gate'.by \in {gate.by, None}, gate'.notice \in {gate.notice, None},
           gate.notice \in chat' => gate'.notice = gate.notice \/ gate.notice \in strays',
           \A n \in cleanup : n \in cleanup' \/ n \in strays' \/ n \notin chat'
    PROVE  LiveNoticeOwned' /\ \A h \in Handlers : KnowsPrevious(h)'
<1>1. \A h \in Handlers : Held(h)' = Held(h)
  BY DEF Held
<1>2. LiveNoticeOwned'
  BY <1>1, LiveKept DEF Owned
<1>3. None \notin Handlers
  BY GateAssumption
<1> QED BY <1>2, <1>3 DEF Owned, KnowsPrevious

LEMMA ForgetChanges ==
    ASSUME TypeOK, NEW n, Forget(n)
    PROVE  /\ gate'.by = gate.by /\ gate'.notice \in {gate.notice, None}
           /\ gate'.notice # gate.notice => gate.notice = n
BY DEF TypeOK, Forget, GateRow

LEMMA StarterOwned ==
    ASSUME Owned, PrivateMessage \/ StarterStep
    PROVE  Owned'
<1>1. Typed' /\ TypeOK
  BY StarterTyped DEF Owned, Typed
<1>2. CASE PrivateMessage \/ NoCommand \/ ClearWarning
  <2>1. /\ chat' \subseteq chat
        /\ UNCHANGED <<handler, strays, gate, cleanup, cleaner>>
    BY <1>2, CallForShrinks DEF PrivateMessage, NoCommand, ClearWarning, database, telegram
  <2>2. StarterSaw'
    <3>1. CASE ClearWarning
      <4>1. starter \in [pc: StarterPc, notice: MaybeNotice]
        BY <1>1 DEF TypeOK
      <4>2. PICK b \in Bots :
               \/ /\ DeletesFor(b, starter.notice)
                  /\ starter' = [starter EXCEPT !.pc = "forget"]
               \/ starter' = [pc |-> "again", notice |-> None]
        BY <3>1 DEF ClearWarning
      <4>3. CASE starter' = [pc |-> "again", notice |-> None]
        BY <4>3 DEF StarterSaw
      <4>4. CASE /\ DeletesFor(b, starter.notice)
                 /\ starter' = [starter EXCEPT !.pc = "forget"]
        BY <4>1, <4>4 DEF StarterSaw, DeletesFor, Deletes
      <4> QED BY <4>2, <4>3, <4>4
    <3>2. CASE PrivateMessage
      BY <1>1, <3>2 DEF PrivateMessage, StarterSaw, TypeOK
    <3>3. CASE NoCommand
      BY <3>3 DEF NoCommand, NotStarting, StarterSaw
    <3> QED BY <1>2, <3>1, <3>2, <3>3
  <2>3. \A b \in Bots : CleanerSaw(b)'
    BY <2>1 DEF Owned, CleanerSaw
  <2> QED BY <1>1, <2>1, <2>2, <2>3, OtherTask DEF Owned
<1>3. CASE MarkUserStarted
  <2>1. gate \in GateRow
    BY <1>1 DEF TypeOK
  <2>2. gate'.by = None /\ gate'.notice = gate.notice
    BY <1>3, <2>1 DEF MarkUserStarted, GateRow
  <2>3. UNCHANGED <<handler, strays, cleanup, cleaner, chat>>
    BY <1>3 DEF MarkUserStarted, telegram
  <2>4. starter'.pc # "forget"
    BY <1>1, <1>3 DEF MarkUserStarted, NotStarting, TypeOK
  <2>5. StarterSaw' /\ \A b \in Bots : CleanerSaw(b)'
    BY <2>3, <2>4 DEF Owned, StarterSaw, CleanerSaw
  <2> QED BY <1>1, <2>2, <2>3, <2>5, OtherTask DEF Owned
<1>4. CASE ForgetWarning
  <2>1. Forget(starter.notice) /\ starter.notice \notin chat
    BY <1>4 DEF ForgetWarning, Owned, StarterSaw
  <2>2. UNCHANGED <<handler, strays, cleanup, cleaner, chat>> /\ starter'.pc = "again"
    BY <1>4 DEF ForgetWarning, telegram
  <2>3. StarterSaw' /\ \A b \in Bots : CleanerSaw(b)'
    BY <2>2 DEF Owned, StarterSaw, CleanerSaw
  <2> QED BY <1>1, <2>1, <2>2, <2>3, ForgetChanges, OtherTask DEF Owned
<1> QED BY <1>2, <1>3, <1>4 DEF StarterStep

(* To a bot in the group a refusal shows that the notice is gone.          *)
LEMMA CleanerOwned ==
    ASSUME Owned, NEW b \in Bots, CleanerStep(b)
    PROVE  Owned'
<1>1. Typed' /\ TypeOK /\ cleaner \in [Bots -> CleanerState]
  BY CleanerTyped DEF Owned, Typed, TypeOK
<1>2. chat' \subseteq chat /\ UNCHANGED <<handler, starter>> /\ strays \subseteq strays'
  BY CallForShrinks DEF CleanerStep, CleanerLooks, CleanerExpires, CleanerClears, CleanerSweeps,
        CleanerDrains, CleanerSettles, CountsAsDeleted, Loses, telegram
<1>3. ASSUME NEW c, Move(b, c),
             b \notin Outsiders /\ c.pc \in {"clear", "settle"} => c.notice \notin chat'
      PROVE  StarterSaw' /\ \A d \in Bots : CleanerSaw(d)'
  BY <1>1, <1>2, <1>3 DEF Owned, StarterSaw, CleanerSaw, Move
<1>4. \A n : CountsAsDeleted(b, n) /\ b \notin Outsiders => n \notin chat'
  BY DEF CountsAsDeleted, DeletesFor, Deletes, RefusesTo, Refuses
<1>5. /\ \A todo : Drain(todo).pc \notin {"clear", "settle"}
      /\ Sweeping.pc \notin {"clear", "settle"}
  BY DEF Drain, Resting, Sweeping
<1>6. CASE CleanerLooks(b)
  <2>1. PICK c : Move(b, c) /\ c.pc \notin {"clear", "settle"}
    BY <1>5, <1>6 DEF CleanerLooks
  <2> QED BY <1>1, <1>2, <1>3, <1>6, <2>1, OtherTask DEF CleanerLooks, database, Owned
<1>7. CASE CleanerExpires(b)
  <2>1. PICK c : /\ Move(b, c)
                 /\ b \notin Outsiders /\ c.pc \in {"clear", "settle"} => c.notice \notin chat'
    <3>1. cleaner[b] \in CleanerState
      BY <1>1
    <3>2. [cleaner[b] EXCEPT !.pc = "clear"].notice = cleaner[b].notice
      BY <3>1 DEF CleanerState
    <3> QED BY <1>4, <1>5, <1>7, <3>2 DEF CleanerExpires
  <2> QED BY <1>1, <1>2, <1>3, <1>7, <2>1, OtherTask DEF CleanerExpires, database, Owned
<1>8. CASE CleanerClears(b)
  <2>1. Forget(cleaner[b].notice) /\ Move(b, Sweeping) /\ UNCHANGED <<cleanup, chat>>
    BY <1>8 DEF CleanerClears, telegram
  <2>2. cleaner[b].notice = gate.notice /\ gate.notice \in chat => gate.notice \in strays'
    BY <1>8 DEF CleanerClears, Loses, Owned, CleanerSaw
  <2>3. gate.notice \in chat' => gate'.notice = gate.notice \/ gate.notice \in strays'
    BY <1>1, <2>1, <2>2, ForgetChanges
  <2> QED BY <1>1, <1>2, <1>3, <1>5, <2>1, <2>3, ForgetChanges, OtherTask DEF Owned
<1>9. CASE CleanerSweeps(b)
  BY <1>1, <1>2, <1>3, <1>5, <1>9, OtherTask DEF CleanerSweeps, database, Owned
<1>10. CASE CleanerDrains(b)
  <2>1. PICK c : /\ Move(b, c)
                 /\ b \notin Outsiders /\ c.pc \in {"clear", "settle"} => c.notice \notin chat'
    <3>1. cleaner[b] \in CleanerState
      BY <1>1
    <3>2. PICK n : \/ /\ CountsAsDeleted(b, n)
                      /\ Move(b, [cleaner[b] EXCEPT !.pc = "settle", !.notice = n])
                   \/ Move(b, Drain(cleaner[b].todo \ {n}))
      BY <1>10 DEF CleanerDrains
    <3>3. CASE /\ CountsAsDeleted(b, n)
               /\ Move(b, [cleaner[b] EXCEPT !.pc = "settle", !.notice = n])
      <4> DEFINE c == [cleaner[b] EXCEPT !.pc = "settle", !.notice = n]
      <4>1. c.notice = n
        BY <3>1 DEF CleanerState
      <4>2. b \notin Outsiders => c.notice \notin chat'
        BY <1>4, <3>3, <4>1
      <4> QED BY <3>3, <4>2
    <3>4. CASE Move(b, Drain(cleaner[b].todo \ {n}))
      BY <1>5, <3>4
    <3> QED BY <3>2, <3>3, <3>4
  <2> QED BY <1>1, <1>2, <1>3, <1>10, <2>1, OtherTask DEF CleanerDrains, database, Owned
<1>11. CASE CleanerSettles(b)
  <2>1. /\ cleanup' = cleanup \ {cleaner[b].notice} /\ UNCHANGED <<gate, chat>>
        /\ Move(b, Drain(cleaner[b].todo \ {cleaner[b].notice}))
    BY <1>11 DEF CleanerSettles, telegram
  <2>2. \A n \in cleanup : n \in cleanup' \/ n \in strays' \/ n \notin chat'
    BY <1>11, <2>1 DEF CleanerSettles, Loses, Owned, CleanerSaw
  <2> QED BY <1>1, <1>2, <1>3, <1>5, <2>1, <2>2, OtherTask DEF Owned
<1> QED BY <1>6, <1>7, <1>8, <1>9, <1>10, <1>11 DEF CleanerStep

LEMMA OthersOwned ==
    ASSUME Owned, Block \/ Tick \/ Crash
    PROVE  Owned'
<1>1. Typed' /\ TypeOK /\ gate \in GateRow
  BY OthersTyped DEF Owned, Typed, TypeOK
<1>2. CASE Block \/ Tick
  <2>1. UNCHANGED <<handler, strays, cleanup, starter, cleaner, chat>>
    BY <1>2 DEF Block, Tick, process, telegram, database
  <2>2. gate'.by = gate.by /\ gate'.notice = gate.notice
    BY <1>1, <1>2 DEF Block, Tick, database, GateRow
  <2> QED BY <1>1, <2>1, <2>2, OtherTask, SawKept DEF Owned
<1>3. CASE Crash
  <2>1. UNCHANGED <<gate, cleanup, chat>>
    BY <1>3 DEF Crash, database, telegram
  <2>2. LiveNoticeOwned'
    <3>1. strays' = strays \cup (chat \cap UNION {Held(h) : h \in Handlers})
      BY <1>3 DEF Crash
    <3> QED BY <2>1, <3>1, LiveKept DEF Owned
  <2>3. \A h \in Handlers : KnowsPrevious(h)'
    BY <1>3 DEF Crash, KnowsPrevious, Idle, Reserving
  <2>4. StarterSaw' /\ \A b \in Bots : CleanerSaw(b)'
    BY <1>3 DEF Crash, StarterSaw, CleanerSaw, NotStarting, Resting
  <2> QED BY <1>1, <2>2, <2>3, <2>4 DEF Owned
<1> QED BY <1>2, <1>3

(* Every notice in the group is recorded, queued or in the hands of a      *)
(* handler, apart from those that the code lets go: no interleaving of     *)
(* handlers, starts, cleanups and crashes loses another one, whether the   *)
(* bots of the process are in the group or not.                            *)
THEOREM LiveNoticesAreOwned == Spec => []LiveNoticeOwned
<1>1. Init => Owned
  BY InitTyped DEF Init, Owned, LiveNoticeOwned, KnowsPrevious, Reserving, Idle,
        StarterSaw, NotStarting, CleanerSaw, Resting
<1>2. Owned /\ [Next]_vars => Owned'
  <2> SUFFICES ASSUME Owned, [Next]_vars PROVE Owned'
    OBVIOUS
  <2>1. Typed'
    BY NextTyped DEF Owned
  <2>2. ASSUME NEW h \in Handlers, MessageStep(h) \/ \E m \in Messages : Receive(h, m)
        PROVE  Owned'
    BY <2>1, <2>2, QuietMessageSteps, DeleteMessageOwned, ReserveNoticeOwned, SendNoticeOwned,
       RecordNoticeOwned, RetractNoticeOwned DEF MessageStep
  <2>3. CASE UNCHANGED vars
    <3>1. UNCHANGED <<handler, strays, cleanup, gate, starter, cleaner, chat>>
      BY <2>3 DEF vars, database, process, telegram
    <3> QED BY <2>1, <3>1, OtherTask, SawKept DEF Owned
  <2> QED BY <2>2, <2>3, StarterOwned, CleanerOwned, OthersOwned DEF Next
<1>3. Owned => LiveNoticeOwned
  BY DEF Owned
<1> QED BY <1>1, <1>2, <1>3, PTL DEF Spec

-------------------------------------------------------------------------------
(***************************************************************************)
(* The pause between two notices.  While the notice recorded last is less  *)
(* than three minutes old its record is untouched, and it is the record    *)
(* that keeps the others from a reservation.  Four tasks could spoil it:   *)
(* the handler of the reservation, which would release it; another handler *)
(* that still has a reservation; and the tasks that forget a record, in a  *)
(* while after they have read it.  These have read an earlier notice, since*)
(* the id of a notice is new when it is sent and stays so until it is      *)
(* recorded.                                                               *)
(***************************************************************************)
(* A notice that a task has read from the record and is about to forget.   *)
Doomed(n) ==
    \/ starter.pc \in {"clear", "forget"} /\ starter.notice = n
    \/ \E b \in Bots : cleaner[b].pc \in {"expire", "clear"} /\ cleaner[b].notice = n

Fresh ==
    \A h \in Handlers : handler[h].pc = "record" =>
        /\ handler[h].notice # gate.notice
        /\ ~Doomed(handler[h].notice)
        /\ \A g \in Handlers \ {h} :
                handler[g].pc = "record" => handler[g].notice # handler[h].notice

Paced ==
    shown < NoticeTtl =>
        /\ gate.notice # None
        /\ gate.age = shown
        /\ gate.left = NoticeTtl - shown
        /\ ~Doomed(gate.notice)
        /\ \A h \in Handlers : gate.by = h => handler[h].pc \notin Waiting

Pacing == Typed /\ Fresh /\ Paced

LEMMA FreshKept ==
    ASSUME Fresh, Typed',
           gate'.notice \in {gate.notice, None},
           \A h \in Handlers : handler'[h].pc = "record" =>
                handler[h].pc = "record" /\ handler'[h].notice = handler[h].notice,
           \A n \in Notices : Doomed(n)' => Doomed(n) \/ n = gate.notice
    PROVE  Fresh'
<1> SUFFICES ASSUME NEW h \in Handlers, handler'[h].pc = "record"
             PROVE  /\ handler'[h].notice # gate'.notice
                    /\ ~Doomed(handler[h].notice)'
                    /\ \A g \in Handlers \ {h} :
                          handler'[g].pc = "record" => handler'[g].notice # handler'[h].notice
  BY DEF Fresh, Doomed
<1> DEFINE n == handler[h].notice
<1>1. handler[h].pc = "record" /\ handler'[h].notice = n
  OBVIOUS
<1>2. n \in Notices
  BY <1>1 DEF Typed, Placed, HasNotice
<1>3. n # None
  BY <1>2, GateAssumption
<1>4. n # gate.notice /\ ~Doomed(n)
  BY <1>1 DEF Fresh
<1>5. ~Doomed(n)'
  BY <1>2, <1>4
<1>6. ~Doomed(handler[h].notice)'
  BY <1>1, <1>5 DEF Doomed
<1>7. \A g \in Handlers \ {h} :
            handler'[g].pc = "record" => handler'[g].notice # handler'[h].notice
  BY <1>1 DEF Fresh
<1> QED BY <1>1, <1>3, <1>4, <1>6, <1>7

LEMMA PacedKept ==
    ASSUME Paced, shown' = shown,
           gate'.notice = gate.notice, gate'.age = gate.age, gate'.left = gate.left,
           \A h \in Handlers : gate'.by = h =>
                gate.by = h /\ (handler'[h].pc \notin Waiting \/ handler[h].pc \in Waiting),
           Doomed(gate.notice)' => Doomed(gate.notice)
    PROVE  Paced'
<1> SUFFICES ASSUME shown < NoticeTtl
             PROVE  /\ gate'.notice # None
                    /\ gate'.age = shown'
                    /\ gate'.left = NoticeTtl - shown'
                    /\ ~Doomed(gate.notice)'
                    /\ \A h \in Handlers : gate'.by = h => handler'[h].pc \notin Waiting
  BY DEF Paced
<1> QED BY DEF Paced

(* The steps of a handler that neither send nor record a notice.           *)
LEMMA HandlerStepPaces ==
    ASSUME Pacing, Typed', NEW h \in Handlers, OthersStay(h),
           handler'[h].pc # "record",
           handler'[h].pc \in Waiting => handler[h].pc \in Waiting,
           UNCHANGED <<starter, cleaner, shown>>,
           gate'.by = gate.by, gate'.age = gate.age,
           gate'.notice = gate.notice, gate'.left = gate.left
    PROVE  Pacing'
<1>1. \A n : Doomed(n)' => Doomed(n)
  BY DEF Doomed
<1>2. Fresh'
  <2>1. \A g \in Handlers : handler'[g].pc = "record" =>
                handler[g].pc = "record" /\ handler'[g].notice = handler[g].notice
    BY DEF OthersStay
  <2> QED BY <1>1, <2>1, FreshKept DEF Pacing
<1>3. Paced'
  <2>1. \A g \in Handlers : handler'[g].pc \notin Waiting \/ handler[g].pc \in Waiting
    BY DEF OthersStay
  <2> QED BY <1>1, <2>1, PacedKept DEF Pacing
<1> QED BY <1>2, <1>3 DEF Pacing

LEMMA MessageStepPaces ==
    ASSUME Pacing, NEW h \in Handlers,
           \/ \E m \in Messages : Receive(h, m)
           \/ CheckLive(h) \/ Touch(h) \/ PrepareDecision(h) \/ DeleteMessage(h)
           \/ MarkDeleted(h) \/ EventFailed(h) \/ DeletionFailed(h)
           \/ WarningFailed(h) \/ WarningCompleted(h)
           \/ RetractNotice(h) \/ QueueCleanup(h) \/ ReplaceNotice(h)
    PROVE  Pacing'
<1>1. Typed' /\ TypeOK /\ gate \in GateRow
  BY ReceiveTyped, CheckLiveTyped, TouchTyped, PrepareDecisionTyped, DeleteMessageTyped,
     MarkDeletedTyped, WarningSettledTyped, RetractNoticeTyped, ReplaceNoticeTyped
     DEF Pacing, Typed, TypeOK
<1>2. UNCHANGED <<starter, cleaner, shown>>
  BY DEF Receive, CheckLive, Touch, PrepareDecision, DeleteMessage, MarkDeleted, EventFailed,
         DeletionFailed, WarningFailed, WarningCompleted, RetractNotice, QueueCleanup,
         ReplaceNotice
<1>3. /\ gate'.by = gate.by /\ gate'.age = gate.age
      /\ gate'.notice = gate.notice /\ gate'.left = gate.left
  <2>1. \/ UNCHANGED gate
        \/ \E p, w : gate' = [gate EXCEPT !.pending = p, !.warned = w]
        \/ \E p : gate' = [gate EXCEPT !.pending = p]
    BY DEF Receive, CheckLive, Touch, PrepareDecision, DeleteMessage, MarkDeleted, EventFailed,
           DeletionFailed, WarningFailed, WarningCompleted, RetractNotice, QueueCleanup,
           ReplaceNotice, database
  <2> QED BY <1>1, <2>1 DEF GateRow
<1>4. /\ OthersStay(h) /\ handler'[h].pc # "record"
      /\ handler'[h].pc \in Waiting => handler[h].pc \in Waiting
  <2>1. CASE DeleteMessage(h)
    BY <1>1, <2>1, DeleteMessageMoves DEF Waiting, Reserving
  <2>2. CASE RetractNotice(h) \/ QueueCleanup(h) \/ ReplaceNotice(h)
    <3>1. CASE Goto(h, "queue")
      BY <1>1, <3>1, Moved DEF HandlerPc, Waiting, Reserving
    <3>2. CASE \E pc \in {"complete", "idle"} : Go(h, pc)
      BY <1>1, <3>2, Gone DEF HandlerPc, Waiting, Reserving
    <3> QED BY <2>2, <3>1, <3>2 DEF RetractNotice, QueueCleanup, ReplaceNotice, AfterNotice
  <2>3. CASE ~DeleteMessage(h) /\ ~(RetractNotice(h) \/ QueueCleanup(h) \/ ReplaceNotice(h))
    BY <1>1, <2>3, QuietMoves DEF Waiting, Reserving
  <2> QED BY <2>1, <2>2, <2>3
<1> QED BY <1>1, <1>2, <1>3, <1>4, HandlerStepPaces

(* A reservation is made only after the pause.                             *)
LEMMA ReservedWhilePaced ==
    ASSUME Pacing, ~Reserved
    PROVE  shown = NoticeTtl
<1>1. shown \in 0 .. NoticeTtl /\ NoticeTtl \in Nat
  BY ConstantsTyped DEF Pacing, Typed, TypeOK
<1>2. ~(shown < NoticeTtl)
  BY DEF Pacing, Paced, Reserved
<1> QED BY <1>1, <1>2

LEMMA ReserveNoticePaces ==
    ASSUME Pacing, NEW h \in Handlers, ReserveNotice(h)
    PROVE  Pacing'
<1>1. Typed' /\ TypeOK /\ gate \in GateRow /\ handler[h] \in HandlerState
  BY ReserveNoticeTyped DEF Pacing, Typed, TypeOK
<1>2. UNCHANGED <<starter, cleaner, shown>>
  BY DEF ReserveNotice
<1>3. CASE UNCHANGED gate /\ \E pc \in {"complete", "idle"} : Go(h, pc)
  <2>1. OthersStay(h) /\ handler'[h].pc \notin Waiting /\ handler'[h].pc # "record"
    BY <1>1, <1>3, Gone DEF Waiting, Reserving, HandlerPc
  <2> QED BY <1>1, <1>2, <1>3, <2>1, HandlerStepPaces
<1>4. CASE /\ ~Reserved
           /\ gate' = [gate EXCEPT !.by = h, !.age = 0]
           /\ \E pc \in {"purge", "send"} : handler' = [handler EXCEPT ![h] =
                    [@ EXCEPT !.pc = pc, !.previous = gate.notice]]
  <2>1. PICK pc \in {"purge", "send"} : handler' = [handler EXCEPT ![h] =
                    [@ EXCEPT !.pc = pc, !.previous = gate.notice]]
    BY <1>4
  <2> DEFINE s == [handler[h] EXCEPT !.pc = pc, !.previous = gate.notice]
  <2>2. s.pc # "record"
    BY <1>1 DEF HandlerState
  <2>3. handler' = [handler EXCEPT ![h] = s]
    BY <2>1
  <2> HIDE DEF s
  <2>4. OthersStay(h) /\ handler'[h].pc # "record"
    BY <1>1, <2>2, <2>3 DEF OthersStay, TypeOK
  <2>5. gate'.notice = gate.notice
    BY <1>1, <1>4 DEF GateRow
  <2>6. Fresh'
    <3>1. \A n : Doomed(n)' => Doomed(n)
      BY <1>2 DEF Doomed
    <3>2. \A g \in Handlers : handler'[g].pc = "record" =>
                handler[g].pc = "record" /\ handler'[g].notice = handler[g].notice
      BY <2>4 DEF OthersStay
    <3> QED BY <1>1, <2>5, <3>1, <3>2, FreshKept DEF Pacing
  <2>7. Paced'
    <3>1. ~(shown' < NoticeTtl)
      BY <1>2, <1>4, ReservedWhilePaced, ConstantsTyped
    <3> QED BY <3>1 DEF Paced
  <2> QED BY <1>1, <2>6, <2>7 DEF Pacing
<1> QED BY <1>3, <1>4 DEF ReserveNotice

LEMMA SendNoticePaces ==
    ASSUME Pacing, NEW h \in Handlers, SendNotice(h)
    PROVE  Pacing'
<1> DEFINE n == CHOOSE n \in Notices : Unused(n)
<1>1. n \in Notices /\ Unused(n)
  BY DEF SendNotice
<1>2. \/ handler' = [handler EXCEPT ![h] = [@ EXCEPT !.pc = "record", !.notice = n]]
      \/ Goto(h, "release")
  BY DEF SendNotice
<1> HIDE DEF n
<1>3. /\ handler[h].pc = "send"
      /\ UNCHANGED <<gate, starter, cleaner, shown>>
  BY DEF SendNotice, At, database
<1>4. Typed' /\ TypeOK /\ handler[h] \in HandlerState
  BY SendNoticeTyped DEF Pacing, Typed, TypeOK
<1>5. CASE Goto(h, "release")
  <2>1. OthersStay(h) /\ handler'[h].pc = "release"
    BY <1>4, <1>5, Moved DEF HandlerPc
  <2> QED BY <1>3, <1>4, <2>1, HandlerStepPaces DEF Waiting, Reserving
<1>6. CASE handler' = [handler EXCEPT ![h] = [@ EXCEPT !.pc = "record", !.notice = n]]
  <2> DEFINE s == [handler[h] EXCEPT !.pc = "record", !.notice = n]
  <2>1. s.pc = "record" /\ s.notice = n
    BY <1>4 DEF HandlerState
  <2>2. handler' = [handler EXCEPT ![h] = s]
    BY <1>6
  <2> HIDE DEF s
  <2>3. OthersStay(h) /\ handler'[h].notice = n
    BY <1>4, <2>1, <2>2 DEF OthersStay, TypeOK
  <2>4. n # gate.notice /\ ~Doomed(n) /\ \A g \in Handlers : handler[g].notice # n
    BY <1>1 DEF Unused, Doomed
  <2>5. \A x : Doomed(x)' <=> Doomed(x)
    BY <1>3 DEF Doomed
  <2>6. ASSUME NEW g \in Handlers, handler'[g].pc = "record"
        PROVE  /\ handler'[g].notice # gate'.notice
               /\ ~Doomed(handler[g].notice)'
               /\ \A f \in Handlers \ {g} :
                     handler'[f].pc = "record" => handler'[f].notice # handler'[g].notice
    <3>1. CASE g = h
      <4>1. ~Doomed(handler[g].notice)'
        BY <1>3, <2>3, <2>4, <3>1 DEF Doomed
      <4> QED BY <1>3, <2>3, <2>4, <3>1, <4>1 DEF OthersStay
    <3>2. CASE g # h
      <4>1. handler'[g] = handler[g]
        BY <2>3, <3>2 DEF OthersStay
      <4>2. handler[g].notice # gate.notice /\ ~Doomed(handler[g].notice)
        BY <2>6, <4>1 DEF Pacing, Fresh
      <4>3. ~Doomed(handler[g].notice)'
        BY <1>3, <4>1, <4>2 DEF Doomed
      <4>4. ASSUME NEW f \in Handlers \ {g}, handler'[f].pc = "record"
            PROVE  handler'[f].notice # handler[g].notice
        <5>1. CASE f = h
          BY <2>3, <2>4, <5>1
        <5>2. CASE f # h
          BY <2>3, <2>6, <4>1, <4>4, <5>2 DEF OthersStay, Pacing, Fresh
        <5> QED BY <5>1, <5>2
      <4> QED BY <1>3, <4>1, <4>2, <4>3, <4>4
    <3> QED BY <3>1, <3>2
  <2>7. Fresh'
    BY <2>6 DEF Fresh, Doomed
  <2>8. Paced'
    <3>1. \A g \in Handlers : handler'[g].pc \notin Waiting \/ handler[g].pc \in Waiting
      BY <1>3, <2>3 DEF OthersStay, Waiting, Reserving
    <3> QED BY <1>3, <2>5, <3>1, PacedKept DEF Pacing
  <2> QED BY <1>4, <2>7, <2>8 DEF Pacing
<1> QED BY <1>2, <1>5, <1>6

(* The handler that releases a reservation has recorded nothing under it.  *)
LEMMA ReleaseNoticePaces ==
    ASSUME Pacing, NEW h \in Handlers, ReleaseNotice(h)
    PROVE  Pacing'
<1>1. Typed' /\ TypeOK /\ gate \in GateRow
  BY ReleaseNoticeTyped DEF Pacing, Typed, TypeOK
<1>2. UNCHANGED <<starter, cleaner, shown>> /\ handler[h].pc = "release"
  BY DEF ReleaseNotice, At
<1>3. OthersStay(h) /\ handler'[h].pc \notin Waiting /\ handler'[h].pc # "record"
  <2>1. PICK pc \in {"undo", "idle"} : Go(h, pc)
    BY DEF ReleaseNotice
  <2> QED BY <1>1, <2>1, Gone DEF Waiting, Reserving, HandlerPc
<1>4. CASE gate.by # h
  <2>1. gate' = gate
    BY <1>4 DEF ReleaseNotice
  <2> QED BY <1>1, <1>2, <1>3, <2>1, HandlerStepPaces
<1>5. CASE gate.by = h
  <2>1. ~(shown' < NoticeTtl)
    BY <1>2, <1>5 DEF Pacing, Paced, Waiting
  <2>2. gate'.notice = gate.notice
    BY <1>1 DEF ReleaseNotice, GateRow
  <2>3. \A n : Doomed(n)' => Doomed(n)
    BY <1>2 DEF Doomed
  <2>4. \A g \in Handlers : handler'[g].pc = "record" =>
                handler[g].pc = "record" /\ handler'[g].notice = handler[g].notice
    BY <1>3 DEF OthersStay
  <2>5. Fresh'
    BY <1>1, <2>2, <2>3, <2>4, FreshKept DEF Pacing
  <2> QED BY <1>1, <2>1, <2>5 DEF Pacing, Paced
<1> QED BY <1>4, <1>5

LEMMA RecordNoticePaces ==
    ASSUME Pacing, NEW h \in Handlers, RecordNotice(h)
    PROVE  Pacing'
<1> DEFINE n == handler[h].notice
<1>1. Typed' /\ TypeOK /\ gate \in GateRow /\ n \in Notices
  BY RecordNoticeTyped DEF Pacing, Typed, TypeOK, RecordNotice, At, Placed, HasNotice
<1>2. UNCHANGED <<starter, cleaner>> /\ handler[h].pc = "record"
  BY DEF RecordNotice, At
<1>3. CASE Goto(h, "retract") /\ UNCHANGED <<gate, shown>>
  <2>1. OthersStay(h) /\ handler'[h].pc = "retract"
    BY <1>1, <1>3, Moved DEF HandlerPc
  <2> QED BY <1>1, <1>2, <1>3, <2>1, HandlerStepPaces DEF Waiting, Reserving
<1>4. CASE /\ gate.by = h
           /\ gate' = [gate EXCEPT !.notice = n, !.left = NoticeTtl - gate.age]
           /\ shown' = gate.age
           /\ \E pc \in {"complete", "idle", "replace"} : Go(h, pc)
  <2>1. OthersStay(h) /\ handler'[h].pc \notin Waiting /\ handler'[h].pc # "record"
    BY <1>1, <1>4, Gone DEF HandlerPc, Waiting, Reserving
  <2>2. /\ gate'.notice = n /\ gate'.by = h
        /\ gate'.age = gate.age /\ gate'.left = NoticeTtl - gate.age
    BY <1>1, <1>4 DEF GateRow
  <2>3. ~Doomed(n) /\ \A g \in Handlers \ {h} :
                        handler[g].pc = "record" => handler[g].notice # n
    BY <1>2 DEF Pacing, Fresh
  <2>4. \A x : Doomed(x)' <=> Doomed(x)
    BY <1>2 DEF Doomed
  <2>5. Fresh'
    <3>1. SUFFICES ASSUME NEW g \in Handlers, handler'[g].pc = "record"
                   PROVE  /\ handler'[g].notice # gate'.notice
                          /\ ~Doomed(handler[g].notice)'
                          /\ \A f \in Handlers \ {g} : handler'[f].pc = "record" =>
                                handler'[f].notice # handler'[g].notice
      BY DEF Fresh, Doomed
    <3>2. g # h /\ handler'[g] = handler[g]
      BY <2>1, <3>1 DEF OthersStay
    <3>3. ~Doomed(handler[g].notice)
      BY <3>1, <3>2 DEF Pacing, Fresh
    <3>4. ~Doomed(handler[g].notice)'
      BY <1>2, <3>2, <3>3 DEF Doomed
    <3>5. \A f \in Handlers \ {g} : handler'[f].pc = "record" =>
                                handler'[f].notice # handler'[g].notice
      BY <2>1, <3>1, <3>2 DEF OthersStay, Pacing, Fresh
    <3> QED BY <2>2, <2>3, <3>1, <3>2, <3>4, <3>5
  <2>6. Paced'
    <3>1. ~Doomed(gate.notice)'
      BY <1>2, <2>2, <2>3 DEF Doomed
    <3>2. \A g \in Handlers : gate'.by = g => handler'[g].pc \notin Waiting
      BY <2>1, <2>2
    <3>3. gate'.notice # None
      BY <1>1, <2>2, GateAssumption
    <3> QED BY <1>4, <2>2, <3>1, <3>2, <3>3 DEF Paced, Doomed
  <2> QED BY <1>1, <2>5, <2>6 DEF Pacing
<1> QED BY <1>3, <1>4 DEF RecordNotice, AfterNotice

(* Tasks other than the handlers: what they have read to forget is not the *)
(* record while the pause lasts, and they read it only after the pause.    *)
LEMMA OtherTaskPaces ==
    ASSUME Pacing, Typed', UNCHANGED <<handler, shown>>,
           gate'.by \in {gate.by, None},
           gate'.notice \in {gate.notice, None},
           \A n \in Notices : Doomed(n)' => Doomed(n) \/ n = gate.notice,
           shown < NoticeTtl => /\ gate'.notice = gate.notice /\ gate'.age = gate.age
                                /\ gate'.left = gate.left
                                /\ Doomed(gate.notice)' => Doomed(gate.notice)
    PROVE  Pacing'
<1>1. Fresh'
  BY FreshKept DEF Pacing
<1>2. Paced'
  <2>1. CASE shown < NoticeTtl
    <3>1. None \notin Handlers
      BY GateAssumption
    <3> QED BY <2>1, <3>1, PacedKept DEF Pacing
  <2>2. CASE ~(shown < NoticeTtl)
    BY <2>2 DEF Paced
  <2> QED BY <2>1, <2>2
<1> QED BY <1>1, <1>2 DEF Pacing

LEMMA StarterPaces ==
    ASSUME Pacing, PrivateMessage \/ StarterStep
    PROVE  Pacing'
<1>1. Typed' /\ TypeOK /\ gate \in GateRow
      /\ starter \in [pc: StarterPc, notice: MaybeNotice]
  BY StarterTyped DEF Pacing, Typed, TypeOK
<1>2. CASE PrivateMessage \/ NoCommand \/ ClearWarning
  <2>1. UNCHANGED <<handler, shown, gate, cleaner>>
    BY <1>2 DEF PrivateMessage, NoCommand, ClearWarning, database
  <2>2. starter'.pc \in {"clear", "forget"} =>
            starter.pc \in {"clear", "forget"} /\ starter'.notice = starter.notice
    BY <1>1, <1>2 DEF PrivateMessage, NoCommand, NotStarting, ClearWarning
  <2>3. \A n : Doomed(n)' => Doomed(n)
    BY <2>1, <2>2 DEF Doomed
  <2> QED BY <1>1, <2>1, <2>3, OtherTaskPaces
<1>3. CASE MarkUserStarted
  <2>1. gate'.notice = gate.notice /\ shown' = NoticeTtl /\ UNCHANGED <<handler, cleaner>>
    BY <1>1, <1>3 DEF MarkUserStarted, GateRow
  <2>2. starter'.pc = "clear" => starter'.notice = gate.notice
    BY <1>1, <1>3 DEF MarkUserStarted, NotStarting
  <2>3. starter'.pc # "forget"
    BY <1>1, <1>3 DEF MarkUserStarted, NotStarting
  <2>4. \A n : Doomed(n)' => Doomed(n) \/ n = gate.notice
    BY <2>1, <2>2, <2>3 DEF Doomed
  <2>5. Fresh'
    BY <1>1, <2>1, <2>4, FreshKept DEF Pacing
  <2>6. Paced'
    BY <2>1, ConstantsTyped DEF Paced
  <2> QED BY <1>1, <2>5, <2>6 DEF Pacing
<1>4. CASE ForgetWarning
  <2>1. Forget(starter.notice) /\ Doomed(starter.notice)
    BY <1>4 DEF ForgetWarning, Doomed
  <2>2. UNCHANGED <<handler, shown, cleaner>> /\ starter'.pc = "again"
    BY <1>4 DEF ForgetWarning
  <2>3. \A n : Doomed(n)' => Doomed(n)
    BY <2>2 DEF Doomed
  <2>4. shown < NoticeTtl => gate' = gate
    BY <2>1 DEF Pacing, Paced, Forget
  <2> QED BY <1>1, <2>1, <2>2, <2>3, <2>4, ForgetChanges, OtherTaskPaces
<1> QED BY <1>2, <1>3, <1>4 DEF StarterStep

LEMMA CleanerPaces ==
    ASSUME Pacing, NEW b \in Bots, CleanerStep(b)
    PROVE  Pacing'
<1>1. Typed' /\ TypeOK /\ cleaner \in [Bots -> CleanerState] /\ gate \in GateRow
  BY CleanerTyped DEF Pacing, Typed, TypeOK
<1>2. UNCHANGED <<handler, shown, starter>>
  BY DEF CleanerStep, CleanerLooks, CleanerExpires, CleanerClears, CleanerSweeps,
         CleanerDrains, CleanerSettles
<1>3. ASSUME NEW c, Move(b, c), NEW n,
             c.pc \in {"expire", "clear"} =>
                \/ cleaner[b].pc \in {"expire", "clear"} /\ c.notice = cleaner[b].notice
                \/ c.notice = gate.notice,
             Doomed(n)'
      PROVE  Doomed(n) \/ n = gate.notice
  BY <1>1, <1>2, <1>3 DEF Move, Doomed
<1>4. ASSUME NEW c, Move(b, c), NEW n,
             c.pc \in {"expire", "clear"} =>
                cleaner[b].pc \in {"expire", "clear"} /\ c.notice = cleaner[b].notice,
             Doomed(n)'
      PROVE  Doomed(n)
  BY <1>1, <1>2, <1>4 DEF Move, Doomed
<1>5. /\ \A todo : Drain(todo).pc \notin {"expire", "clear"}
      /\ Sweeping.pc \notin {"expire", "clear"}
  BY DEF Drain, Resting, Sweeping
<1>6. CASE CleanerLooks(b)
  <2>1. UNCHANGED gate
    BY <1>6 DEF CleanerLooks, database
  <2>2. CASE gate.left = 0 /\ Move(b, [pc |-> "expire", notice |-> gate.notice, todo |-> {}])
    <3>1. \A n : Doomed(n)' => Doomed(n) \/ n = gate.notice
      BY <1>3, <2>2
    <3>2. ~(shown < NoticeTtl)
      <4>1. shown \in Nat /\ NoticeTtl \in Nat
        BY <1>1, ConstantsTyped DEF TypeOK
      <4> QED BY <2>2, <4>1 DEF Pacing, Paced
    <3> QED BY <1>1, <1>2, <2>1, <3>1, <3>2, OtherTaskPaces
  <2>3. CASE Move(b, Drain(cleanup))
    <3>1. \A n : Doomed(n)' => Doomed(n)
      BY <1>4, <1>5, <2>3
    <3> QED BY <1>1, <1>2, <2>1, <3>1, OtherTaskPaces
  <2> QED BY <1>6, <2>2, <2>3 DEF CleanerLooks
<1>7. CASE CleanerExpires(b)
  <2>1. UNCHANGED gate /\ cleaner[b].pc = "expire"
    BY <1>7 DEF CleanerExpires, database
  <2>2. cleaner[b] \in CleanerState
    BY <1>1
  <2>3. [cleaner[b] EXCEPT !.pc = "clear"].notice = cleaner[b].notice
    BY <2>2 DEF CleanerState
  <2>4. PICK c : Move(b, c) /\ (c.pc \in {"expire", "clear"} => c.notice = cleaner[b].notice)
    BY <1>5, <1>7, <2>3 DEF CleanerExpires
  <2>5. \A n : Doomed(n)' => Doomed(n)
    BY <1>4, <2>1, <2>4
  <2> QED BY <1>1, <1>2, <2>1, <2>5, OtherTaskPaces
<1>8. CASE CleanerClears(b)
  <2>1. Forget(cleaner[b].notice) /\ Doomed(cleaner[b].notice) /\ Move(b, Sweeping)
    BY <1>8 DEF CleanerClears, Doomed
  <2>2. \A n : Doomed(n)' => Doomed(n)
    BY <1>4, <1>5, <2>1
  <2>3. shown < NoticeTtl => gate' = gate
    BY <2>1 DEF Pacing, Paced, Forget
  <2> QED BY <1>1, <1>2, <2>1, <2>2, <2>3, ForgetChanges, OtherTaskPaces
<1>9. CASE CleanerSweeps(b) \/ CleanerDrains(b) \/ CleanerSettles(b)
  <2>1. UNCHANGED gate
    BY <1>9 DEF CleanerSweeps, CleanerDrains, CleanerSettles, database
  <2>2. PICK c : Move(b, c) /\ c.pc \notin {"expire", "clear"}
    <3>1. cleaner[b] \in CleanerState
      BY <1>1
    <3>2. \A n : [cleaner[b] EXCEPT !.pc = "settle", !.notice = n].pc = "settle"
      BY <3>1 DEF CleanerState
    <3>3. CASE CleanerDrains(b)
      BY <1>5, <3>2, <3>3 DEF CleanerDrains
    <3> QED BY <1>5, <1>9, <3>3 DEF CleanerSweeps, CleanerSettles
  <2>3. \A n : Doomed(n)' => Doomed(n)
    BY <1>4, <2>2
  <2> QED BY <1>1, <1>2, <2>1, <2>3, OtherTaskPaces
<1> QED BY <1>6, <1>7, <1>8, <1>9 DEF CleanerStep

(* The record, the reservation and the notice grow older together.         *)
LEMMA TickPaces ==
    ASSUME Pacing, Tick
    PROVE  Pacing'
<1>1. Typed' /\ gate \in GateRow /\ shown \in 0 .. NoticeTtl /\ NoticeTtl \in Nat
  BY OthersTyped, ConstantsTyped DEF Pacing, Typed, TypeOK
<1>2. UNCHANGED <<handler, starter, cleaner>> /\ shown' = Older(shown, NoticeTtl)
  BY DEF Tick, process
<1>3. /\ gate'.by = gate.by /\ gate'.notice = gate.notice
      /\ gate'.age = Older(gate.age, NoticeTtl)
      /\ gate'.left = IF gate.left > 0 THEN gate.left - 1 ELSE 0
  BY <1>1 DEF Tick, GateRow
<1>4. \A n : Doomed(n)' <=> Doomed(n)
  BY <1>2 DEF Doomed
<1>5. Fresh'
  BY <1>1, <1>2, <1>3, <1>4, FreshKept DEF Pacing
<1>6. Paced'
  <2>1. CASE shown' < NoticeTtl
    <3>1. shown < NoticeTtl /\ shown' = shown + 1
      BY <1>1, <1>2, <2>1 DEF Older
    <3>2. /\ gate.notice # None /\ gate.age = shown /\ gate.left = NoticeTtl - shown
          /\ ~Doomed(gate.notice)
          /\ \A h \in Handlers : gate.by = h => handler[h].pc \notin Waiting
      BY <3>1 DEF Pacing, Paced
    <3>3. gate'.age = shown' /\ gate'.left = NoticeTtl - shown'
      BY <1>1, <1>3, <3>1, <3>2 DEF Older
    <3>4. ~Doomed(gate.notice)'
      BY <1>2, <1>3, <3>2 DEF Doomed
    <3> QED BY <1>2, <1>3, <3>2, <3>3, <3>4 DEF Paced, Doomed
  <2>2. CASE ~(shown' < NoticeTtl)
    BY <2>2 DEF Paced
  <2> QED BY <2>1, <2>2
<1> QED BY <1>1, <1>5, <1>6 DEF Pacing

LEMMA CrashPaces ==
    ASSUME Pacing, Crash
    PROVE  Pacing'
<1>1. Typed'
  BY OthersTyped DEF Pacing
<1>2. UNCHANGED <<gate, shown>>
  BY DEF Crash, database
<1>3. \A h \in Handlers : handler'[h].pc = "idle"
  BY DEF Crash, Idle
<1>4. \A n : ~Doomed(n)'
  BY DEF Crash, Doomed, NotStarting, Resting
<1>5. Fresh'
  BY <1>3 DEF Fresh
<1>6. Paced'
  BY <1>2, <1>3, <1>4, PacedKept DEF Pacing, Waiting, Reserving
<1> QED BY <1>1, <1>5, <1>6 DEF Pacing

LEMMA NextPaces ==
    ASSUME Pacing, [Next]_vars
    PROVE  Pacing'
<1>1. ASSUME NEW h \in Handlers, MessageStep(h) \/ \E m \in Messages : Receive(h, m)
      PROVE  Pacing'
  BY <1>1, MessageStepPaces, ReserveNoticePaces, SendNoticePaces, ReleaseNoticePaces,
     RecordNoticePaces DEF MessageStep
<1>2. CASE Block \/ UNCHANGED vars
  <2>1. Typed'
    BY <1>2, NextTyped DEF Pacing
  <2>2. UNCHANGED <<gate, handler, shown, starter, cleaner>>
    BY <1>2 DEF Block, vars, database, process
  <2>3. \A n : Doomed(n)' => Doomed(n)
    BY <2>2 DEF Doomed
  <2> QED BY <2>1, <2>2, <2>3, OtherTaskPaces
<1> QED BY <1>1, <1>2, StarterPaces, CleanerPaces, TickPaces, CrashPaces DEF Next

(* No other step can be taken for a reservation.                           *)
LEMMA ReservationsAreReserved ==
    ASSUME Pacing, Next, gate'.by # None, gate'.age = 0,
           gate.by # gate'.by \/ gate.age # 0
    PROVE  \E h \in Handlers : ReserveNotice(h) /\ ~Reserved
<1>1. TypeOK /\ gate \in GateRow /\ NoticeTtl \in Nat /\ NoticeTtl > 0
  BY ConstantsTyped DEF Pacing, Typed, TypeOK
<1>2. ASSUME NEW h \in Handlers, MessageStep(h) \/ \E m \in Messages : Receive(h, m)
      PROVE  ReserveNotice(h) /\ ~Reserved
  <2>1. CASE ReleaseNotice(h)
    BY <1>1, <2>1 DEF ReleaseNotice, GateRow
  <2>2. CASE RecordNotice(h)
    BY <1>1, <2>2 DEF RecordNotice, GateRow
  <2>3. CASE SendNotice(h)
    BY <2>3 DEF SendNotice, database
  <2>4. CASE ReserveNotice(h)
    BY <2>4 DEF ReserveNotice
  <2>5. CASE \/ UNCHANGED gate
             \/ \E p, w : gate' = [gate EXCEPT !.pending = p, !.warned = w]
             \/ \E p : gate' = [gate EXCEPT !.pending = p]
    BY <1>1, <2>5 DEF GateRow
  <2> QED BY <1>2, <2>1, <2>2, <2>3, <2>4, <2>5
          DEF MessageStep, Receive, CheckLive, Touch, PrepareDecision, DeleteMessage,
              MarkDeleted, EventFailed, DeletionFailed, WarningFailed, WarningCompleted,
              RetractNotice, QueueCleanup, ReplaceNotice, database
<1>3. ~MarkUserStarted
  BY <1>1 DEF MarkUserStarted, GateRow
<1>4. ASSUME NEW n, Forget(n)
      PROVE  FALSE
  BY <1>1, <1>4 DEF Forget, GateRow
<1>5. ~(PrivateMessage \/ StarterStep)
  BY <1>3, <1>4 DEF PrivateMessage, StarterStep, ClearWarning, ForgetWarning, NoCommand, database
<1>6. ~(\E b \in Bots : CleanerStep(b))
  BY <1>4 DEF CleanerStep, CleanerLooks, CleanerExpires, CleanerClears, CleanerSweeps,
              CleanerDrains, CleanerSettles, database
<1>7. ~Tick
  <2>1. \A age \in 0 .. NoticeTtl : Older(age, NoticeTtl) # 0
    BY <1>1 DEF Older
  <2> QED BY <1>1, <2>1 DEF Tick, GateRow
<1>8. ~(Block \/ Crash)
  BY DEF Block, Crash, database
<1> QED BY <1>2, <1>5, <1>6, <1>7, <1>8 DEF Next

(* Two notices are three minutes apart unless the member has started the   *)
(* bot in between: no slow handler, release, retraction, cleanup or crash  *)
(* makes room for a reservation while the notice recorded last is younger. *)
THEOREM NoticesKeepTheirPause == Spec => NoticesSpaced
<1>1. Init => Pacing
  <2> SUFFICES ASSUME Init PROVE Pacing
    OBVIOUS
  <2>1. ~(shown < NoticeTtl)
    BY ConstantsTyped DEF Init
  <2>2. Fresh
    BY DEF Init, Fresh, Idle
  <2> QED BY <2>1, <2>2, InitTyped DEF Pacing, Paced
<1>2. Pacing /\ [Next]_vars => Pacing'
  BY NextPaces
<1>3. Pacing /\ [Next]_vars =>
        [gate'.by # None /\ gate'.age = 0 /\ (gate.by # gate'.by \/ gate.age # 0)
            => shown = NoticeTtl]_vars
  BY ReservationsAreReserved, ReservedWhilePaced
<1> QED BY <1>1, <1>2, <1>3, PTL DEF Spec, NoticesSpaced

===============================================================================
