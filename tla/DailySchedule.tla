----------------------------- MODULE DailySchedule -----------------------------
(***************************************************************************)
(* The daily lock and unlock times of one group (the GroupSchedule table)  *)
(* and the pass of a worker that turns a schedule whose time has come into *)
(* a moderation action (enqueue_daily_group_schedules).                    *)
(*                                                                         *)
(* Schedules are set and removed by the commands /lockat and /unlockat,    *)
(* which keep one schedule per action, and by the admin agent, which keeps *)
(* one per action and time.  Each of these steps, and a whole pass, is one *)
(* transaction.                                                            *)
(***************************************************************************)
EXTENDS Integers, Sequences, FiniteSets, Functions

(* Definitions named Faulty... are not part of the model: each is a likely *)
(* mistake in the definition that follows it, kept to show that a property *)
(* below would notice.                                                     *)

CONSTANTS
    DayLength,      \* moments of a day, 0 .. DayLength - 1
    MaxDays,        \* bound: days, 1 .. MaxDays
    MaxSchedules    \* bound: schedules ever created

ASSUME ScheduleAssumption ==
    /\ DayLength \in Nat \ {0}
    /\ MaxDays \in Nat \ {0}
    /\ MaxSchedules \in Nat

VARIABLES
    schedules,      \* id -> the GroupSchedule row
    queue,          \* the actions the passes have inserted, oldest first
    clock,          \* local date and time
    passed,         \* a pass has been made at this moment
    \* observation only
    settled,        \* ids unchanged since before this moment
    spent           \* ids set anew today after they had acted today

vars == <<schedules, queue, clock, passed, settled, spent>>

Action == {"lock", "unlock"}
Time == 0 .. DayLength - 1
Day == 1 .. MaxDays
ScheduleId == 1 .. MaxSchedules

(* last is last_enqueued_date, with 0 for None.                            *)
Unused == [state |-> "unused", action |-> "lock", at |-> 0, last |-> 0]
Deleted == [Unused EXCEPT !.state = "deleted"]
Schedule == [state: {"unused", "present", "deleted"}, action: Action, at: Time,
             last: 0 .. MaxDays]

(* An action with the key sys:daily:<id>:<day>; at is the time its         *)
(* schedule asked for.                                                     *)
Enqueued == [id: ScheduleId, day: Day, action: Action, at: Time]

TypeOK ==
    /\ schedules \in [ScheduleId -> Schedule]
    /\ queue \in Seq(Enqueued)
    /\ clock \in [day: Day, time: Time]
    /\ passed \in BOOLEAN
    /\ settled \subseteq ScheduleId
    /\ spent \subseteq ScheduleId

Init ==
    /\ schedules = [s \in ScheduleId |-> Unused]
    /\ queue = <<>>
    /\ clock = [day |-> 1, time |-> 0]
    /\ passed = FALSE
    /\ settled = ScheduleId
    /\ spent = {}

-------------------------------------------------------------------------------
Present == {s \in ScheduleId : schedules[s].state = "present"}

Rows(action) == {s \in Present : schedules[s].action = action}
RowsAt(action, at) == {s \in Rows(action) : schedules[s].at = at}

(* The database never uses an id again. *)
NextId == {s \in ScheduleId : /\ schedules[s].state = "unused"
                              /\ \A r \in ScheduleId : r < s => schedules[r].state # "unused"}

KeyTaken(s) == \E n \in DOMAIN queue : queue[n].id = s /\ queue[n].day = clock.day

(* The mark is emptied, but the key of a day on which s has acted stays.   *)
Put(s, action, at) ==
    /\ schedules' = [schedules EXCEPT ![s] =
            [state |-> "present", action |-> action, at |-> at, last |-> 0]]
    /\ settled' = settled \ {s}
    /\ spent' = IF KeyTaken(s) THEN spent \cup {s} ELSE spent
    /\ UNCHANGED <<queue, clock, passed>>

Delete(S) ==
    /\ schedules' = [s \in ScheduleId |-> IF s \in S THEN Deleted ELSE schedules[s]]
    /\ settled' = settled \ S
    /\ spent' = spent \ S
    /\ UNCHANGED <<queue, clock, passed>>

(* /lockat HH:MM and /unlockat HH:MM: update_or_create on (group, action). *)
(* With two schedules of the action, which only the agent can make, it     *)
(* raises MultipleObjectsReturned and changes nothing.                     *)
SetByCommand(action, at) ==
    \/ Rows(action) = {} /\ \E s \in NextId : Put(s, action, at)
    \/ \E s \in Rows(action) : Rows(action) = {s} /\ Put(s, action, at)

(* /lockat off and /unlockat off. *)
RemoveByCommand(action) ==
    /\ Rows(action) # {}
    /\ Delete(Rows(action))

(* group.add_daily_schedule: update_or_create on (group, action, time).    *)
(* An existing row keeps its last_enqueued_date, and all that is modelled. *)
AddByAgent(action, at) ==
    /\ RowsAt(action, at) = {}
    /\ \E s \in NextId : Put(s, action, at)

(* group.remove_daily_schedule. *)
RemoveByAgent(action, at) ==
    /\ RowsAt(action, at) # {}
    /\ Delete(RowsAt(action, at))

-------------------------------------------------------------------------------
(* enqueue_daily_group_schedules.  The rows come in any order (the query   *)
(* has no order_by); every due one is marked, and an action is inserted    *)
(* for those whose key is new: create_action returns the action of an      *)
(* earlier pass when its key is in the table.                              *)
Due == {s \in Present : /\ schedules[s].at <= clock.time
                        /\ schedules[s].last # clock.day}

ActionOf(s) == [id |-> s, day |-> clock.day, action |-> schedules[s].action,
                at |-> schedules[s].at]

(* last_enqueued_date becomes the local date. *)
FaultyMark(S) ==
    schedules' = [s \in ScheduleId |->
        IF s \in S THEN [schedules[s] EXCEPT !.last = clock.day + 1] ELSE schedules[s]]

Mark(S) ==
    schedules' = [s \in ScheduleId |->
        IF s \in S THEN [schedules[s] EXCEPT !.last = clock.day] ELSE schedules[s]]

Enqueue(S) ==
    \E order \in Bijection(1 .. Cardinality(S), S) :
        queue' = queue \o [n \in 1 .. Cardinality(S) |-> ActionOf(order[n])]

FaultyPassWithoutKeys ==
    /\ Mark(Due)
    /\ Enqueue(Due)
    /\ passed' = TRUE
    /\ UNCHANGED <<clock, settled, spent>>

FaultyPassMarksAll ==
    /\ Mark(Present)
    /\ Enqueue({s \in Due : ~KeyTaken(s)})
    /\ passed' = TRUE
    /\ UNCHANGED <<clock, settled, spent>>

Pass ==
    /\ Mark(Due)
    /\ Enqueue({s \in Due : ~KeyTaken(s)})
    /\ passed' = TRUE
    /\ UNCHANGED <<clock, settled, spent>>

(* A moment may go by without a pass: the worker is down.                  *)
Tick ==
    /\ clock' \in [day: Day, time: Time]
    /\ clock'.day * DayLength + clock'.time = clock.day * DayLength + clock.time + 1
    /\ passed' = FALSE
    /\ settled' = ScheduleId
    /\ spent' = IF clock'.day = clock.day THEN spent ELSE {}
    /\ UNCHANGED <<schedules, queue>>

Edit ==
    \E action \in Action :
        \/ RemoveByCommand(action)
        \/ \E at \in Time :
            SetByCommand(action, at) \/ AddByAgent(action, at) \/ RemoveByAgent(action, at)

Next == Edit \/ Pass \/ Tick

Spec == Init /\ [][Next]_vars

-------------------------------------------------------------------------------
(* A schedule causes at most one action a day, however often it is set     *)
(* anew, and however many workers make passes.                             *)
OncePerDay ==
    \A m, n \in DOMAIN queue :
        queue[m].id = queue[n].id /\ queue[m].day = queue[n].day => m = n

(* A schedule that is marked as done for a day has an action of that day:  *)
(* the mark and the action are written together.                           *)
MarkedWasEnqueued ==
    \A s \in Present : schedules[s].last # 0 =>
        \E n \in DOMAIN queue : queue[n].id = s /\ queue[n].day = schedules[s].last

(* When a moment ends at which a worker made a pass, every schedule that   *)
(* was in place when the moment began and whose time has come, at this     *)
(* moment or while no worker ran, has acted today for the time it now has. *)
(* Those of spent are left out.  A schedule that is moved to a later time  *)
(* after it has acted misses that time until the next day: /lockat empties *)
(* its mark (runbot.py:1090), but the new action would have the key of the *)
(* one already in the table (moderation.py:266-273).                       *)
ServedAtItsTime ==
    [][Tick /\ passed =>
        \A s \in (settled \cap Present) \ spent : schedules[s].at <= clock.time =>
            \E n \in DOMAIN queue : /\ queue[n].id = s /\ queue[n].day = clock.day
                                   /\ queue[n].at = schedules[s].at]_vars

===============================================================================
