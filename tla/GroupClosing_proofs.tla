--------------------------- MODULE GroupClosing_proofs ---------------------------
(***************************************************************************)
(* Closing and opening a group: when it happens (DailySchedule), and what  *)
(* it leaves behind (GroupLock, whose specification is LockSpec here).     *)
(*                                                                         *)
(* A schedule acts once a day, and a pass serves what the passes before it *)
(* have missed, except for schedules moved after they have acted, for any  *)
(* length of the day, number of days and number of schedules.  An unlock   *)
(* opens the group, for any number of executors and any permissions.       *)
(***************************************************************************)
EXTENDS DailySchedule, GroupLock, TLAPS, FiniteSetTheorems

HasAction(s, day) == \E n \in DOMAIN queue : queue[n].id = s /\ queue[n].day = day

HasActionAt(s, day, at) ==
    \E n \in DOMAIN queue : queue[n].id = s /\ queue[n].day = day /\ queue[n].at = at

(***************************************************************************)
(* The inductive invariant: the two invariants; that an action of today is *)
(* for the time its schedule has, unless this was set anew since (InTime); *)
(* and, after a pass, that what was in place when the moment began and has *)
(* not been moved too late has acted for its time (Served).                *)
(***************************************************************************)

InTime ==
    \A n \in DOMAIN queue :
        /\ queue[n].day <= clock.day
        /\ queue[n].day = clock.day /\ queue[n].id \in Present \ spent =>
                queue[n].at = schedules[queue[n].id].at

Served ==
    passed => \A s \in (settled \cap Present) \ spent :
                schedules[s].at <= clock.time => HasActionAt(s, clock.day, schedules[s].at)

Inv ==
    /\ TypeOK
    /\ OncePerDay
    /\ MarkedWasEnqueued
    /\ InTime
    /\ Served

LEMMA InitInv == Init => Inv
<1> SUFFICES ASSUME Init PROVE Inv
  OBVIOUS
<1>1. Unused \in Schedule
  BY ScheduleAssumption DEF Schedule, Unused, Action, Time
<1>2. clock \in [day: Day, time: Time]
  BY ScheduleAssumption DEF Init, Day, Time
<1>3. TypeOK
  <2>1. schedules \in [ScheduleId -> Schedule]
    BY <1>1, Zenon DEF Init
  <2>2. queue \in Seq(Enqueued)
    BY DEF Init
  <2> QED BY <1>2, <2>1, <2>2 DEF Init, TypeOK
<1>4. OncePerDay /\ MarkedWasEnqueued /\ InTime /\ Served
  BY DEF Init, OncePerDay, MarkedWasEnqueued, InTime, Served, Present, Unused
<1> QED BY <1>3, <1>4 DEF Inv

-------------------------------------------------------------------------------
(* Editing the schedules.                                                  *)

LEMMA PutInv ==
    ASSUME Inv, NEW s \in ScheduleId, NEW action \in Action, NEW at \in Time,
           Put(s, action, at)
    PROVE  Inv'
<1> DEFINE new == [state |-> "present", action |-> action, at |-> at, last |-> 0]
<1>1. new \in Schedule
  BY ScheduleAssumption DEF Schedule
<1>2. new.last = 0
  OBVIOUS
<1>3. schedules' = [schedules EXCEPT ![s] = new] /\ UNCHANGED <<queue, clock, passed>>
      /\ settled' = settled \ {s}
      /\ spent' = IF KeyTaken(s) THEN spent \cup {s} ELSE spent
  BY DEF Put
<1> HIDE DEF new
<1>4. TypeOK'
  BY <1>1, <1>3 DEF Inv, TypeOK
<1>5. OncePerDay'
  BY <1>3 DEF Inv, OncePerDay
<1>6. MarkedWasEnqueued'
  BY <1>2, <1>3 DEF Inv, TypeOK, MarkedWasEnqueued, Present
<1>7. \A r \in Present' \ spent' : r # s => r \in Present \ spent /\ schedules'[r] = schedules[r]
  BY <1>3 DEF Inv, TypeOK, Present
<1>8. InTime'
  <2> SUFFICES ASSUME NEW n \in DOMAIN queue, queue[n].day = clock.day,
                      queue[n].id \in Present' \ spent'
               PROVE  queue[n].at = schedules'[queue[n].id].at
    BY <1>3 DEF Inv, InTime
  <2>1. queue[n].id # s
    BY <1>3 DEF KeyTaken
  <2> QED BY <1>7, <2>1 DEF Inv, InTime
<1>9. Served'
  BY <1>3, <1>7 DEF Inv, Served, HasActionAt
<1> QED BY <1>4, <1>5, <1>6, <1>8, <1>9 DEF Inv

LEMMA DeleteInv ==
    ASSUME Inv, NEW S, Delete(S)
    PROVE  Inv'
<1>1. Deleted \in Schedule /\ Deleted.state = "deleted"
  BY ScheduleAssumption DEF Deleted, Unused, Schedule, Action, Time
<1>2. \A s \in Present' : s \in Present /\ schedules'[s] = schedules[s]
  BY <1>1 DEF Delete, Present
<1>3. TypeOK'
  BY <1>1 DEF Inv, TypeOK, Delete
<1>4. OncePerDay'
  BY DEF Inv, OncePerDay, Delete
<1>5. MarkedWasEnqueued'
  BY <1>2 DEF Inv, MarkedWasEnqueued, Delete
<1>6. \A s \in Present' : s \notin spent' => s \notin spent
  BY <1>1 DEF Delete, Present
<1>7. InTime'
  BY <1>2, <1>6 DEF Inv, InTime, Delete
<1>8. Served'
  BY <1>2, <1>6 DEF Inv, Served, HasActionAt, Delete
<1> QED BY <1>3, <1>4, <1>5, <1>7, <1>8 DEF Inv

LEMMA EditInv == Inv /\ Edit => Inv'
<1> SUFFICES ASSUME Inv, NEW action \in Action,
                    \/ RemoveByCommand(action)
                    \/ \E at \in Time :
                         \/ SetByCommand(action, at)
                         \/ AddByAgent(action, at)
                         \/ RemoveByAgent(action, at)
             PROVE  Inv'
  BY DEF Edit
<1>1. CASE RemoveByCommand(action)
  BY <1>1, DeleteInv DEF RemoveByCommand
<1>2. ASSUME NEW at \in Time, SetByCommand(action, at) PROVE Inv'
  BY <1>2, PutInv DEF SetByCommand, NextId, Rows, Present
<1>3. ASSUME NEW at \in Time, AddByAgent(action, at) PROVE Inv'
  BY <1>3, PutInv DEF AddByAgent, NextId
<1>4. ASSUME NEW at \in Time, RemoveByAgent(action, at) PROVE Inv'
  BY <1>4, DeleteInv DEF RemoveByAgent
<1> QED BY <1>1, <1>2, <1>3, <1>4

-------------------------------------------------------------------------------
LEMMA Concatenation ==
    ASSUME NEW T, NEW q \in Seq(T), NEW r \in Seq(T), NEW k \in Nat, Len(r) = k
    PROVE  /\ q \o r \in Seq(T)
           /\ Len(q \o r) = Len(q) + k
           /\ \A n \in 1 .. Len(q) : (q \o r)[n] = q[n]
           /\ \A n \in 1 .. k : (q \o r)[Len(q) + n] = r[n]
  OBVIOUS

(* What a pass inserts: the actions of S, each once, behind the old ones.  *)
LEMMA EnqueueAppends ==
    ASSUME TypeOK, NEW S \in SUBSET Present, Enqueue(S)
    PROVE  /\ queue' \in Seq(Enqueued)
           /\ \A n \in DOMAIN queue : n \in DOMAIN queue' /\ queue'[n] = queue[n]
           /\ \A s \in S : \E n \in DOMAIN queue' : queue'[n] = ActionOf(s)
           /\ \A n \in DOMAIN queue' : n \notin DOMAIN queue =>
                \E s \in S : queue'[n] = ActionOf(s)
           /\ \A m, n \in DOMAIN queue' :
                m \notin DOMAIN queue /\ n \notin DOMAIN queue /\ queue'[m] = queue'[n] => m = n
<1> DEFINE k == Cardinality(S)
<1>1. k \in Nat
  <2>1. IsFiniteSet(ScheduleId)
    BY ScheduleAssumption, FS_Interval DEF ScheduleId
  <2>2. S \subseteq ScheduleId
    BY DEF Present
  <2> QED BY <2>1, <2>2, FS_Subset, FS_CardinalityType
<1>2. PICK order \in Bijection(1 .. k, S) : queue' = queue \o [n \in 1 .. k |-> ActionOf(order[n])]
  BY DEF Enqueue
<1>3. /\ order \in [1 .. k -> S]
      /\ \A a, b \in 1 .. k : order[a] = order[b] => a = b
      /\ \A s \in S : \E n \in 1 .. k : order[n] = s
  BY DEF Bijection, Injection, Surjection, IsInjective
<1>4. \A s \in S : ActionOf(s) \in Enqueued /\ ActionOf(s).id = s
  BY DEF ActionOf, Enqueued, TypeOK, Schedule, Present
<1> HIDE DEF k
<1> DEFINE added == [n \in 1 .. k |-> ActionOf(order[n])]
<1>5. added \in Seq(Enqueued) /\ Len(added) = k /\ queue \in Seq(Enqueued)
  BY <1>1, <1>3, <1>4 DEF TypeOK
<1>6. \A n \in 1 .. k : added[n] = ActionOf(order[n])
  OBVIOUS
<1>7. queue' = queue \o added
  BY <1>2
<1> HIDE DEF added
<1>8. /\ queue' \in Seq(Enqueued)
      /\ Len(queue') = Len(queue) + k
      /\ \A n \in 1 .. Len(queue) : queue'[n] = queue[n]
      /\ \A n \in 1 .. k : queue'[Len(queue) + n] = added[n]
  BY <1>1, <1>5, <1>7, Concatenation
<1>9. /\ DOMAIN queue = 1 .. Len(queue) /\ Len(queue) \in Nat
      /\ DOMAIN queue' = 1 .. Len(queue) + k
  BY <1>5, <1>8
<1>10. \A n \in DOMAIN queue : n \in DOMAIN queue' /\ queue'[n] = queue[n]
  BY <1>1, <1>8, <1>9
<1>11. \A n \in DOMAIN queue' : n \notin DOMAIN queue =>
          n - Len(queue) \in 1 .. k /\ queue'[n] = ActionOf(order[n - Len(queue)])
  BY <1>1, <1>6, <1>8, <1>9
<1>12. \A s \in S : \E n \in DOMAIN queue' : queue'[n] = ActionOf(s)
  <2>1. ASSUME NEW s \in S PROVE \E n \in DOMAIN queue' : queue'[n] = ActionOf(s)
    <3>1. PICK n \in 1 .. k : order[n] = s
      BY <1>3
    <3>2. queue'[Len(queue) + n] = ActionOf(s) /\ Len(queue) + n \in DOMAIN queue'
      BY <1>1, <1>6, <1>8, <1>9, <3>1
    <3> QED BY <3>2
  <2> QED BY <2>1
<1>13. \A m, n \in DOMAIN queue' :
          m \notin DOMAIN queue /\ n \notin DOMAIN queue /\ queue'[m] = queue'[n] => m = n
  <2>1. ASSUME NEW m \in DOMAIN queue', NEW n \in DOMAIN queue',
               m \notin DOMAIN queue, n \notin DOMAIN queue, queue'[m] = queue'[n]
        PROVE  m = n
    <3> DEFINE i == m - Len(queue)
               j == n - Len(queue)
    <3>1. i \in 1 .. k /\ j \in 1 .. k /\ ActionOf(order[i]) = ActionOf(order[j])
      BY <1>11, <2>1
    <3>2. order[i] = order[j]
      BY <1>3, <1>4, <3>1
    <3>3. i = j
      BY <1>3, <3>1, <3>2
    <3> QED BY <1>1, <1>9, <3>3
  <2> QED BY <2>1
<1>14. \A n \in DOMAIN queue' : n \notin DOMAIN queue => \E s \in S : queue'[n] = ActionOf(s)
  BY <1>3, <1>11
<1> QED BY <1>8, <1>10, <1>12, <1>13, <1>14

LEMMA PassInv == Inv /\ Pass => Inv'
<1> SUFFICES ASSUME Inv, Pass PROVE Inv'
  OBVIOUS
<1> DEFINE S == {s \in Due : ~KeyTaken(s)}
<1>1. S \in SUBSET Present /\ Enqueue(S) /\ TypeOK
  BY DEF Due, Pass, Inv
<1>2. /\ queue' \in Seq(Enqueued)
      /\ \A n \in DOMAIN queue : n \in DOMAIN queue' /\ queue'[n] = queue[n]
      /\ \A s \in S : \E n \in DOMAIN queue' : queue'[n] = ActionOf(s)
      /\ \A n \in DOMAIN queue' : n \notin DOMAIN queue => \E s \in S : queue'[n] = ActionOf(s)
      /\ \A m, n \in DOMAIN queue' :
            m \notin DOMAIN queue /\ n \notin DOMAIN queue /\ queue'[m] = queue'[n] => m = n
  BY <1>1, EnqueueAppends
<1>3. /\ UNCHANGED <<clock, settled, spent>>
      /\ Present' = Present
      /\ \A s \in ScheduleId : /\ schedules'[s].at = schedules[s].at
                               /\ schedules'[s].last = IF s \in Due THEN clock.day
                                                       ELSE schedules[s].last
  BY DEF Pass, Mark, Inv, TypeOK, Schedule, Present
<1>4. TypeOK'
  <2>1. \A s \in ScheduleId : [schedules[s] EXCEPT !.last = clock.day] \in Schedule
    BY DEF Inv, TypeOK, Schedule, Day
  <2>2. schedules' \in [ScheduleId -> Schedule]
    BY <2>1 DEF Pass, Mark, Inv, TypeOK
  <2> QED BY <1>2, <2>2 DEF Inv, TypeOK, Pass
<1>5. \A s \in S : /\ ActionOf(s).id = s /\ ActionOf(s).day = clock.day
                    /\ ActionOf(s).at = schedules[s].at
  BY DEF ActionOf
<1>6. \A s \in Due : HasAction(s, clock.day)'
  <2>1. ASSUME NEW s \in Due, KeyTaken(s) PROVE HasAction(s, clock.day)'
    <3>1. PICK n \in DOMAIN queue : queue[n].id = s /\ queue[n].day = clock.day
      BY <2>1 DEF KeyTaken
    <3> QED BY <1>2, <1>3, <3>1 DEF HasAction
  <2>2. ASSUME NEW s \in Due, ~KeyTaken(s) PROVE HasAction(s, clock.day)'
    BY <1>2, <1>3, <1>5, <2>2 DEF HasAction
  <2> QED BY <2>1, <2>2
<1>7. \A s, d : HasAction(s, d) => HasAction(s, d)'
  BY <1>2 DEF HasAction
<1>8. OncePerDay'
  <2> SUFFICES ASSUME NEW m \in DOMAIN queue', NEW n \in DOMAIN queue',
                      queue'[m].id = queue'[n].id, queue'[m].day = queue'[n].day
               PROVE  m = n
    BY DEF OncePerDay
  <2>1. CASE m \in DOMAIN queue /\ n \in DOMAIN queue
    BY <1>2, <2>1 DEF Inv, OncePerDay
  <2>2. CASE m \notin DOMAIN queue /\ n \notin DOMAIN queue
    <3>1. PICK s \in S, t \in S : queue'[m] = ActionOf(s) /\ queue'[n] = ActionOf(t)
      BY <1>2, <2>2
    <3>2. s = t
      BY <1>5, <3>1
    <3> QED BY <1>2, <2>2, <3>1, <3>2
  <2>3. ASSUME NEW i \in DOMAIN queue, NEW j \in DOMAIN queue', j \notin DOMAIN queue,
               queue'[i].id = queue'[j].id, queue'[i].day = queue'[j].day
        PROVE  FALSE
    <3>1. PICK s \in S : queue'[j] = ActionOf(s)
      BY <1>2, <2>3
    <3>2. queue[i].id = s /\ queue[i].day = clock.day
      BY <1>2, <1>5, <2>3, <3>1
    <3> QED BY <3>2 DEF KeyTaken
  <2> QED BY <2>1, <2>2, <2>3
<1>9. MarkedWasEnqueued'
  <2> SUFFICES ASSUME NEW s \in Present, schedules'[s].last # 0
               PROVE  \E n \in DOMAIN queue' : queue'[n].id = s
                                             /\ queue'[n].day = schedules'[s].last
    BY <1>3 DEF MarkedWasEnqueued
  <2>1. CASE s \in Due
    BY <1>3, <1>6, <2>1 DEF HasAction, Present
  <2>2. CASE s \notin Due
    <3>1. schedules'[s].last = schedules[s].last /\ schedules[s].last # 0
      BY <1>3, <2>2 DEF Present
    <3>2. PICK n \in DOMAIN queue : queue[n].id = s /\ queue[n].day = schedules[s].last
      BY <3>1 DEF Inv, MarkedWasEnqueued
    <3> QED BY <1>2, <3>1, <3>2
  <2> QED BY <2>1, <2>2
<1>10. InTime'
  <2> SUFFICES ASSUME NEW n \in DOMAIN queue'
               PROVE  /\ queue'[n].day <= clock.day
                      /\ queue'[n].day = clock.day /\ queue'[n].id \in Present \ spent =>
                              queue'[n].at = schedules'[queue'[n].id].at
    BY <1>3 DEF InTime
  <2>1. CASE n \in DOMAIN queue
    <3>1. queue'[n] = queue[n]
      BY <1>2, <2>1
    <3>2. queue[n].id \in Present => schedules'[queue[n].id].at = schedules[queue[n].id].at
      BY <1>3 DEF Present
    <3> QED BY <2>1, <3>1, <3>2 DEF Inv, InTime
  <2>2. CASE n \notin DOMAIN queue
    <3>1. PICK s \in S : queue'[n] = ActionOf(s)
      BY <1>2, <2>2
    <3>2. s \in ScheduleId /\ clock.day \in Nat
      BY <1>1 DEF Present, Inv, TypeOK, Day
    <3> QED BY <1>3, <1>5, <3>1, <3>2
  <2> QED BY <2>1, <2>2
<1>11. ASSUME NEW s \in (settled \cap Present) \ spent, schedules[s].at <= clock.time
       PROVE  HasAction(s, clock.day)'
  <2>1. CASE s \in Due
    BY <1>6, <2>1
  <2>2. CASE s \notin Due
    <3>1. schedules[s].last = clock.day /\ clock.day # 0
      BY <1>11, <2>2 DEF Due, Inv, TypeOK, Day
    <3>2. HasAction(s, clock.day)
      BY <1>11, <3>1 DEF Inv, MarkedWasEnqueued, HasAction
    <3> QED BY <1>2, <1>3, <3>2 DEF HasAction
  <2> QED BY <2>1, <2>2
<1>12. Served'
  <2> SUFFICES ASSUME NEW s \in (settled \cap Present) \ spent, schedules[s].at <= clock.time
               PROVE  HasActionAt(s, clock.day, schedules[s].at)'
    <3>1. \A s \in Present : schedules'[s].at = schedules[s].at
      BY <1>3 DEF Present
    <3> QED BY <1>3, <3>1 DEF Served
  <2>1. PICK n \in DOMAIN queue' : queue'[n].id = s /\ queue'[n].day = clock.day
    BY <1>3, <1>11 DEF HasAction
  <2>2. queue'[n].at = schedules'[s].at
    BY <1>3, <1>10, <2>1 DEF InTime
  <2> QED BY <1>3, <2>1, <2>2 DEF HasActionAt
<1> QED BY <1>4, <1>8, <1>9, <1>10, <1>12 DEF Inv

LEMMA Monotone ==
    ASSUME NEW a \in Nat, NEW b \in Nat, NEW k \in Nat, a <= b
    PROVE  a * k <= b * k
  OBVIOUS

LEMMA Distribute ==
    ASSUME NEW a \in Nat, NEW k \in Nat
    PROVE  (a + 1) * k = a * k + k
  OBVIOUS

LEMMA StepInv == Inv /\ [Next]_vars => Inv'
<1> SUFFICES ASSUME Inv, [Next]_vars PROVE Inv'
  OBVIOUS
<1>1. CASE Tick
  <2>1. TypeOK' /\ passed' = FALSE
    BY <1>1 DEF Inv, TypeOK, Tick
  <2>2. clock'.day = clock.day \/ clock.day < clock'.day
    <3>1. /\ clock.day \in Nat /\ clock'.day \in Nat /\ DayLength \in Nat \ {0}
          /\ clock.time \in 0 .. DayLength - 1 /\ clock'.time \in 0 .. DayLength - 1
          /\ clock'.day * DayLength + clock'.time = clock.day * DayLength + clock.time + 1
      BY <1>1, <2>1, ScheduleAssumption DEF Inv, TypeOK, Tick, Day, Time
    <3>2. ASSUME clock'.day < clock.day PROVE FALSE
      <4>1. clock'.day + 1 <= clock.day
        BY <3>1, <3>2
      <4>2. (clock'.day + 1) * DayLength <= clock.day * DayLength
        BY <3>1, <4>1, Monotone
      <4>3. (clock'.day + 1) * DayLength = clock'.day * DayLength + DayLength
        BY <3>1, Distribute
      <4> DEFINE old == clock.day * DayLength
                 new == clock'.day * DayLength
      <4>4. old \in Int /\ new \in Int
        BY <3>1
      <4>5. new + DayLength <= old /\ new + clock'.time = old + clock.time + 1
        BY <3>1, <4>2, <4>3
      <4> HIDE DEF old, new
      <4> QED BY <3>1, <4>4, <4>5
    <3>3. clock.day \in Nat /\ clock'.day \in Nat
      BY <3>1
    <3> QED BY <3>2, <3>3
  <2>3. InTime'
    <3>0. \A n \in DOMAIN queue : queue[n] \in Enqueued
      BY DEF Inv, TypeOK
    <3>1. UNCHANGED <<schedules, queue>> /\ clock.day \in Nat /\ clock'.day \in Nat
          /\ (clock'.day = clock.day => spent' = spent)
          /\ \A n \in DOMAIN queue : queue[n].day \in Nat /\ queue[n].day <= clock.day
      <4>1. UNCHANGED <<schedules, queue>> /\ (clock'.day = clock.day => spent' = spent)
        BY <1>1 DEF Tick
      <4>2. clock.day \in Nat /\ clock'.day \in Nat
        BY <2>1 DEF Inv, TypeOK, Day
      <4>3. \A n \in DOMAIN queue : queue[n].day \in Nat
        BY <3>0 DEF Enqueued, Day
      <4> QED BY <4>1, <4>2, <4>3 DEF Inv, InTime
    <3>2. CASE clock'.day = clock.day
      BY <3>1, <3>2 DEF Inv, InTime, Present
    <3>3. CASE clock.day < clock'.day
      BY <3>1, <3>3 DEF InTime
    <3> QED BY <2>2, <3>2, <3>3
  <2> QED BY <1>1, <2>1, <2>3 DEF Inv, Tick, OncePerDay, MarkedWasEnqueued, Served, Present
<1>2. CASE UNCHANGED vars
  BY <1>2 DEF Inv, vars, TypeOK, OncePerDay, MarkedWasEnqueued, InTime, Served, HasActionAt, Present
<1> QED BY <1>1, <1>2, EditInv, PassInv DEF Next

LEMMA Invariance == Spec => []Inv
  BY InitInv, StepInv, PTL DEF Spec

(* The variables of DailySchedule keep their types. *)
THEOREM TypeCorrect == Spec => []TypeOK
<1>1. Inv => TypeOK
  BY DEF Inv
<1> QED BY <1>1, Invariance, PTL

(* However often schedules are set, removed and set again, and however     *)
(* many passes are made, a schedule causes at most one action a day.       *)
THEOREM ActsOncePerDay == Spec => []OncePerDay
<1>1. Inv => OncePerDay
  BY DEF Inv
<1> QED BY <1>1, Invariance, PTL

(* The mark of a day on a schedule stands for an action of that day, so    *)
(* the mark alone never makes a schedule miss its day.                     *)
THEOREM MarksAreTrue == Spec => []MarkedWasEnqueued
<1>1. Inv => MarkedWasEnqueued
  BY DEF Inv
<1> QED BY <1>1, Invariance, PTL

(* One pass at a moment is enough: every schedule that came due before it  *)
(* on the same day has acted for the time it now has, whatever passes were *)
(* missed.  The exception has a name: spent, the schedules set anew on a   *)
(* day on which they had acted (enqueue_daily_group_schedules).            *)
THEOREM MissedPassesAreMadeUp == Spec => ServedAtItsTime
<1>1. Inv /\ [Next]_vars =>
        [Tick /\ passed =>
            \A s \in (settled \cap Present) \ spent : schedules[s].at <= clock.time =>
                \E n \in DOMAIN queue : /\ queue[n].id = s /\ queue[n].day = clock.day
                                       /\ queue[n].at = schedules[s].at]_vars
  BY DEF Inv, Served, HasActionAt
<1> QED BY <1>1, Invariance, PTL DEF Spec, ServedAtItsTime

-----------------------------------------------------------------------------
(***************************************************************************)
(* The inductive invariant.  The saved permissions, and what an unlock     *)
(* holds, are open permissions the group has had; so is what a lock has    *)
(* read, when it is open at all (the test SavePermissions makes).          *)
(***************************************************************************)

HeldWereOpen ==
    /\ snapshot \in wereOpen \cup {Nothing}
    /\ permissions \in Open => permissions \in wereOpen
    /\ \A e \in Executors :
        /\ executor[e].kind = "unlock" => executor[e].held \in wereOpen \cup {Nothing}
        /\ executor[e].pc \in {"read", "save"} => executor[e].kind = "lock"
        /\ executor[e].pc = "save" => executor[e].held \in Permissions
        /\ executor[e].held \in Open => executor[e].held \in wereOpen

LockInv == LockTypeOK /\ HeldWereOpen

LEMMA LockInitInv == LockInit => LockInv
  BY PermissionAssumption DEF LockInit, LockInv, LockTypeOK, HeldWereOpen, Idle, Permissions

(* An executor moves on; what it holds then is as the invariant asks.      *)
LEMMA GoInv ==
    ASSUME LockInv, NEW e \in Executors, NEW pc \in {"idle", "read", "save", "set"},
           NEW held \in Permissions \cup {Nothing}, Go(e, pc, held),
           permissions' \in Permissions,
           wereOpen' = wereOpen \cup ({permissions'} \cap Open),
           snapshot' \in wereOpen \cup {Nothing},
           executor[e].kind = "unlock" => held \in wereOpen \cup {Nothing},
           pc \in {"read", "save"} => executor[e].kind = "lock",
           pc = "save" => held \in Permissions,
           held \in Open => held \in wereOpen
    PROVE  LockInv'
<1>1. executor' = [executor EXCEPT ![e] =
                      [pc |-> pc, kind |-> executor[e].kind, held |-> held]]
  BY DEF Go, LockInv, LockTypeOK
<1>2. LockTypeOK'
  BY <1>1, PermissionAssumption DEF LockInv, LockTypeOK, HeldWereOpen, Permissions
<1>3. HeldWereOpen'
  BY <1>1 DEF LockInv, LockTypeOK, HeldWereOpen
<1> QED BY <1>2, <1>3 DEF LockInv

(* An executor gives up, finishes or dies. *)
LEMMA IdleInv ==
    ASSUME LockInv, NEW e \in Executors, executor' = [executor EXCEPT ![e] = Idle],
           permissions' \in Permissions, UNCHANGED snapshot,
           wereOpen' = wereOpen \cup ({permissions'} \cap Open)
    PROVE  LockInv'
<1>1. LockTypeOK'
  BY PermissionAssumption DEF LockInv, LockTypeOK, HeldWereOpen, Permissions, Idle
<1>2. HeldWereOpen'
  BY PermissionAssumption DEF LockInv, LockTypeOK, HeldWereOpen, Permissions, Idle
<1> QED BY <1>1, <1>2 DEF LockInv

LEMMA RetryInv ==
    ASSUME LockInv, NEW e \in Executors, Retry(e),
           permissions' \in Permissions, UNCHANGED snapshot,
           wereOpen' = wereOpen \cup ({permissions'} \cap Open)
    PROVE  LockInv'
<1>1. executor[e].held \in Permissions \cup {Nothing}
  BY DEF LockInv, LockTypeOK
<1>2. \/ executor[e].kind = "lock" /\ Go(e, "read", executor[e].held)
      \/ Go(e, "set", executor[e].held)
  BY DEF Retry
<1> QED BY <1>1, <1>2, GoInv DEF LockInv, HeldWereOpen

(* What an executor sets is a set of permissions; for an unlock, an open   *)
(* one the group has had or the default.                                   *)
LEMMA WantedOpens ==
    ASSUME LockInv, NEW e \in Executors
    PROVE  /\ Wanted(e) \in Permissions
           /\ executor[e].kind = "unlock" => Wanted(e) \in wereOpen \cup {Default}
  BY PermissionAssumption DEF LockInv, LockTypeOK, HeldWereOpen, Wanted, Permissions

LEMMA LockStepInv == LockInv /\ [LockNext]_lockVars => LockInv'
<1> SUFFICES ASSUME LockInv, [LockNext]_lockVars PROVE LockInv'
  OBVIOUS
<1>k. wereOpen = wereOpen \cup ({permissions} \cap Open) /\ permissions \in Permissions
  BY DEF LockInv, LockTypeOK, HeldWereOpen
<1>1. ASSUME NEW e \in Executors, NEW kind \in {"lock", "unlock"}, Start(e, kind) PROVE LockInv'
  <2>1. LockTypeOK'
    BY <1>1 DEF LockInv, LockTypeOK, Start
  <2>2. HeldWereOpen'
    BY <1>1, PermissionAssumption DEF LockInv, LockTypeOK, HeldWereOpen, Start
  <2> QED BY <2>1, <2>2 DEF LockInv
<1>2. ASSUME NEW e \in Executors, ReadPermissions(e) PROVE LockInv'
  <2>1. Go(e, "save", permissions) /\ executor[e].pc = "read"
    BY <1>2 DEF ReadPermissions
  <2>2. executor[e].kind = "lock"
    BY <2>1 DEF LockInv, HeldWereOpen
  <2> QED BY <1>2, <1>k, <2>1, <2>2, GoInv DEF LockInv, HeldWereOpen, ReadPermissions
<1>3. ASSUME NEW e \in Executors, SavePermissions(e) PROVE LockInv'
  <2>1. executor[e].held \in Permissions
    BY <1>3 DEF LockInv, HeldWereOpen, SavePermissions
  <2>2. snapshot' \in wereOpen \cup {Nothing}
    BY <1>3, <2>1 DEF LockInv, HeldWereOpen, SavePermissions, Permissions
  <2> QED BY <1>3, <1>k, <2>1, <2>2, GoInv DEF LockInv, HeldWereOpen, SavePermissions
<1>4. ASSUME NEW e \in Executors, Set(e) PROVE LockInv'
  <2>1. permissions' \in Permissions /\ wereOpen' = wereOpen \cup ({permissions'} \cap Open)
    BY <1>4, WantedOpens DEF Set, SetPermissions
  <2> QED BY <1>4, <2>1, IdleInv, RetryInv DEF Set
<1>5. ASSUME NEW e \in Executors, Refused(e) PROVE LockInv'
  BY <1>5, <1>k, IdleInv, RetryInv DEF Refused
<1>6. ASSUME NEW e \in Executors, Crash(e) PROVE LockInv'
  BY <1>6, <1>k, IdleInv DEF Crash
<1>7. CASE EditPermissions
  <2>1. LockTypeOK'
    BY <1>7 DEF LockInv, LockTypeOK, EditPermissions, SetPermissions
  <2>2. HeldWereOpen'
    BY <1>7 DEF LockInv, HeldWereOpen, EditPermissions, SetPermissions
  <2> QED BY <2>1, <2>2 DEF LockInv
<1>8. CASE UNCHANGED lockVars
  BY <1>8 DEF LockInv, LockTypeOK, HeldWereOpen, lockVars
<1> QED BY <1>1, <1>2, <1>3, <1>4, <1>5, <1>6, <1>7, <1>8 DEF LockNext, Step

(* The variables of GroupLock keep their types. *)
THEOREM LockTypeCorrect == LockSpec => []LockTypeOK
<1>1. LockInv => LockTypeOK
  BY DEF LockInv
<1> QED BY <1>1, LockInitInv, LockStepInv, PTL DEF LockSpec

(* No interleaving of locks, unlocks, edits and crashes, of any number of  *)
(* executors, makes an unlock set anything but the default permissions or  *)
(* open ones the group has had.                                            *)
THEOREM UnlockingOpens == LockSpec => UnlockOpens
<1>1. LockInv /\ [LockNext]_lockVars =>
        [\A e \in Executors :
           executor[e].kind = "unlock" /\ Set(e) => permissions' \in wereOpen \cup {Default}]_lockVars
  BY WantedOpens DEF Set, SetPermissions
<1> QED BY <1>1, LockInitInv, LockStepInv, PTL DEF LockSpec, UnlockOpens

===============================================================================
