------------------------ MODULE ForcedMembership_proofs ------------------------
(***************************************************************************)
(* What the row of a member records, for any messages, destinations and    *)
(* bots: the counters agree, no message is counted as deleted that is      *)
(* still there, and a member is warned once.                               *)
(***************************************************************************)
EXTENDS ForcedMembership, FiniteSetTheorems, TLAPS

UserStates == [warned: BOOLEAN, ever: BOOLEAN, member: BOOLEAN, messages: Nat,
               deleted: Nat, joins: Nat, leaves: Nat, rejoins: Nat,
               tracked: BOOLEAN]

TaskStates == [at: Phases, rule: Nat, to: Destinations \cup {None},
               member: BOOLEAN, row: Nat, gone: BOOLEAN]

Updates == [move: 1 .. MaxMoves, bot: Watchers, to: Destinations,
            member: BOOLEAN, invite: {None} \cup Links,
            at: {"new", "loaded", "observed"}, rule: Nat]

EventKinds == {"none", "initial_warning_sent", "message_delete_required",
               "message_deleted"}

-----------------------------------------------------------------------------
(* The types.                                                                *)

LEMMA FreshTyped == FreshRow \in UserStates
  BY DEF FreshRow, UserStates

LEMMA ObservedTyped ==
    ASSUME row \in UserStates, NEW member \in BOOLEAN
    PROVE  Observed(member) \in UserStates
<1>1. CASE member /\ ~row.member
  <2> DEFINE rejoins == IF row.ever THEN row.rejoins + 1 ELSE row.rejoins
  <2>1. row.joins + 1 \in Nat /\ rejoins \in Nat
    BY DEF UserStates
  <2>2. Observed(member) = [row EXCEPT !.member = TRUE, !.ever = TRUE,
                                       !.joins = row.joins + 1,
                                       !.rejoins = rejoins]
    BY <1>1 DEF Observed, UserStates
  <2> HIDE DEF rejoins
  <2> QED BY <2>1, <2>2 DEF UserStates
<1>2. CASE ~member /\ row.member
  <2>1. row.leaves + 1 \in Nat
    BY DEF UserStates
  <2>2. Observed(member) = [row EXCEPT !.member = FALSE,
                                       !.leaves = row.leaves + 1]
    BY <1>2 DEF Observed, UserStates
  <2> QED BY <2>1, <2>2 DEF UserStates
<1>3. CASE ~(member /\ ~row.member) /\ ~(~member /\ row.member)
  BY <1>3 DEF Observed
<1> QED BY <1>1, <1>2, <1>3

LEMMA WaitingTyped == Waiting \in TaskStates /\ HandlingOver \in TaskStates
  BY DEF Waiting, HandlingOver, TaskStates, Phases

LEMMA GoTyped ==
    ASSUME task \in [Messages -> TaskStates], NEW m \in Messages,
           NEW phase \in Phases, Go(m, phase)
    PROVE  task' \in [Messages -> TaskStates]
<1>1. [task[m] EXCEPT !.at = phase] \in TaskStates
  BY DEF TaskStates
<1> QED BY <1>1, WaitingTyped DEF Go

\* A task that asks Telegram has a destination to ask about.
Aimed ==
    \A m \in Messages :
        task[m].at \in {"promote", "ask"} => task[m].to \in Destinations

Typed == TypeOK /\ Aimed

LEMMA InitTyped == Init => TypeOK
  BY MembershipAssumption, FreshTyped, WaitingTyped
  DEF Init, TypeOK, UserStates, TaskStates, Links

\* The handling of an update changes these variables only, to these types.
LEMMA UpdatesTyped ==
    ASSUME TypeOK,
           updates' \subseteq Updates,
           heard' \subseteq (1 .. MaxMoves) \X Watchers,
           row' \in UserStates,
           links' \subseteq Links,
           UNCHANGED <<inside, moves, rule, legacy, changes, rows, spent, event,
                       album, task, crashes, removed, reported>>
    PROVE  TypeOK'
  BY DEF TypeOK, Updates, UserStates, reported

LEMMA UpdateTyped ==
    ASSUME TypeOK, NEW u \in updates,
           LoadForUpdate(u) \/ ObserveUpdate(u) \/ MarkInvite(u)
    PROVE  TypeOK'
<1>1. u \in Updates
  BY DEF TypeOK, Updates
<1>2. row' \in UserStates
  <2>1. row \in UserStates /\ [row EXCEPT !.tracked = TRUE] \in UserStates
        /\ u.member \in BOOLEAN
    BY <1>1 DEF TypeOK, UserStates, Updates
  <2> QED BY <2>1, ObservedTyped DEF LoadForUpdate, ObserveUpdate, MarkInvite
<1>3. updates' \subseteq Updates
  <2> DEFINE loaded == [u EXCEPT !.at = "loaded", !.rule = rule.id]
             observed == [u EXCEPT !.at = "observed"]
  <2>1. loaded \in Updates /\ observed \in Updates
    BY <1>1 DEF Updates, TypeOK
  <2>2. updates' \subseteq updates \cup {loaded, observed}
    BY DEF LoadForUpdate, ObserveUpdate, MarkInvite
  <2>3. updates \subseteq Updates
    BY DEF TypeOK, Updates
  <2> QED BY <2>1, <2>2, <2>3
<1>4. heard' \subseteq (1 .. MaxMoves) \X Watchers
  BY <1>1 DEF LoadForUpdate, ObserveUpdate, MarkInvite, TypeOK, Updates, Id
<1>5. links' \subseteq Links
  BY DEF LoadForUpdate, ObserveUpdate, MarkInvite, TypeOK
<1>6. UNCHANGED <<inside, moves, rule, legacy, changes, rows, spent, event, album,
                  task, crashes, removed, reported>>
  BY DEF LoadForUpdate, ObserveUpdate, MarkInvite, UnchangedByUpdate, ruleVars
<1> QED BY <1>2, <1>3, <1>4, <1>5, <1>6, UpdatesTyped

\* The actions of a task change these variables only, and to these types.
LEMMA TaskTyped ==
    ASSUME TypeOK,
           task' \in [Messages -> TaskStates],
           row' \in UserStates,
           event' \in [Messages -> EventKinds],
           rule' \in [id: Nat \ {0}, present: BOOLEAN, active: BOOLEAN,
                      to: Destinations],
           rule'.active => rule'.present,
           links' \subseteq Links, spent' \subseteq Links,
           removed' \subseteq Messages, told' \in Nat, lost' \in Nat,
           UNCHANGED <<inside, moves, updates, heard, album, crashes, legacy,
                       changes, rows, cut>>
    PROVE  TypeOK'
  BY DEF TypeOK, TaskStates, UserStates, EventKinds

\* What becomes of a task whose message is evaluated.
Turned(m, phase) == [task[m] EXCEPT !.row = rows, !.at = phase, !.member = FALSE]

LEMMA EvaluateTurns ==
    ASSUME NEW m \in Messages, Evaluate(m)
    PROVE  \/ Go(m, "over")
           \/ \E p \in {"ignored", "warn", "delete"} :
                 task' = [task EXCEPT ![m] = Turned(m, p)]
           \/ task' = [task EXCEPT ![m] = HandlingOver]
  BY DEF Evaluate, Turned

LEMMA MessageTyped ==
    ASSUME Typed, NEW m \in Messages,
           \/ Begin(m) \/ Promote(m) \/ Ask(m) \/ Refused(m) \/ Observe(m)
           \/ JoinUrl(m) \/ CreateLink(m) \/ Evaluate(m) \/ Delete(m)
           \/ Warn(m) \/ WarnFails(m) \/ Rollback(m) \/ MarkDeleted(m)
    PROVE  TypeOK'
<1> USE DEF Typed
<1>1. /\ task \in [Messages -> TaskStates] /\ task[m] \in TaskStates
      /\ row \in UserStates /\ event \in [Messages -> EventKinds]
      /\ told \in Nat /\ told + 1 \in Nat /\ lost \in Nat /\ lost + 1 \in Nat
      /\ removed \subseteq Messages
      /\ links \subseteq Links /\ spent \subseteq Links /\ rows \in Nat
      /\ rule \in [id: Nat \ {0}, present: BOOLEAN, active: BOOLEAN,
                   to: Destinations]
      /\ rule.active => rule.present
      /\ legacy \in Destinations \cup {None}
  BY DEF TypeOK, TaskStates, UserStates, EventKinds
<1>2. \A p \in Phases : Go(m, p) => task' \in [Messages -> TaskStates]
  BY <1>1, GoTyped
<1> USE DEF UnchangedByTask, ruleVars, reported
<1>3. CASE Begin(m)
  <2>1. /\ [Waiting EXCEPT !.at = "ask", !.rule = rule.id, !.to = rule.to]
               \in TaskStates
        /\ [Waiting EXCEPT !.at = "promote", !.to = legacy] \in TaskStates
    BY <1>1 DEF Waiting, TaskStates, Phases
  <2>2. task' \in [Messages -> TaskStates]
    BY <1>1, <1>3, <2>1, WaitingTyped DEF Begin
  <2> QED BY <1>1, <1>3, <2>2, TaskTyped DEF Begin
<1>4. CASE Promote(m)
  <2>1. task[m].to \in Destinations
    BY <1>4 DEF Aimed, Promote, At
  <2>2. /\ rule' \in [id: Nat \ {0}, present: BOOLEAN, active: BOOLEAN,
                      to: Destinations]
        /\ rule'.active => rule'.present
    <3>1. [id |-> rule.id + 1, present |-> TRUE, active |-> TRUE,
           to |-> task[m].to]
             \in [id: Nat \ {0}, present: BOOLEAN, active: BOOLEAN,
                 to: Destinations]
      BY <1>1, <2>1
    <3> QED BY <1>1, <1>4, <3>1 DEF Promote
  <2>3. [task[m] EXCEPT !.at = "ask", !.rule = rule'.id, !.to = rule'.to]
           \in TaskStates
    BY <1>1, <2>2 DEF TaskStates, Phases
  <2>4. task' \in [Messages -> TaskStates]
    BY <1>1, <1>4, <2>3, WaitingTyped DEF Promote
  <2> QED BY <1>1, <1>4, <2>2, <2>4, TaskTyped DEF Promote
<1>5. CASE Ask(m)
  <2>1. inside[task[m].to] \in BOOLEAN
    BY <1>5 DEF Aimed, Ask, At, TypeOK
  <2>2. [task[m] EXCEPT !.at = "observe", !.member = inside[task[m].to]]
           \in TaskStates
    BY <1>1, <2>1 DEF TaskStates, Phases
  <2>3. task' = [task EXCEPT ![m] =
           [@ EXCEPT !.at = "observe", !.member = inside[task[m].to]]]
    BY <1>1, <1>5 DEF Ask, TaskStates
  <2>4. task' \in [Messages -> TaskStates]
    BY <1>1, <2>2, <2>3
  <2> QED BY <1>1, <1>5, <2>4, TaskTyped DEF Ask
<1>6. CASE Refused(m)
  BY <1>1, <1>2, <1>6, TaskTyped DEF Refused, Phases
<1>7. CASE Observe(m)
  <2>1. /\ "over" \in Phases
        /\ (IF task[m].member THEN "over" ELSE "link") \in Phases
        /\ task[m].member \in BOOLEAN
    BY <1>1 DEF Phases, TaskStates
  <2>2. task' \in [Messages -> TaskStates] /\ row' \in UserStates
    BY <1>1, <1>2, <1>7, <2>1, ObservedTyped DEF Observe
  <2> QED BY <1>1, <1>7, <2>2, TaskTyped DEF Observe
<1>8. CASE JoinUrl(m)
  BY <1>1, <1>2, <1>8, TaskTyped DEF JoinUrl, Phases
<1>9. CASE CreateLink(m)
  <2>1. <<m, rows>> \in Links
    BY <1>1 DEF Links
  <2> QED BY <1>1, <1>2, <1>9, <2>1, TaskTyped DEF CreateLink, Phases
<1>10. CASE Evaluate(m)
  <2> DEFINE warn == ~row.warned /\ ~row.ever
             evaluated == [row EXCEPT !.warned = row.warned \/ warn,
                                      !.member = FALSE,
                                      !.messages = row.messages + 1]
  <2>1. evaluated \in UserStates
    <3>1. (row.warned \/ warn) \in BOOLEAN /\ row.messages + 1 \in Nat
      BY <1>1 DEF UserStates
    <3> HIDE DEF warn
    <3> QED BY <1>1, <3>1 DEF UserStates
  <2>2. \A p \in Phases : Turned(m, p) \in TaskStates
    BY <1>1 DEF TaskStates, Turned
  <2>3. row' \in {row, evaluated}
    BY <1>1, <1>10 DEF Evaluate, UserStates
  <2>4. event' \in [Messages -> EventKinds]
    BY <1>1, <1>10 DEF Evaluate, EventKinds
  <2>5. task' \in [Messages -> TaskStates]
    <3>1. {"over", "ignored", "warn", "delete"} \subseteq Phases
      BY DEF Phases
    <3> QED BY <1>1, <1>2, <1>10, <2>2, <3>1, EvaluateTurns, WaitingTyped
  <2> QED BY <1>1, <1>10, <2>1, <2>3, <2>4, <2>5, TaskTyped DEF Evaluate
<1>11. CASE Delete(m)
  <2>1. \A answered \in BOOLEAN :
           /\ [task[m] EXCEPT !.gone = answered] \in TaskStates
           /\ [task[m] EXCEPT !.at = "deleted"] \in TaskStates
    BY <1>1 DEF TaskStates, Phases
  <2>2. task' \in [Messages -> TaskStates]
    BY <1>1, <1>11, <2>1, WaitingTyped DEF Delete
  <2> QED BY <1>1, <1>11, <2>2, TaskTyped DEF Delete
<1>12. CASE Warn(m)
  BY <1>1, <1>2, <1>12, TaskTyped DEF Warn, Phases
<1>13. CASE WarnFails(m)
  BY <1>1, <1>2, <1>13, TaskTyped DEF WarnFails, Phases
<1>14. CASE Rollback(m)
  <2> DEFINE fewer == IF row.messages > 0 THEN row.messages - 1 ELSE 0
  <2>1. [row EXCEPT !.warned = FALSE, !.messages = fewer] \in UserStates
    <3>1. fewer \in Nat
      BY <1>1 DEF UserStates
    <3> HIDE DEF fewer
    <3> QED BY <1>1, <3>1 DEF UserStates
  <2>2. [event EXCEPT ![m] = "none"] \in [Messages -> EventKinds]
    BY <1>1 DEF EventKinds
  <2> QED BY <1>1, <1>2, <1>14, <2>1, <2>2, TaskTyped DEF Rollback, Phases
<1>15. CASE MarkDeleted(m)
  <2>1. [row EXCEPT !.deleted = @ + 1] \in UserStates
    BY <1>1 DEF UserStates
  <2>2. event' \in [Messages -> EventKinds]
    BY <1>1, <1>15 DEF MarkDeleted, EventKinds
  <2> QED BY <1>1, <1>2, <1>15, <2>1, <2>2, TaskTyped DEF MarkDeleted, Phases
<1> QED BY <1>3, <1>4, <1>5, <1>6, <1>7, <1>8, <1>9, <1>10, <1>11, <1>12,
           <1>13, <1>14, <1>15

LEMMA MessageAimed ==
    ASSUME Typed, NEW m \in Messages,
           \/ Begin(m) \/ Promote(m) \/ Ask(m) \/ Refused(m) \/ Observe(m)
           \/ JoinUrl(m) \/ CreateLink(m) \/ Evaluate(m) \/ Delete(m)
           \/ Warn(m) \/ WarnFails(m) \/ Rollback(m) \/ MarkDeleted(m)
    PROVE  Aimed'
<1>1. /\ task \in [Messages -> TaskStates] /\ task' \in [Messages -> TaskStates]
      /\ rule.to \in Destinations /\ rule'.to \in Destinations
  BY MessageTyped DEF Typed, TypeOK, TaskStates
<1>2. \A n \in Messages \ {m} : task'[n] = task[n]
  BY <1>1 DEF Begin, Promote, Ask, Refused, Observe, JoinUrl, CreateLink, Evaluate,
              Delete, Warn, WarnFails, Rollback, MarkDeleted, Go
<1>3. task'[m].at \in {"promote", "ask"} => task'[m].to \in Destinations
  <2>1. CASE Begin(m)
    BY <1>1, <2>1 DEF Begin, Waiting, HandlingOver, Typed, TypeOK
  <2>2. CASE Promote(m)
    BY <1>1, <2>2 DEF Promote, HandlingOver, Waiting, TaskStates
  <2>3. CASE Ask(m)
    BY <1>1, <2>3 DEF Ask, TaskStates
  <2>4. CASE \/ Refused(m) \/ Observe(m) \/ JoinUrl(m) \/ CreateLink(m) \/ Warn(m)
             \/ WarnFails(m) \/ Rollback(m) \/ MarkDeleted(m)
    <3>1. \E p \in {"over", "link", "create", "evaluate", "deleted", "rollback"} :
             Go(m, p)
      BY <2>4 DEF Refused, Observe, JoinUrl, CreateLink, Warn, WarnFails, Rollback,
                  MarkDeleted
    <3> QED BY <1>1, <3>1 DEF Go, HandlingOver, Waiting, TaskStates
  <2>5. CASE Evaluate(m)
    <3>1. CASE Go(m, "over") \/ task' = [task EXCEPT ![m] = HandlingOver]
      BY <1>1, <3>1 DEF Go, HandlingOver, Waiting
    <3>2. CASE \E p \in {"ignored", "warn", "delete"} :
                  task' = [task EXCEPT ![m] = Turned(m, p)]
      <4>1. task[m] \in TaskStates
        BY <1>1
      <4> QED BY <1>1, <3>2, <4>1 DEF Turned, TaskStates
    <3> QED BY <2>5, <3>1, <3>2, EvaluateTurns
  <2>6. CASE Delete(m)
    BY <1>1, <2>6 DEF Delete, At, HandlingOver, Waiting, TaskStates
  <2> QED BY <2>1, <2>2, <2>3, <2>4, <2>5, <2>6
<1> QED BY <1>2, <1>3 DEF Aimed, Typed

LEMMA OwnerTyped ==
    ASSUME Typed,
           \/ \E d \in Destinations : Configure(d) \/ ChangeDestination(d)
           \/ Toggle \/ DeleteRule
    PROVE  Typed'
<1>1. /\ rule' \in [id: Nat \ {0}, present: BOOLEAN, active: BOOLEAN,
                    to: Destinations]
      /\ rule'.active => rule'.present
  <2>1. CASE \E d \in Destinations : Configure(d)
    BY <2>1 DEF Configure, Typed, TypeOK
  <2>2. CASE \E d \in Destinations : ChangeDestination(d)
    BY <2>2 DEF ChangeDestination, Typed, TypeOK
  <2>3. CASE Toggle
    BY <2>3 DEF Toggle, Typed, TypeOK
  <2>4. CASE DeleteRule
    BY <2>4 DEF DeleteRule, Typed, TypeOK
  <2> QED BY <2>1, <2>2, <2>3, <2>4
<1>2. legacy' \in Destinations \cup {None} /\ changes' \in 0 .. MaxChanges
  BY MembershipAssumption
  DEF Configure, ChangeDestination, Toggle, DeleteRule, Change, Typed, TypeOK
<1>3. \/ UNCHANGED <<row, rows, links, event, heard, told, lost, cut>>
      \/ Wipe
  BY DEF Configure, ChangeDestination, Toggle, DeleteRule, reported
<1>4. /\ row' \in UserStates /\ rows' \in Nat /\ links' \subseteq Links
      /\ event' \in [Messages -> EventKinds]
      /\ told' \in Nat /\ lost' \in Nat /\ cut' \subseteq Messages
      /\ heard' \subseteq (1 .. MaxMoves) \X Watchers
  BY <1>3, FreshTyped DEF Wipe, Typed, TypeOK, UserStates, EventKinds
<1>5. UNCHANGED <<inside, moves, updates, spent, album, task, crashes, removed>>
  BY DEF Configure, ChangeDestination, Toggle, DeleteRule, UnchangedByOwner
<1>6. TypeOK'
  BY <1>1, <1>2, <1>4, <1>5 DEF Typed, TypeOK, UserStates, EventKinds
<1>7. Aimed'
  BY <1>5 DEF Typed, Aimed
<1> QED BY <1>6, <1>7 DEF Typed

LEMMA MoveTyped ==
    ASSUME Typed, NEW d \in Destinations, Move(d)
    PROVE  Typed'
<1>1. inside' \in [Destinations -> BOOLEAN] /\ moves' \in 1 .. MaxMoves
  BY MembershipAssumption DEF Move, Typed, TypeOK
<1>2. PICK invite \in {None} \cup (links \ spent) :
          /\ spent' = IF invite = None THEN spent ELSE spent \cup {invite}
          /\ updates' = updates \cup
                {[move |-> moves', bot |-> w, to |-> d, member |-> ~inside[d],
                  invite |-> invite, at |-> "new", rule |-> 0] :
                    w \in Watchers}
  BY DEF Move
<1>3. invite \in {None} \cup Links /\ spent' \subseteq Links
  BY <1>2 DEF Typed, TypeOK
<1>4. ASSUME NEW w \in Watchers
      PROVE  [move |-> moves', bot |-> w, to |-> d, member |-> ~inside[d],
              invite |-> invite, at |-> "new", rule |-> 0] \in Updates
  BY <1>1, <1>3 DEF Updates, Typed, TypeOK
<1>5. updates \subseteq Updates
  BY DEF Typed, TypeOK, Updates
<1>6. updates' \subseteq Updates
  BY <1>2, <1>4, <1>5
<1>7. UNCHANGED <<heard, rule, legacy, changes, row, rows, links, event, album,
                  task, crashes, removed, reported>>
  BY DEF Move, ruleVars
<1>8. TypeOK'
  BY <1>1, <1>3, <1>6, <1>7 DEF Typed, TypeOK, Updates, reported
<1>9. Aimed'
  BY <1>7 DEF Typed, Aimed
<1> QED BY <1>8, <1>9 DEF Typed

LEMMA CrashTyped == ASSUME Typed, Crash PROVE Typed'
<1>1. crashes' \in 0 .. MaxCrashes
  BY MembershipAssumption DEF Crash, Typed, TypeOK
<1>2. \A m \in Messages : task'[m] \in {Waiting, HandlingOver}
  BY DEF Crash
<1>3. task' \in [Messages -> TaskStates]
  BY <1>2, WaitingTyped DEF Crash
<1>4. updates' \subseteq Updates
  <2>1. ASSUME NEW u \in updates PROVE [u EXCEPT !.at = "new"] \in Updates
    BY DEF Typed, TypeOK, Updates
  <2> QED BY <2>1 DEF Crash
<1>5. /\ UNCHANGED <<inside, moves, heard, rule, legacy, changes, row, rows, links,
                     spent, event, album, removed, told, lost>>
      /\ cut' \subseteq Messages
  BY DEF Crash, ruleVars, Typed, TypeOK
<1>6. TypeOK'
  BY <1>1, <1>3, <1>4, <1>5 DEF Typed, TypeOK, TaskStates, Updates
<1>7. Aimed'
  BY <1>2 DEF Aimed, Waiting, HandlingOver
<1> QED BY <1>6, <1>7 DEF Typed

LEMMA StepTyped == Typed /\ [Next]_vars => Typed'
<1> SUFFICES ASSUME Typed, [Next]_vars PROVE Typed'
  OBVIOUS
<1>1. ASSUME NEW d \in Destinations, Move(d) PROVE Typed'
  BY <1>1, MoveTyped
<1>2. ASSUME NEW u \in updates,
             LoadForUpdate(u) \/ ObserveUpdate(u) \/ MarkInvite(u)
      PROVE  Typed'
  <2>1. TypeOK'
    BY <1>2, UpdateTyped DEF Typed
  <2>2. task' = task
    BY <1>2 DEF LoadForUpdate, ObserveUpdate, MarkInvite, UnchangedByUpdate
  <2> QED BY <2>1, <2>2 DEF Typed, Aimed
<1>3. ASSUME NEW m \in Messages,
             \/ Begin(m) \/ Promote(m) \/ Ask(m) \/ Refused(m) \/ Observe(m)
             \/ JoinUrl(m) \/ CreateLink(m) \/ Evaluate(m) \/ Delete(m)
             \/ Warn(m) \/ WarnFails(m) \/ Rollback(m) \/ MarkDeleted(m)
      PROVE  Typed'
  BY <1>3, MessageTyped, MessageAimed DEF Typed
<1>4. CASE \/ \E d \in Destinations : Configure(d) \/ ChangeDestination(d)
           \/ Toggle \/ DeleteRule
  BY <1>4, OwnerTyped
<1>5. CASE Crash
  BY <1>5, CrashTyped
<1>6. CASE UNCHANGED vars
  BY <1>6 DEF vars, ruleVars, reported, Typed, TypeOK, Aimed
<1> QED BY <1>1, <1>2, <1>3, <1>4, <1>5, <1>6 DEF Next

-----------------------------------------------------------------------------
(* The counters.                                                             *)

Counted == CountersAgree /\ (row.member => row.ever)

SameCounters ==
    /\ row'.joins = row.joins /\ row'.leaves = row.leaves
    /\ row'.rejoins = row.rejoins /\ row'.ever = row.ever
    /\ row'.member \in {row.member, FALSE}

LEMMA RowSteps ==
    ASSUME Typed, [Next]_vars
    PROVE  \/ SameCounters
           \/ row' = FreshRow
           \/ \E member \in BOOLEAN : row' = Observed(member)
<1>1. row \in UserStates
  BY DEF Typed, TypeOK, UserStates
<1>2. ASSUME row' = row PROVE SameCounters
  BY <1>2 DEF SameCounters
<1>3. ASSUME NEW u \in updates,
             LoadForUpdate(u) \/ ObserveUpdate(u) \/ MarkInvite(u)
      PROVE  SameCounters \/ \E member \in BOOLEAN : row' = Observed(member)
  <2>1. u.member \in BOOLEAN
    BY DEF Typed, TypeOK
  <2>2. [row EXCEPT !.tracked = TRUE] = row' => SameCounters
    BY <1>1 DEF SameCounters, UserStates
  <2> QED BY <1>2, <1>3, <2>1, <2>2 DEF LoadForUpdate, ObserveUpdate, MarkInvite
<1>4. ASSUME NEW m \in Messages, Observe(m)
      PROVE  SameCounters \/ \E member \in BOOLEAN : row' = Observed(member)
  <2>1. task[m].member \in BOOLEAN
    BY DEF Typed, TypeOK
  <2> QED BY <1>2, <1>4, <2>1 DEF Observe
<1>5. ASSUME NEW m \in Messages, Evaluate(m) \/ Rollback(m) \/ MarkDeleted(m)
      PROVE  SameCounters
  BY <1>1, <1>2, <1>5 DEF Evaluate, Rollback, MarkDeleted, SameCounters, UserStates
<1>6. ASSUME NEW m \in Messages,
             \/ Begin(m) \/ Promote(m) \/ Ask(m) \/ Refused(m) \/ JoinUrl(m)
             \/ CreateLink(m) \/ Delete(m) \/ Warn(m) \/ WarnFails(m)
      PROVE  SameCounters
  BY <1>2, <1>6 DEF Begin, Promote, Ask, Refused, JoinUrl, CreateLink, Delete, Warn,
                    WarnFails
<1>7. ASSUME NEW d \in Destinations,
             Move(d) \/ Configure(d) \/ ChangeDestination(d)
      PROVE  SameCounters \/ row' = FreshRow
  BY <1>2, <1>7 DEF Move, Configure, ChangeDestination, Wipe
<1>8. CASE Toggle \/ DeleteRule \/ Crash
  BY <1>2, <1>8 DEF Toggle, DeleteRule, Wipe, Crash
<1>9. CASE UNCHANGED vars
  BY <1>2, <1>9 DEF vars
<1> QED BY <1>3, <1>4, <1>5, <1>6, <1>7, <1>8, <1>9 DEF Next

LEMMA StepCounted ==
    ASSUME Typed, Counted, [Next]_vars
    PROVE  Counted'
<1>1. row \in UserStates
  BY DEF Typed, TypeOK, UserStates
<1>2. CASE SameCounters
  <2>1. /\ row.joins \in Nat /\ row.leaves \in Nat /\ row.rejoins \in Nat
        /\ row.member \in BOOLEAN /\ row.ever \in BOOLEAN
    BY <1>1 DEF UserStates
  <2>2. CASE row'.member = row.member
    BY <1>2, <2>2 DEF SameCounters, Counted, CountersAgree
  <2>3. CASE row'.member = FALSE
    <3>1. row.leaves <= row.joins
      BY <2>1 DEF Counted, CountersAgree
    <3> QED BY <1>2, <2>1, <2>3, <3>1 DEF SameCounters, Counted, CountersAgree
  <2> QED BY <1>2, <2>2, <2>3 DEF SameCounters
<1>3. CASE row' = FreshRow
  BY <1>3 DEF FreshRow, Counted, CountersAgree
<1>4. ASSUME NEW member \in BOOLEAN, row' = Observed(member)
      PROVE  Counted'
  <2>1. CASE member /\ ~row.member
    <3>1. /\ row'.member = TRUE /\ row'.ever = TRUE /\ row'.joins = row.joins + 1
          /\ row'.leaves = row.leaves
          /\ row'.rejoins = IF row.ever THEN row.rejoins + 1 ELSE row.rejoins
      BY <1>1, <1>4, <2>1 DEF Observed, UserStates
    <3> QED BY <1>1, <2>1, <3>1 DEF Counted, CountersAgree, UserStates
  <2>2. CASE ~member /\ row.member
    <3>1. /\ row'.member = FALSE /\ row'.ever = row.ever /\ row'.joins = row.joins
          /\ row'.leaves = row.leaves + 1 /\ row'.rejoins = row.rejoins
      BY <1>1, <1>4, <2>2 DEF Observed, UserStates
    <3> QED BY <1>1, <2>2, <3>1 DEF Counted, CountersAgree, UserStates
  <2>3. CASE ~(member /\ ~row.member) /\ ~(~member /\ row.member)
    BY <1>4, <2>3 DEF Observed, Counted, CountersAgree
  <2> QED BY <2>1, <2>2, <2>3
<1> QED BY <1>2, <1>3, <1>4, RowSteps

-----------------------------------------------------------------------------
(* The deletions.                                                            *)

\* Messages that are deleted and whose row does not count them yet.
Owed == {m \in Messages : \/ task[m].at = "deleted"
                          \/ task[m].at = "warn" /\ task[m].gone}

Gone ==
    \A m \in Messages : task[m].gone => task[m].at \in {"warn", "rollback", "deleted"}

Deletions ==
    /\ Gone
    /\ Owed \subseteq removed
    /\ row.deleted + Cardinality(Owed) <= Cardinality(removed)

LEMMA FiniteMessages ==
    ASSUME NEW S \in SUBSET Messages
    PROVE  IsFiniteSet(S) /\ Cardinality(S) \in Nat
  BY MembershipAssumption, FS_Subset, FS_CardinalityType

\* Nothing is deleted, and nothing is counted.
LEMMA OwedShrinks ==
    ASSUME Typed, Typed', Deletions, Gone',
           Owed' \subseteq Owed, removed' = removed,
           row'.deleted <= row.deleted
    PROVE  Deletions'
<1>1. Owed \in SUBSET Messages /\ Owed' \in SUBSET Messages
      /\ removed \in SUBSET Messages
  BY DEF Owed, Typed, TypeOK
<1>2. Cardinality(Owed') <= Cardinality(Owed)
  BY <1>1, FiniteMessages, FS_Subset
<1>3. /\ row.deleted \in Nat /\ row'.deleted \in Nat
      /\ Cardinality(Owed) \in Nat /\ Cardinality(Owed') \in Nat
      /\ Cardinality(removed) \in Nat
  BY <1>1, FiniteMessages DEF Typed, TypeOK
<1> QED BY <1>2, <1>3 DEF Deletions

\* The task of one message moves on, and the others stay as they are.
OneTask(m) == task' = [task EXCEPT ![m] = task'[m]]

LEMMA OneTaskMoves ==
    ASSUME Typed, NEW m \in Messages,
           \/ Begin(m) \/ Promote(m) \/ Ask(m) \/ Refused(m) \/ Observe(m)
           \/ JoinUrl(m) \/ CreateLink(m) \/ Evaluate(m) \/ Delete(m)
           \/ Warn(m) \/ WarnFails(m) \/ Rollback(m) \/ MarkDeleted(m)
    PROVE  /\ OneTask(m)
           /\ task' \in [Messages -> TaskStates]
           /\ \A n \in Messages \ {m} : task'[n] = task[n]
<1>1. /\ task \in [Messages -> TaskStates] /\ task' \in [Messages -> TaskStates]
  BY MessageTyped DEF Typed, TypeOK, TaskStates
<1>2. \A n \in Messages \ {m} : task'[n] = task[n]
  BY <1>1 DEF Begin, Promote, Ask, Refused, Observe, JoinUrl, CreateLink, Evaluate,
              Delete, Warn, WarnFails, Rollback, MarkDeleted, Go
<1> QED BY <1>1, <1>2 DEF OneTask

LEMMA QuietTurns ==
    ASSUME Typed, Gone, NEW m \in Messages,
           \/ Begin(m) \/ Promote(m) \/ Ask(m) \/ Refused(m) \/ Observe(m)
           \/ JoinUrl(m) \/ CreateLink(m) \/ Rollback(m) \/ MarkDeleted(m)
    PROVE  /\ task'[m].at \notin {"warn", "rollback", "deleted"}
           /\ ~task'[m].gone
<1>1. task \in [Messages -> TaskStates] /\ task[m] \in TaskStates
  BY DEF Typed, TypeOK, TaskStates
<1>2. CASE Begin(m)
  BY <1>1, <1>2 DEF Begin, Waiting, HandlingOver
<1>3. CASE Promote(m) \/ Ask(m)
  <2>1. ~task[m].gone
    BY <1>1, <1>3 DEF Promote, Ask, At, Gone
  <2>2. CASE Promote(m)
    <3>1. task'[m].at \in {"ask", "over"} /\ task'[m].gone \in {task[m].gone, FALSE}
      BY <1>1, <2>2 DEF Promote, Waiting, HandlingOver, TaskStates
    <3> QED BY <2>1, <3>1
  <2>3. CASE Ask(m)
    <3>1. task'[m].at = "observe" /\ task'[m].gone = task[m].gone
      BY <1>1, <2>3 DEF Ask, TaskStates
    <3> QED BY <2>1, <3>1
  <2> QED BY <1>3, <2>2, <2>3
<1>4. CASE Refused(m) \/ Rollback(m) \/ MarkDeleted(m)
  BY <1>1, <1>4 DEF Refused, Rollback, MarkDeleted, Go, Waiting, HandlingOver
<1>5. CASE Observe(m) \/ JoinUrl(m) \/ CreateLink(m)
  <2>1. ~task[m].gone
    BY <1>1, <1>5 DEF Observe, JoinUrl, CreateLink, At, Gone
  <2>2. \E p \in {"over", "link", "create", "evaluate"} : Go(m, p)
    BY <1>5 DEF Observe, JoinUrl, CreateLink
  <2> QED BY <1>1, <2>1, <2>2 DEF Go, Waiting, HandlingOver, TaskStates
<1> QED BY <1>2, <1>3, <1>4, <1>5

LEMMA MessageDeletions ==
    ASSUME Typed, Typed', Deletions, NEW m \in Messages,
           \/ Begin(m) \/ Promote(m) \/ Ask(m) \/ Refused(m) \/ Observe(m)
           \/ JoinUrl(m) \/ CreateLink(m) \/ Evaluate(m) \/ Delete(m)
           \/ Warn(m) \/ WarnFails(m) \/ Rollback(m) \/ MarkDeleted(m)
    PROVE  Deletions'
<1>1. /\ task \in [Messages -> TaskStates] /\ task[m] \in TaskStates
      /\ task' \in [Messages -> TaskStates]
      /\ \A n \in Messages \ {m} : task'[n] = task[n]
  BY OneTaskMoves DEF Typed, TypeOK, TaskStates
<1>2. Gone /\ row \in UserStates
  BY DEF Deletions, Typed, TypeOK, UserStates
<1>3. CASE \/ Begin(m) \/ Promote(m) \/ Ask(m) \/ Refused(m) \/ Observe(m)
           \/ JoinUrl(m) \/ CreateLink(m) \/ Rollback(m)
  <2>1. task'[m].at \notin {"warn", "rollback", "deleted"} /\ ~task'[m].gone
    BY <1>2, <1>3, QuietTurns
  <2>2. Gone' /\ Owed' \subseteq Owed
    BY <1>1, <1>2, <2>1 DEF Gone, Owed
  <2>3. removed' = removed
    BY <1>3 DEF Begin, Promote, Ask, Refused, Observe, JoinUrl, CreateLink, Rollback
  <2>4. row'.deleted = row.deleted
    <3>1. CASE Observe(m)
      BY <1>2, <3>1 DEF Observe, Observed, UserStates
    <3>2. CASE ~Observe(m)
      BY <1>2, <1>3, <3>2
      DEF Begin, Promote, Ask, Refused, JoinUrl, CreateLink, Rollback, UserStates
    <3> QED BY <3>1, <3>2
  <2>5. row'.deleted <= row.deleted
    BY <1>2, <2>4 DEF UserStates
  <2> QED BY <2>2, <2>3, <2>5, OwedShrinks
<1>4. CASE Evaluate(m)
  <2>1. ~task[m].gone
    BY <1>1, <1>2, <1>4 DEF Evaluate, At, Gone
  <2>2. task'[m].at # "deleted" /\ ~task'[m].gone
    <3>1. CASE Go(m, "over") \/ task' = [task EXCEPT ![m] = HandlingOver]
      BY <1>1, <3>1 DEF Go, HandlingOver, Waiting
    <3>2. CASE \E p \in {"ignored", "warn", "delete"} :
                  task' = [task EXCEPT ![m] = Turned(m, p)]
      BY <1>1, <2>1, <3>2 DEF Turned, TaskStates
    <3> QED BY <1>4, <3>1, <3>2, EvaluateTurns
  <2>3. Gone' /\ Owed' \subseteq Owed
    BY <1>1, <1>2, <2>2 DEF Gone, Owed
  <2>4. removed' = removed /\ row'.deleted <= row.deleted
    <3>1. removed' = removed /\ row'.deleted = row.deleted
      BY <1>2, <1>4 DEF Evaluate, UserStates
    <3> QED BY <1>2, <3>1 DEF UserStates
  <2> QED BY <2>3, <2>4, OwedShrinks
<1>5. CASE Delete(m)
  <2>1. m \notin removed /\ removed' = removed \cup {m} /\ row' = row
    BY <1>5 DEF Delete
  <2>2. m \notin Owed
    BY <2>1 DEF Deletions
  <2>3. task'[m].gone => task'[m].at \in {"warn", "rollback", "deleted"}
    <3>1. \A answered \in BOOLEAN :
             (IF task[m].at = "warn" THEN [task[m] EXCEPT !.gone = answered]
              ELSE IF answered THEN [task[m] EXCEPT !.at = "deleted"]
              ELSE HandlingOver).at \in {"warn", "deleted", "over"}
      BY <1>1 DEF HandlingOver, Waiting, TaskStates
    <3>2. HandlingOver.gone = FALSE /\ HandlingOver.at = "over"
      BY DEF HandlingOver, Waiting
    <3> QED BY <1>1, <1>2, <1>5, <3>1, <3>2 DEF Delete, TaskStates
  <2>4. Gone' /\ Owed' \subseteq Owed \cup {m}
    BY <1>1, <1>2, <2>3 DEF Gone, Owed
  <2>5. Owed' \subseteq removed'
    BY <2>1, <2>4 DEF Deletions
  <2>6. Cardinality(Owed') <= Cardinality(Owed) + 1
    <3>1. Owed \in SUBSET Messages /\ Owed \cup {m} \in SUBSET Messages
      BY DEF Owed
    <3>2. Cardinality(Owed \cup {m}) = Cardinality(Owed) + 1
      BY <2>2, <3>1, FiniteMessages, FS_AddElement
    <3>3. Cardinality(Owed') <= Cardinality(Owed \cup {m})
      BY <2>4, <3>1, FiniteMessages, FS_Subset
    <3> QED BY <3>2, <3>3
  <2>7. Cardinality(removed') = Cardinality(removed) + 1
    <3>1. IsFiniteSet(removed)
      BY FiniteMessages DEF Typed, TypeOK
    <3> QED BY <2>1, <3>1, FS_AddElement
  <2>8. /\ Cardinality(Owed) \in Nat /\ Cardinality(Owed') \in Nat
        /\ Cardinality(removed) \in Nat /\ row.deleted \in Nat
    BY <1>2, FiniteMessages DEF Owed, Typed, TypeOK
  <2>9. row'.deleted + Cardinality(Owed') <= Cardinality(removed')
    BY <2>1, <2>6, <2>7, <2>8 DEF Deletions
  <2> QED BY <2>4, <2>5, <2>9 DEF Deletions
<1>6. CASE Warn(m) \/ WarnFails(m)
  <2>1. /\ task[m].at = "warn" /\ task'[m].gone \in {task[m].gone, FALSE}
        /\ task'[m].at \in {"deleted", "over", "rollback"}
        /\ task'[m].at = "deleted" => task[m].gone
        /\ task'[m].at = "over" => ~task'[m].gone
    <3>1. CASE Warn(m)
      <4>1. CASE task[m].gone
        BY <1>1, <3>1, <4>1 DEF Warn, At, Go, TaskStates
      <4>2. CASE ~task[m].gone
        BY <1>1, <3>1, <4>2 DEF Warn, At, Go, HandlingOver, Waiting, TaskStates
      <4> QED BY <4>1, <4>2
    <3>2. CASE WarnFails(m)
      BY <1>1, <3>2 DEF WarnFails, At, Go, TaskStates
    <3> QED BY <1>6, <3>1, <3>2
  <2>2. Gone' /\ Owed' \subseteq Owed
    BY <1>1, <1>2, <2>1 DEF Gone, Owed
  <2>3. removed' = removed /\ row' = row
    BY <1>6 DEF Warn, WarnFails
  <2>4. row'.deleted <= row.deleted
    BY <1>2, <2>3 DEF UserStates
  <2> QED BY <2>2, <2>3, <2>4, OwedShrinks
<1>7. CASE MarkDeleted(m)
  <2>1. task'[m].at = "over" /\ ~task'[m].gone /\ task[m].at = "deleted"
    BY <1>1, <1>7 DEF MarkDeleted, At, Go, HandlingOver, Waiting
  <2>2. Gone' /\ Owed' = Owed \ {m} /\ m \in Owed
    BY <1>1, <1>2, <2>1 DEF Gone, Owed
  <2>3. removed' = removed /\ row'.deleted \in {row.deleted, row.deleted + 1}
    BY <1>2, <1>7 DEF MarkDeleted, UserStates
  <2>4. Cardinality(Owed') = Cardinality(Owed) - 1
    BY <2>2, FiniteMessages, FS_RemoveElement DEF Owed
  <2>5. /\ Cardinality(Owed) \in Nat /\ Cardinality(removed) \in Nat
        /\ row.deleted \in Nat
    BY <1>2, FiniteMessages DEF Owed, Typed, TypeOK
  <2>6. row'.deleted + Cardinality(Owed') <= Cardinality(removed')
    BY <2>3, <2>4, <2>5 DEF Deletions
  <2> QED BY <2>2, <2>3, <2>6 DEF Deletions
<1> QED BY <1>3, <1>4, <1>5, <1>6, <1>7

\* The steps that are not of a message.
OtherSteps ==
    \/ \E d \in Destinations : Move(d) \/ Configure(d) \/ ChangeDestination(d)
    \/ \E u \in updates : LoadForUpdate(u) \/ ObserveUpdate(u) \/ MarkInvite(u)
    \/ Toggle \/ DeleteRule \/ Crash
    \/ UNCHANGED vars

\* They leave the tasks alone, but for a crash, and the row's deletions, marks
\* and events and the rule's id, but for a wipe.
LEMMA OtherStepsKeep ==
    ASSUME Typed, OtherSteps
    PROVE  /\ removed' = removed
           /\ \/ task' = task
              \/ /\ \A m \in Messages : task'[m] \in {Waiting, HandlingOver}
                 /\ \A m \in Messages : UnderWay(m) => m \in cut'
           /\ \/ Wipe /\ task' = task
              \/ /\ row'.deleted = row.deleted /\ row'.warned = row.warned
                 /\ UNCHANGED <<rows, event, told, lost>>
                 /\ rule.present => rule'.present /\ rule'.id = rule.id
                 /\ cut \subseteq cut'
<1>1. /\ row \in UserStates
      /\ rule \in [id: Nat \ {0}, present: BOOLEAN, active: BOOLEAN,
                   to: Destinations]
  BY DEF Typed, TypeOK, UserStates
<1> USE DEF reported, ruleVars
<1>2. CASE \E d \in Destinations : Move(d) \/ Configure(d) \/ ChangeDestination(d)
  BY <1>2 DEF Move, Configure, ChangeDestination, UnchangedByOwner
<1>3. ASSUME NEW u \in updates,
             LoadForUpdate(u) \/ ObserveUpdate(u) \/ MarkInvite(u)
      PROVE  /\ UNCHANGED <<removed, task, rows, event, told, lost, cut, rule>>
             /\ row'.deleted = row.deleted /\ row'.warned = row.warned
  <2>1. UNCHANGED <<removed, task, rows, event, told, lost, cut, rule>>
    BY <1>3 DEF LoadForUpdate, ObserveUpdate, MarkInvite, UnchangedByUpdate
  <2>2. row' = row \/ row' = Observed(u.member) \/ row' = [row EXCEPT !.tracked = TRUE]
    BY <1>3 DEF LoadForUpdate, ObserveUpdate, MarkInvite
  <2>3. /\ Observed(u.member).deleted = row.deleted
        /\ Observed(u.member).warned = row.warned
    BY <1>1 DEF Observed, UserStates
  <2> QED BY <1>1, <2>1, <2>2, <2>3 DEF UserStates
<1>4. CASE Toggle \/ DeleteRule
  BY <1>1, <1>4 DEF Toggle, DeleteRule, UnchangedByOwner
<1>5. CASE Crash
  BY <1>5 DEF Crash
<1>6. CASE UNCHANGED vars
  BY <1>6 DEF vars
<1> QED BY <1>2, <1>3, <1>4, <1>5, <1>6 DEF OtherSteps

LEMMA OtherDeletions ==
    ASSUME Typed, Typed', Deletions, OtherSteps
    PROVE  Deletions'
<1>1. row \in UserStates /\ row' \in UserStates
  BY DEF Typed, TypeOK, UserStates
<1>2. Gone' /\ Owed' \subseteq Owed
  <2>1. CASE task' = task
    BY <2>1 DEF Deletions, Gone, Owed
  <2>2. CASE \A m \in Messages : task'[m] \in {Waiting, HandlingOver}
    BY <2>2 DEF Waiting, HandlingOver, Gone, Owed
  <2> QED BY <2>1, <2>2, OtherStepsKeep
<1>3. row'.deleted <= row.deleted
  <2>1. Wipe \/ row'.deleted = row.deleted
    BY OtherStepsKeep
  <2>2. Wipe => row'.deleted = 0
    BY DEF Wipe, FreshRow
  <2> QED BY <1>1, <2>1, <2>2 DEF UserStates
<1> QED BY <1>2, <1>3, OtherStepsKeep, OwedShrinks

LEMMA StepKinds ==
    [Next]_vars =>
        \/ OtherSteps
        \/ \E m \in Messages :
              \/ Begin(m) \/ Promote(m) \/ Ask(m) \/ Refused(m) \/ Observe(m)
              \/ JoinUrl(m) \/ CreateLink(m) \/ Evaluate(m) \/ Delete(m)
              \/ Warn(m) \/ WarnFails(m) \/ Rollback(m) \/ MarkDeleted(m)
  BY DEF Next, OtherSteps

LEMMA StepDeletions ==
    ASSUME Typed, Deletions, [Next]_vars
    PROVE  Deletions'
  BY StepKinds, StepTyped, OtherDeletions, MessageDeletions

-----------------------------------------------------------------------------
(* The warning.                                                              *)

IsWarned(m) == event[m] = "initial_warning_sent"

\* A warning, of this row or of an earlier one.
Warning(m) == task[m].at \in {"warn", "rollback"}

Warnings ==
    /\ \A m, n \in Messages : IsWarned(m) /\ IsWarned(n) => m = n
    /\ row.warned <=> \E m \in Messages : IsWarned(m)
    /\ \A m \in Messages : task[m].row <= rows
    /\ \A m \in Messages : Warning(m) => (IsWarned(m) <=> task[m].row = rows)
    /\ \A m \in Messages : UnderWay(m) => RuleIsThere(m)
    /\ told = lost \/ told = lost + 1
    /\ told = lost + 1 => row.warned /\ \A m \in Messages : ~UnderWay(m)
    /\ row.warned => told = lost + 1 \/ cut # {} \/ \E m \in Messages : UnderWay(m)

LEMMA OtherWarnings ==
    ASSUME Typed, Warnings, OtherSteps
    PROVE  Warnings'
<1>1. /\ row \in UserStates /\ rows \in Nat /\ told \in Nat /\ lost \in Nat
      /\ task \in [Messages -> TaskStates]
  BY DEF Typed, TypeOK, UserStates, TaskStates
<1>2. CASE Wipe /\ task' = task
  <2>1. /\ rows' = rows + 1 /\ told' = 0 /\ lost' = 0 /\ row'.warned = FALSE
        /\ \A m \in Messages : ~IsWarned(m)'
    BY <1>2 DEF Wipe, FreshRow, IsWarned
  <2>2. \A m \in Messages : task'[m].row <= rows' /\ task'[m].row # rows'
    BY <1>1, <1>2, <2>1 DEF Warnings, TaskStates
  <2> QED BY <2>1, <2>2 DEF Warnings, UnderWay
<1>3. CASE /\ row'.deleted = row.deleted /\ row'.warned = row.warned
           /\ UNCHANGED <<rows, event, told, lost>>
           /\ rule.present => rule'.present /\ rule'.id = rule.id
           /\ cut \subseteq cut'
  <2>1. CASE task' = task
    <3>1. \A m \in Messages : /\ UnderWay(m)' <=> UnderWay(m)
                              /\ Warning(m)' <=> Warning(m)
                              /\ IsWarned(m)' <=> IsWarned(m)
                              /\ RuleIsThere(m) => RuleIsThere(m)'
      BY <1>3, <2>1 DEF IsWarned, Warning, UnderWay, RuleIsThere
    <3> QED BY <1>3, <2>1, <3>1 DEF Warnings
  <2>2. CASE /\ \A m \in Messages : task'[m] \in {Waiting, HandlingOver}
             /\ \A m \in Messages : UnderWay(m) => m \in cut'
    <3>1. \A m \in Messages : ~Warning(m)' /\ ~UnderWay(m)' /\ task'[m].row = 0
      BY <2>2 DEF Warning, UnderWay, Waiting, HandlingOver
    <3> QED BY <1>1, <1>3, <2>2, <3>1 DEF Warnings, IsWarned
  <2> QED BY <2>1, <2>2, OtherStepsKeep
<1> QED BY <1>2, <1>3, OtherStepsKeep

\* The task of one message moves on, and starts and ends no warning.
LEMMA WarningsKept ==
    ASSUME Typed, Warnings, NEW m \in Messages,
           \A n \in Messages \ {m} : task'[n] = task[n],
           \A n \in Messages : IsWarned(n)' <=> IsWarned(n),
           row'.warned = row.warned, rows' = rows, cut' = cut,
           \/ told' = told /\ lost' = lost
           \/ told' = told + 1 /\ lost' = lost + 1,
           rule.present => rule' = rule,
           UnderWay(m) => Warning(m)',
           Warning(m)' => /\ Warning(m) /\ task'[m].row = task[m].row
                          /\ task'[m].rule = task[m].rule,
           task'[m].row <= rows
    PROVE  Warnings'
<1>1. \A n \in Messages : task'[n].row <= rows'
  BY DEF Warnings
<1>2. \A n \in Messages : Warning(n)' => (IsWarned(n)' <=> task'[n].row = rows')
  BY DEF Warnings, Warning
<1>3. \A n \in Messages : UnderWay(n)' <=> UnderWay(n)
  BY DEF Warning, UnderWay
<1>4. \A n \in Messages : UnderWay(n)' => RuleIsThere(n)'
  <2> SUFFICES ASSUME NEW n \in Messages, UnderWay(n)' PROVE RuleIsThere(n)'
    OBVIOUS
  <2>1. RuleIsThere(n) /\ task'[n].rule = task[n].rule
    BY <1>3 DEF Warnings, UnderWay, Warning
  <2> QED BY <2>1 DEF RuleIsThere
<1>5. row'.warned <=> \E n \in Messages : IsWarned(n)'
  BY DEF Warnings
<1>6. \A k, n \in Messages : IsWarned(k)' /\ IsWarned(n)' => k = n
  BY DEF Warnings
<1>7. /\ told' = lost' \/ told' = lost' + 1
      /\ told' = lost' + 1 <=> told = lost + 1
  BY DEF Warnings, Typed, TypeOK
<1> QED BY <1>1, <1>2, <1>3, <1>4, <1>5, <1>6, <1>7 DEF Warnings

LEMMA MessageWarnings ==
    ASSUME Typed, Typed', Gone, Warnings, NEW m \in Messages,
           \/ Begin(m) \/ Promote(m) \/ Ask(m) \/ Refused(m) \/ Observe(m)
           \/ JoinUrl(m) \/ CreateLink(m) \/ Evaluate(m) \/ Delete(m)
           \/ Warn(m) \/ WarnFails(m) \/ Rollback(m) \/ MarkDeleted(m)
    PROVE  Warnings'
<1>1. /\ task \in [Messages -> TaskStates] /\ task[m] \in TaskStates
      /\ task' \in [Messages -> TaskStates] /\ task'[m] \in TaskStates
      /\ \A n \in Messages \ {m} : task'[n] = task[n]
  BY OneTaskMoves DEF Typed, TypeOK, TaskStates
<1>2. /\ row \in UserStates /\ rows \in Nat /\ told \in Nat /\ lost \in Nat
      /\ event \in [Messages -> EventKinds]
      /\ task[m].row <= rows /\ task[m].row \in Nat /\ 0 <= rows
  BY <1>1 DEF Typed, TypeOK, UserStates, EventKinds, Warnings, TaskStates
<1>3. CASE \/ Begin(m) \/ Promote(m) \/ Ask(m) \/ Refused(m) \/ Observe(m)
           \/ JoinUrl(m) \/ CreateLink(m) \/ MarkDeleted(m)
  <2>1. ~Warning(m)' /\ ~UnderWay(m)
    <3>1. ~UnderWay(m)
      BY <1>3 DEF UnderWay, Begin, Promote, Ask, Refused, Observe, JoinUrl, CreateLink,
                  MarkDeleted, At
    <3> QED BY <1>3, <3>1, QuietTurns DEF Warning
  <2>2. task'[m].row \in {task[m].row, 0}
    <3>1. CASE Begin(m)
      BY <1>1, <3>1 DEF Begin, Waiting, HandlingOver
    <3>2. CASE Promote(m)
      BY <1>1, <3>2 DEF Promote, Waiting, HandlingOver, TaskStates
    <3>3. CASE Ask(m)
      BY <1>1, <3>3 DEF Ask, TaskStates
    <3>4. CASE \E p \in Phases : Go(m, p)
      BY <1>1, <3>4 DEF Go, Waiting, HandlingOver, TaskStates
    <3> QED BY <1>3, <3>1, <3>2, <3>3, <3>4
            DEF Refused, Observe, JoinUrl, CreateLink, MarkDeleted, Phases
  <2>3. row'.warned = row.warned
    <3>1. CASE Observe(m)
      BY <1>2, <3>1 DEF Observe, Observed, UserStates
    <3>2. CASE ~Observe(m)
      BY <1>2, <1>3, <3>2
      DEF Begin, Promote, Ask, Refused, JoinUrl, CreateLink, MarkDeleted, UserStates
    <3> QED BY <3>1, <3>2
  <2>4. \A n \in Messages : IsWarned(n)' <=> IsWarned(n)
    <3>1. CASE MarkDeleted(m)
      BY <1>2, <3>1 DEF MarkDeleted, IsWarned, EventKinds
    <3>2. CASE ~MarkDeleted(m)
      BY <1>3, <3>2
      DEF Begin, Promote, Ask, Refused, Observe, JoinUrl, CreateLink, IsWarned
    <3> QED BY <3>1, <3>2
  <2>5. UNCHANGED <<rows, told, lost, cut>> /\ (rule.present => rule' = rule)
    BY <1>3 DEF Begin, Promote, Ask, Refused, Observe, JoinUrl, CreateLink, MarkDeleted,
                reported, ruleVars
  <2> QED BY <1>1, <1>2, <2>1, <2>2, <2>3, <2>4, <2>5, WarningsKept
<1>4. CASE Delete(m)
  <2>1. /\ task'[m].row \in {task[m].row, 0}
        /\ Warning(m)' => /\ Warning(m) /\ task'[m].row = task[m].row
                          /\ task'[m].rule = task[m].rule
        /\ UnderWay(m) => Warning(m)'
    BY <1>1, <1>4
    DEF Delete, At, Warning, UnderWay, Waiting, HandlingOver, TaskStates
  <2>2. UNCHANGED <<row, rows, told, lost, cut, event, rule>>
    BY <1>4 DEF Delete, reported, ruleVars
  <2> QED BY <1>1, <1>2, <2>1, <2>2, WarningsKept DEF IsWarned
<1>5. CASE Evaluate(m)
  <2>1. ~Warning(m) /\ ~UnderWay(m)
    BY <1>5 DEF Evaluate, At, Warning, UnderWay
  <2>2. UNCHANGED <<rows, told, lost, cut, rule>>
    BY <1>5 DEF Evaluate, reported, ruleVars
  <2> DEFINE known == \E n \in SameEvent(m) : event[n] # "none"
             warn == ~row.warned /\ ~row.ever
  <2>3. CASE ~RuleIsThere(m) \/ known
    <3>1. ~Warning(m)' /\ task'[m].row \in {task[m].row, rows, 0}
      <4>1. \/ task' = [task EXCEPT ![m] = HandlingOver]
            \/ task' = [task EXCEPT ![m] = Turned(m, "ignored")]
        BY <1>5, <2>3 DEF Evaluate, Go, Turned
      <4>2. /\ HandlingOver.at = "over" /\ HandlingOver.row = 0
            /\ Turned(m, "ignored").at = "ignored" /\ Turned(m, "ignored").row = rows
        BY <1>1 DEF HandlingOver, Waiting, Turned, TaskStates
      <4> QED BY <1>1, <4>1, <4>2 DEF Warning
    <3>2. UNCHANGED <<row, event>>
      BY <1>5, <2>3 DEF Evaluate
    <3>3. \A n \in Messages : IsWarned(n)' <=> IsWarned(n)
      BY <3>2 DEF IsWarned
    <3> QED BY <1>1, <1>2, <2>1, <2>2, <3>1, <3>2, <3>3, WarningsKept
  <2>4. CASE RuleIsThere(m) /\ ~known /\ warn
    <3>1. /\ task' = [task EXCEPT ![m] = Turned(m, "warn")]
          /\ row' = [row EXCEPT !.warned = TRUE, !.member = FALSE,
                                !.messages = row.messages + 1]
          /\ event' = [event EXCEPT ![m] = "initial_warning_sent"]
      BY <1>5, <2>4 DEF Evaluate, Turned
    <3>2. /\ task'[m].row = rows /\ task'[m].at = "warn"
          /\ task'[m].rule = task[m].rule /\ row'.warned
      BY <1>1, <1>2, <3>1 DEF Turned, TaskStates, UserStates
    <3>3. told = lost /\ \A n \in Messages : ~IsWarned(n) /\ ~UnderWay(n)
      BY <1>2, <2>4 DEF Warnings, UnderWay, Warning
    <3>4. \A n \in Messages : IsWarned(n)' <=> n = m
      BY <1>2, <3>1, <3>3 DEF IsWarned
    <3>5. \A n \in Messages :
             Warning(n)' => (IsWarned(n)' <=> task'[n].row = rows')
      BY <1>1, <2>2, <3>2, <3>3, <3>4 DEF Warnings, Warning
    <3>6. \A n \in Messages : task'[n].row <= rows'
      BY <1>1, <1>2, <2>2, <3>2 DEF Warnings
    <3>7. \A n \in Messages : UnderWay(n)' <=> n = m
      BY <1>1, <2>2, <3>2, <3>3 DEF UnderWay
    <3>8. RuleIsThere(m)'
      BY <2>2, <2>4, <3>2 DEF RuleIsThere
    <3>9. told' = lost' /\ told' # lost' + 1
      BY <1>2, <2>2, <3>3
    <3> QED BY <2>2, <3>2, <3>4, <3>5, <3>6, <3>7, <3>8, <3>9 DEF Warnings
  <2>5. CASE RuleIsThere(m) /\ ~known /\ ~warn
    <3>1. /\ task' = [task EXCEPT ![m] = Turned(m, "delete")]
          /\ row' = [row EXCEPT !.warned = row.warned \/ warn, !.member = FALSE,
                                !.messages = row.messages + 1]
          /\ event' = [event EXCEPT ![m] = "message_delete_required"]
      BY <1>5, <2>5 DEF Evaluate, Turned
    <3>2. task'[m].row = rows /\ ~Warning(m)'
      BY <1>1, <1>2, <3>1 DEF Turned, Warning, TaskStates
    <3>3. row'.warned = row.warned
      BY <1>2, <2>5, <3>1 DEF UserStates
    <3>4. \A n \in Messages : IsWarned(n)' <=> IsWarned(n)
      <4>1. event[m] = "none"
        BY <2>5 DEF SameEvent
      <4> QED BY <1>2, <3>1, <4>1 DEF IsWarned
    <3> QED BY <1>1, <1>2, <2>1, <2>2, <3>2, <3>3, <3>4, WarningsKept
  <2> QED BY <2>3, <2>4, <2>5
<1>6. CASE Warn(m)
  <2>1. ~Warning(m)' /\ ~UnderWay(m)' /\ task'[m].row <= rows
    BY <1>1, <1>2, <1>6
    DEF Warn, Go, Warning, UnderWay, HandlingOver, Waiting, TaskStates
  <2>2. UNCHANGED <<row, rows, event, lost, cut, rule>>
    BY <1>6 DEF Warn, ruleVars
  <2>3. CASE task[m].row # rows
    BY <1>1, <1>6, <2>1, <2>2, <2>3, WarningsKept DEF Warn, IsWarned, UnderWay
  <2>4. CASE task[m].row = rows
    <3>1. told = lost /\ told' = told + 1 /\ IsWarned(m)
      BY <1>2, <1>6, <2>4 DEF Warn, At, Warnings, Warning, UnderWay
    <3>2. \A n \in Messages : ~UnderWay(n)'
      <4>1. \A n \in Messages \ {m} : ~UnderWay(n)
        BY <3>1 DEF Warnings, UnderWay, Warning
      <4> QED BY <1>1, <2>1, <2>2, <4>1 DEF UnderWay
    <3>3. \A n \in Messages : IsWarned(n)' <=> IsWarned(n)
      BY <2>2 DEF IsWarned
    <3>4. \A n \in Messages :
             Warning(n)' => (IsWarned(n)' <=> task'[n].row = rows')
      BY <1>1, <2>1, <2>2, <3>3 DEF Warnings, Warning
    <3>5. \A n \in Messages : task'[n].row <= rows'
      BY <1>1, <2>1, <2>2 DEF Warnings
    <3>6. row'.warned /\ \A k, n \in Messages : IsWarned(k)' /\ IsWarned(n)' => k = n
      BY <2>2, <3>1, <3>3 DEF Warnings
    <3>7. told' = lost' + 1
      BY <2>2, <3>1
    <3> QED BY <3>1, <3>2, <3>3, <3>4, <3>5, <3>6, <3>7 DEF Warnings
  <2> QED BY <2>3, <2>4
<1>7. CASE WarnFails(m)
  <2>1. /\ Warning(m) /\ Warning(m)' /\ task'[m].row = task[m].row
        /\ task'[m].rule = task[m].rule
    BY <1>1, <1>7 DEF WarnFails, At, Go, Warning, TaskStates
  <2>2. UNCHANGED <<row, rows, cut, event, rule>>
    BY <1>7 DEF WarnFails, ruleVars
  <2>3. \/ told' = told /\ lost' = lost
        \/ told' = told + 1 /\ lost' = lost + 1
    BY <1>7 DEF WarnFails
  <2> QED BY <1>1, <1>2, <2>1, <2>2, <2>3, WarningsKept DEF IsWarned
<1>8. CASE Rollback(m)
  <2>1. /\ task[m].at = "rollback" /\ ~Warning(m)' /\ ~UnderWay(m)'
        /\ task'[m].row = 0
        /\ UNCHANGED <<rows, told, lost, cut, rule>>
    BY <1>1, <1>8
    DEF Rollback, At, Go, Warning, UnderWay, HandlingOver, Waiting, reported, ruleVars
  <2>2. CASE ~(IsWarned(m) /\ RuleIsThere(m))
    <3>1. ~UnderWay(m)
      BY <2>1, <2>2 DEF Warnings, UnderWay, Warning
    <3> QED BY <1>1, <1>2, <1>8, <2>1, <2>2, <3>1, WarningsKept DEF Rollback, IsWarned
  <2>3. CASE IsWarned(m) /\ RuleIsThere(m)
    <3>1. told = lost
      BY <2>1, <2>3 DEF Warnings, Warning, UnderWay
    <3>2. /\ row'.warned = FALSE
          /\ event' = [event EXCEPT ![m] = "none"]
      BY <1>2, <1>8, <2>3 DEF Rollback, IsWarned, UserStates
    <3>3. \A n \in Messages : ~IsWarned(n)'
      BY <1>2, <2>3, <3>2 DEF Warnings, IsWarned
    <3>4. \A n \in Messages : Warning(n)' => task'[n].row # rows'
      <4>1. \A n \in Messages \ {m} : ~IsWarned(n)
        BY <2>3 DEF Warnings
      <4> QED BY <1>1, <2>1, <4>1 DEF Warnings, Warning
    <3>5. \A n \in Messages : ~UnderWay(n)'
      BY <3>4 DEF UnderWay, Warning
    <3>6. \A n \in Messages : task'[n].row <= rows'
      BY <1>1, <1>2, <2>1 DEF Warnings
    <3>7. told' = lost' /\ told' # lost' + 1
      BY <1>2, <2>1, <3>1
    <3> QED BY <2>1, <3>2, <3>3, <3>4, <3>5, <3>6, <3>7 DEF Warnings
  <2> QED BY <2>2, <2>3
<1> QED BY <1>3, <1>4, <1>5, <1>6, <1>7, <1>8

-----------------------------------------------------------------------------
(* The theorems.                                                             *)

Inv == Typed /\ Counted /\ Deletions /\ Warnings

LEMMA InitInv == Init => Inv
<1> SUFFICES ASSUME Init PROVE Inv
  OBVIOUS
<1>1. Typed
  BY InitTyped DEF Init, Typed, Aimed, Waiting
<1>2. Counted
  BY DEF Init, FreshRow, Counted, CountersAgree
<1>3. Deletions
  <2>1. Owed = {} /\ Gone
    BY DEF Init, Waiting, Owed, Gone
  <2>2. row.deleted = 0 /\ removed = {}
    BY DEF Init, FreshRow
  <2> QED BY <2>1, <2>2, FS_EmptySet DEF Deletions
<1>4. Warnings
  BY DEF Init, FreshRow, Waiting, Warnings, IsWarned, Warning, UnderWay
<1> QED BY <1>1, <1>2, <1>3, <1>4 DEF Inv

LEMMA StepInv == Inv /\ [Next]_vars => Inv'
<1> SUFFICES ASSUME Inv, [Next]_vars PROVE Inv'
  OBVIOUS
<1>1. Typed'
  BY StepTyped DEF Inv
<1>2. Counted' /\ Deletions'
  BY StepCounted, StepDeletions DEF Inv
<1>3. Warnings'
  BY <1>1, StepKinds, OtherWarnings, MessageWarnings DEF Inv, Deletions
<1> QED BY <1>1, <1>2, <1>3 DEF Inv

LEMMA Invariant == Spec => []Inv
  BY InitInv, StepInv, PTL DEF Spec

\* The variables of ForcedMembership keep their types.
THEOREM TypeCorrect == Spec => []TypeOK
<1>1. Inv => TypeOK
  BY DEF Inv, Typed
<1> QED BY <1>1, Invariant, PTL

\* A member is told once that the next message will be deleted, and again only
\* for each warning whose answer was lost; without an answered warning the mark
\* of the row stands only while one is under way or after the process died in
\* one, and it stands exactly as long as the event of the warning
\* (evaluate_nonmember_message, rollback_initial_warning).
THEOREM OneWarning == Spec => []WarnedOnce
<1>1. Inv => WarnedOnce
  <2> SUFFICES ASSUME Inv PROVE WarnedOnce
    OBVIOUS
  <2>1. told <= lost + 1
    BY DEF Inv, Warnings, Typed, TypeOK
  <2> QED BY <2>1 DEF Inv, Warnings, IsWarned, WarnedOnce
<1> QED BY <1>1, Invariant, PTL

\* The report counts no message as deleted that is still in the group
\* (mark_message_deleted).
THEOREM CountedAreDeleted == Spec => []DeletionsAreReal
<1>1. Inv => DeletionsAreReal
  <2> SUFFICES ASSUME Inv PROVE DeletionsAreReal
    OBVIOUS
  <2>1. /\ Cardinality(Owed) \in Nat /\ Cardinality(removed) \in Nat
        /\ row.deleted \in Nat
    BY FiniteMessages DEF Owed, Inv, Typed, TypeOK
  <2> QED BY <2>1 DEF Inv, Deletions, DeletionsAreReal
<1> QED BY <1>1, Invariant, PTL

\* However late an answer is stored and in whatever order the updates come, the
\* counters of the report agree (observe_membership).
THEOREM CountersAlwaysAgree == Spec => []CountersAgree
<1>1. Inv => CountersAgree
  BY DEF Inv, Counted
<1> QED BY <1>1, Invariant, PTL
=============================================================================
