---------------------------- MODULE ForcedMembership ----------------------------
(***************************************************************************)
(* Forced membership (forced_membership*.py): one member of a group, the   *)
(* rule that sends its members to a destination, and the row the bot keeps *)
(* of the member for this rule.                                            *)
(*                                                                         *)
(* A message of the member is a task of the middleware: it asks Telegram   *)
(* for the membership, stores the answer, decides in a transaction of its  *)
(* own, and acts on the decision.  Between any two of these the member may *)
(* join or leave, other messages and the updates of the destination are    *)
(* handled, and the owner changes the rule.  The transactions themselves   *)
(* run one after the other: sync_to_async(thread_sensitive=True) gives     *)
(* them one thread.                                                        *)
(*                                                                         *)
(* The process may die.  Telegram delivers what was in flight again, with  *)
(* the update id it had, or not at all.  Each message is one update, so a  *)
(* message stands for its update id; the destination's updates are         *)
(* numbered by the move of the member and the bot that hears of it.        *)
(***************************************************************************)
EXTENDS Naturals, FiniteSets

CONSTANTS
    Messages,       \* messages of the member
    Destinations,
    None,           \* no destination, no invite link
    Watchers,       \* bots that get the updates of the destinations
    Private,        \* destinations without a username: joined by invite link
    MaxMoves,       \* bound: joins and leaves
    MaxChanges,     \* bound: changes of the rule by its owner
    MaxCrashes      \* bound: deaths of the process

ASSUME MembershipAssumption ==
    /\ IsFiniteSet(Messages)
    /\ None \notin Destinations
    /\ Private \subseteq Destinations
    /\ MaxMoves \in Nat /\ MaxChanges \in Nat /\ MaxCrashes \in Nat

VARIABLES
    inside,         \* destination -> the member is in it
    moves,          \* joins and leaves so far
    updates,        \* updates of the destinations that are to be handled
    heard,          \* update ids with a stored event
    rule,           \* the rule: its id, whether it exists, is active, where to
    legacy,         \* mandatory_channel of the group, or None
    row,            \* ForcedMembershipUserState of the member
    rows,           \* rows made and deleted before this one
    links,          \* invite links of the member that are stored as unused
    spent,          \* links the member has joined by
    event,          \* message -> the stored event of its update
    album,          \* messages of one media group
    task,           \* message -> where its handling is
    changes, crashes,
    \* observation only
    removed,        \* messages deleted from the group
    told,           \* warnings that reached the member since the row was made
    lost,           \* those of them whose answer was lost
    cut             \* messages of the row in whose warning the process died

reported == <<told, lost, cut>>

ruleVars == <<rule, legacy, changes>>
vars == <<inside, moves, updates, heard, rule, legacy, row, rows, links, spent,
          event, album, task, changes, crashes, removed, reported>>

FreshRow == [warned |-> FALSE, ever |-> FALSE, member |-> FALSE,
             messages |-> 0, deleted |-> 0, joins |-> 0, leaves |-> 0, rejoins |-> 0,
             tracked |-> FALSE]

Phases == {"waiting", "promote", "ask", "observe", "link", "create",
           "evaluate", "ignored", "warn", "delete", "rollback", "deleted",
           "over"}

\* What a task remembers: the rule it was given, the answer of Telegram, the
\* row its decision was made on, and whether it has deleted its message.
Waiting == [at |-> "waiting", rule |-> 0, to |-> None, member |-> FALSE,
            row |-> 0, gone |-> FALSE]

\* The message was passed on to its handler, or kept back.
HandlingOver == [Waiting EXCEPT !.at = "over"]

At(m, phase) == task[m].at = phase

Go(m, phase) ==
    task' = [task EXCEPT ![m] = IF phase = "over" THEN HandlingOver
                                ELSE [@ EXCEPT !.at = phase]]

Init ==
    /\ inside \in [Destinations -> BOOLEAN]
    /\ moves = 0
    /\ updates = {}
    /\ heard = {}
    /\ \E d \in Destinations, present \in BOOLEAN :
          /\ rule = [id |-> 1, present |-> present, active |-> present,
                     to |-> d]
          /\ legacy \in {d, None}
    /\ row = FreshRow
    /\ rows = 0
    /\ links = {} /\ spent = {}
    /\ event = [m \in Messages |-> "none"]
    /\ album \in {{}, Messages}
    /\ task = [m \in Messages |-> Waiting]
    /\ changes = 0 /\ crashes = 0
    /\ removed = {}
    /\ told = 0 /\ lost = 0 /\ cut = {}

-----------------------------------------------------------------------------
(* The member, and what the destination's bots hear of it. *)

Move(d) ==
    /\ moves < MaxMoves
    /\ inside' = [inside EXCEPT ![d] = ~@]
    /\ moves' = moves + 1
    /\ \E invite \in {None} \cup (links \ spent) :
          /\ invite # None => ~inside[d] /\ d \in Private
          /\ spent' = IF invite = None THEN spent ELSE spent \cup {invite}
          /\ updates' = updates \cup
                {[move |-> moves', bot |-> w, to |-> d, member |-> ~inside[d],
                  invite |-> invite, at |-> "new", rule |-> 0] :
                    w \in Watchers}
    /\ UNCHANGED <<heard, ruleVars, row, rows, links, event, album, task,
                   crashes, removed, reported>>

Id(u) == <<u.move, u.bot>>

UnchangedByUpdate == UNCHANGED <<inside, moves, ruleVars, rows, spent, event,
                                 album, task, crashes, removed, reported>>

FaultyObserved(member) ==
    CASE member /\ ~row.member ->
            [row EXCEPT !.member = TRUE, !.ever = TRUE, !.joins = @ + 1,
                        !.rejoins = IF row.ever THEN @ + 1 ELSE @]
      [] ~member -> [row EXCEPT !.member = FALSE, !.leaves = @ + 1]
      [] OTHER -> row

\* observe_membership, when no event of the update is stored.
Observed(member) ==
    CASE member /\ ~row.member ->
            [row EXCEPT !.member = TRUE, !.ever = TRUE, !.joins = @ + 1,
                        !.rejoins = IF row.ever THEN @ + 1 ELSE @]
      [] ~member /\ row.member ->
            [row EXCEPT !.member = FALSE, !.leaves = @ + 1]
      [] OTHER -> row

\* process_destination_member_update loads the rules of the destination, ...
LoadForUpdate(u) ==
    /\ u \in updates /\ u.at = "new"
    /\ updates' = (updates \ {u}) \cup
          (IF rule.present /\ rule.active /\ rule.to = u.to
           THEN {[u EXCEPT !.at = "loaded", !.rule = rule.id]} ELSE {})
    /\ UnchangedByUpdate
    /\ UNCHANGED <<heard, row, links>>

\* ... stores the membership, once for each update, ...
ObserveUpdate(u) ==
    /\ u \in updates /\ u.at = "loaded"
    /\ IF rule.present /\ rule.id = u.rule
       THEN /\ updates' = (updates \ {u}) \cup
                 (IF u.invite = None THEN {}
                  ELSE {[u EXCEPT !.at = "observed"]})
            /\ heard' = heard \cup {Id(u)}
            /\ row' = IF Id(u) \in heard THEN row ELSE Observed(u.member)
       ELSE /\ updates' = updates \ {u}
            /\ UNCHANGED <<heard, row>>
    /\ UnchangedByUpdate
    /\ UNCHANGED links

\* ... and marks the invite link as used, also if the update was known.
MarkInvite(u) ==
    /\ u \in updates /\ u.at = "observed"
    /\ updates' = updates \ {u}
    /\ links' = links \ {u.invite}
    /\ row' = IF u.invite \in links THEN [row EXCEPT !.tracked = TRUE] ELSE row
    /\ UnchangedByUpdate
    /\ UNCHANGED heard

-----------------------------------------------------------------------------
(* A message, in the middleware. *)

UnchangedByTask ==
    UNCHANGED <<inside, moves, updates, heard, spent, album, crashes>>

\* The rules of the group are loaded.
Begin(m) ==
    /\ At(m, "waiting")
    /\ task' = [task EXCEPT ![m] =
          IF rule.present /\ rule.active
          THEN [Waiting EXCEPT !.at = "ask", !.rule = rule.id, !.to = rule.to]
          ELSE IF ~rule.present /\ legacy # None
          THEN [Waiting EXCEPT !.at = "promote", !.to = legacy]
          ELSE HandlingOver]
    /\ UnchangedByTask
    /\ UNCHANGED <<ruleVars, row, rows, links, event, removed, reported>>

\* promote_legacy_membership_rule after the bot has checked its rights, and
\* the rules are loaded again.
Promote(m) ==
    /\ At(m, "promote")
    /\ rule' = IF rule.present THEN rule
               ELSE [id |-> rule.id + 1, present |-> TRUE, active |-> TRUE,
                     to |-> task[m].to]
    /\ task' = [task EXCEPT ![m] =
          IF rule'.active
          THEN [@ EXCEPT !.at = "ask", !.rule = rule'.id, !.to = rule'.to]
          ELSE HandlingOver]
    /\ UnchangedByTask
    /\ UNCHANGED <<legacy, changes, row, rows, links, event, removed, reported>>

\* get_chat_member
Ask(m) ==
    /\ At(m, "ask")
    /\ task' = [task EXCEPT ![m].at = "observe",
                            ![m].member = inside[task[m].to]]
    /\ UnchangedByTask
    /\ UNCHANGED <<ruleVars, row, rows, links, event, removed, reported>>

\* Telegram refuses a call whose failure blocks the message, or a transaction
\* finds the rule deleted.
Refused(m) ==
    /\ task[m].at \in {"promote", "ask", "create", "delete", "ignored"}
    /\ Go(m, "over")
    /\ UnchangedByTask
    /\ UNCHANGED <<ruleVars, row, rows, links, event, removed, reported>>

\* A warning of the present row is under way, or is being taken back.
UnderWay(m) == task[m].at \in {"warn", "rollback"} /\ task[m].row = rows

RuleIsThere(m) == rule.present /\ rule.id = task[m].rule

\* The answer is stored; it may be older than what the row has.
Observe(m) ==
    /\ At(m, "observe")
    /\ IF RuleIsThere(m)
       THEN /\ row' = Observed(task[m].member)
            /\ Go(m, IF task[m].member THEN "over" ELSE "link")
       ELSE /\ Go(m, "over")
            /\ UNCHANGED row
    /\ UnchangedByTask
    /\ UNCHANGED <<ruleVars, rows, links, event, removed, reported>>

\* _join_url: a private destination needs an unused link of the member, ...
JoinUrl(m) ==
    /\ At(m, "link")
    /\ Go(m, IF task[m].to \in Private /\ links = {} THEN "create"
             ELSE "evaluate")
    /\ UnchangedByTask
    /\ UNCHANGED <<ruleVars, row, rows, links, event, removed, reported>>

\* ... or a new one, which is then stored.
CreateLink(m) ==
    /\ At(m, "create")
    /\ IF RuleIsThere(m)
       THEN /\ links' = links \cup {<<m, rows>>}
            /\ spent' = spent \ {<<m, rows>>}
            /\ Go(m, "evaluate")
       ELSE /\ Go(m, "over")
            /\ UNCHANGED <<links, spent>>
    /\ UNCHANGED <<inside, moves, updates, heard, ruleVars, row, rows, event,
                   album, crashes, removed, reported>>

\* The messages that share the id of an event: those of an album do.
SameEvent(m) == IF m \in album THEN album ELSE {m}

\* evaluate_nonmember_message
Evaluate(m) ==
    /\ At(m, "evaluate")
    /\ LET known == \E n \in SameEvent(m) : event[n] # "none"
           warn == ~row.warned /\ ~row.ever
           next == IF known THEN "ignored"
                   ELSE IF warn THEN "warn" ELSE "delete"
       IN  IF ~RuleIsThere(m)
           THEN Go(m, "over") /\ UNCHANGED <<row, event>>
           ELSE /\ task' = [task EXCEPT ![m] =
                      IF known /\ m \notin album THEN HandlingOver
                      ELSE [@ EXCEPT !.row = rows, !.at = next,
                                     !.member = FALSE]]
                /\ IF known THEN UNCHANGED <<row, event>>
                   ELSE /\ row' = [row EXCEPT !.warned = @ \/ warn,
                                              !.member = FALSE,
                                              !.messages = @ + 1]
                        /\ event' = [event EXCEPT ![m] =
                              IF warn THEN "initial_warning_sent"
                              ELSE "message_delete_required"]
    /\ UnchangedByTask
    /\ UNCHANGED <<ruleVars, rows, links, removed, reported>>

\* Telegram deletes the message of a task that is to delete it; its answer may
\* be lost.
Delete(m) ==
    /\ task[m].at \in {"ignored", "delete"} \/ (At(m, "warn") /\ m \in album)
    /\ m \notin removed
    /\ removed' = removed \cup {m}
    /\ \E answered \in BOOLEAN :
          task' = [task EXCEPT ![m] =
              IF @.at = "warn" THEN [@ EXCEPT !.gone = answered]
              ELSE IF answered THEN [@ EXCEPT !.at = "deleted"]
              ELSE HandlingOver]
    /\ UnchangedByTask
    /\ UNCHANGED <<ruleVars, row, rows, links, event, reported>>

FaultyWarn(m) ==
    /\ At(m, "warn")
    /\ Go(m, IF m \in album THEN "deleted" ELSE "over")
    /\ told' = IF task[m].row = rows THEN told + 1 ELSE told
    /\ UnchangedByTask
    /\ UNCHANGED <<ruleVars, row, rows, links, event, removed, lost, cut>>

\* The warning is sent.  A message of an album is deleted before, or not.
Warn(m) ==
    /\ At(m, "warn")
    /\ Go(m, IF task[m].gone THEN "deleted" ELSE "over")
    /\ told' = IF task[m].row = rows THEN told + 1 ELSE told
    /\ UnchangedByTask
    /\ UNCHANGED <<ruleVars, row, rows, links, event, removed, lost, cut>>

\* The warning was not sent, or it was and the answer is lost: the code sees the
\* same error.
WarnFails(m) ==
    /\ At(m, "warn")
    /\ Go(m, "rollback")
    /\ \/ UNCHANGED <<told, lost>>
       \/ task[m].row = rows /\ told' = told + 1 /\ lost' = lost + 1
    /\ UnchangedByTask
    /\ UNCHANGED <<ruleVars, row, rows, links, event, removed, cut>>

FaultyRollback(m) ==
    /\ At(m, "rollback")
    /\ Go(m, "over")
    /\ row' = [row EXCEPT !.warned = FALSE, !.messages = @ - 1]
    /\ event' = [event EXCEPT ![m] = "none"]
    /\ UnchangedByTask
    /\ UNCHANGED <<ruleVars, rows, links, removed, reported>>

\* rollback_initial_warning
Rollback(m) ==
    /\ At(m, "rollback")
    /\ Go(m, "over")
    /\ IF event[m] = "initial_warning_sent" /\ RuleIsThere(m)
       THEN /\ row' = [row EXCEPT !.warned = FALSE,
                                  !.messages = IF @ > 0 THEN @ - 1 ELSE 0]
            /\ event' = [event EXCEPT ![m] = "none"]
       ELSE UNCHANGED <<row, event>>
    /\ UnchangedByTask
    /\ UNCHANGED <<ruleVars, rows, links, removed, reported>>

\* mark_message_deleted: by the key of the row, which may be gone.
MarkDeleted(m) ==
    /\ At(m, "deleted")
    /\ Go(m, "over")
    /\ IF task[m].row = rows
       THEN /\ row' = [row EXCEPT !.deleted = @ + 1]
            /\ event' = [event EXCEPT ![m] =
                  IF @ = "message_delete_required" /\ m \notin album
                  THEN "message_deleted" ELSE @]
       ELSE UNCHANGED <<row, event>>
    /\ UnchangedByTask
    /\ UNCHANGED <<ruleVars, rows, links, removed, reported>>

-----------------------------------------------------------------------------
(* The owner of the rule. *)

Wipe ==
    /\ row' = FreshRow
    /\ rows' = rows + 1
    /\ links' = {}
    /\ event' = [m \in Messages |-> "none"]
    /\ heard' = {}
    /\ told' = 0 /\ lost' = 0 /\ cut' = {}

Change == changes < MaxChanges /\ changes' = changes + 1

UnchangedByOwner == UNCHANGED <<inside, moves, updates, spent, album, task,
                                crashes, removed>>

\* save_rule: the same destination again activates the rule.
Configure(d) ==
    /\ Change
    /\ rule.present => d = rule.to
    /\ rule' = [id |-> IF rule.present THEN rule.id ELSE rule.id + 1,
                present |-> TRUE, active |-> TRUE, to |-> d]
    /\ UnchangedByOwner
    /\ UNCHANGED <<legacy, heard, row, rows, links, event, reported>>

\* set_rule_active, from the keyboard.
Toggle ==
    /\ Change
    /\ rule.present
    /\ rule' = [rule EXCEPT !.active = ~@]
    /\ UnchangedByOwner
    /\ UNCHANGED <<legacy, heard, row, rows, links, event, reported>>

\* update_rule_destination
ChangeDestination(d) ==
    /\ Change
    /\ rule.present
    /\ rule' = [rule EXCEPT !.to = d]
    /\ Wipe
    /\ UnchangedByOwner
    /\ UNCHANGED legacy

\* delete_rule, which also clears the setting that would bring the rule back.
DeleteRule ==
    /\ Change
    /\ rule.present
    /\ rule' = [rule EXCEPT !.present = FALSE, !.active = FALSE]
    /\ legacy' = IF legacy = rule.to THEN None ELSE legacy
    /\ Wipe
    /\ UnchangedByOwner

-----------------------------------------------------------------------------

\* The process dies with its tasks.
Crash ==
    /\ crashes < MaxCrashes
    /\ crashes' = crashes + 1
    /\ \E again \in SUBSET {m \in Messages : ~At(m, "over")} :
          task' = [m \in Messages |->
                      IF m \in again \/ At(m, "waiting") THEN Waiting
                      ELSE HandlingOver]
    /\ updates' = {[u EXCEPT !.at = "new"] : u \in updates}
    /\ cut' = cut \cup {m \in Messages : UnderWay(m)}
    /\ UNCHANGED <<inside, moves, heard, ruleVars, row, rows, links, spent,
                   event, album, removed, told, lost>>

Next ==
    \/ \E d \in Destinations : Move(d) \/ Configure(d) \/ ChangeDestination(d)
    \/ \E u \in updates : 
          LoadForUpdate(u) \/ ObserveUpdate(u) \/ MarkInvite(u)
    \/ \E m \in Messages :
          \/ Begin(m) \/ Promote(m) \/ Ask(m) \/ Refused(m) \/ Observe(m)
          \/ JoinUrl(m) \/ CreateLink(m) \/ Evaluate(m) \/ Delete(m)
          \/ Warn(m) \/ WarnFails(m) \/ Rollback(m) \/ MarkDeleted(m)
    \/ Toggle
    \/ DeleteRule
    \/ Crash

Spec == Init /\ [][Next]_vars

-----------------------------------------------------------------------------
(* Properties. *)

Links == Messages \X Nat

TypeOK ==
    /\ inside \in [Destinations -> BOOLEAN]
    /\ moves \in 0 .. MaxMoves
    /\ updates \subseteq [move: 1 .. MaxMoves, bot: Watchers, to: Destinations,
                          member: BOOLEAN, invite: {None} \cup Links,
                          at: {"new", "loaded", "observed"}, rule: Nat]
    /\ heard \subseteq (1 .. MaxMoves) \X Watchers
    /\ rule \in [id: Nat \ {0}, present: BOOLEAN, active: BOOLEAN,
                 to: Destinations]
    /\ rule.active => rule.present
    /\ legacy \in Destinations \cup {None}
    /\ row \in [warned: BOOLEAN, ever: BOOLEAN, member: BOOLEAN, messages: Nat,
                deleted: Nat, joins: Nat, leaves: Nat, rejoins: Nat,
                tracked: BOOLEAN]
    /\ rows \in Nat
    /\ links \subseteq Links /\ spent \subseteq Links
    /\ event \in [Messages -> {"none", "initial_warning_sent",
                               "message_delete_required", "message_deleted"}]
    /\ album \subseteq Messages
    /\ task \in [Messages -> [at: Phases, rule: Nat,
                              to: Destinations \cup {None}, member: BOOLEAN,
                              row: Nat, gone: BOOLEAN]]
    /\ changes \in 0 .. MaxChanges /\ crashes \in 0 .. MaxCrashes
    /\ removed \subseteq Messages
    /\ told \in Nat /\ lost \in Nat /\ cut \subseteq Messages

\* The first warning is one: whatever messages and album items are handled at
\* once and however deliveries repeat, a member is told once that the next
\* message will be deleted, and again only for a warning whose answer was lost.
\* Nobody is marked as warned, so that the next message is deleted, without an
\* answered warning, one under way, or one the process died in; and the mark
\* stands exactly as long as the event of the warning does.
WarnedOnce ==
    /\ told <= lost + 1
    /\ row.warned => \/ told = lost + 1
                     \/ cut # {}
                     \/ \E m \in Messages : UnderWay(m)
    /\ row.warned <=> \E m \in Messages : event[m] = "initial_warning_sent"

\* The report counts no message as deleted that is still in the group.
DeletionsAreReal == row.deleted <= Cardinality(removed)

\* The counters of the report agree with each other although answers are
\* stored late and updates out of order: nobody has left more often than
\* joined, and every join but the first is a rejoin.
CountersAgree ==
    /\ row.leaves + (IF row.member THEN 1 ELSE 0) <= row.joins
    /\ row.joins = row.rejoins + (IF row.ever THEN 1 ELSE 0)
=============================================================================
