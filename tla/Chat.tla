-------------------------------- MODULE Chat --------------------------------
(***************************************************************************)
(* The turns one member of a group takes with the bot:                     *)
(* _answer_noya_chat of runbot.py, the memory of the newest turn           *)
(* (noya_turns.py), the group's daily quota (consume_group_quota of        *)
(* services.py) and the relation ledger that run_ai_with_memory updates    *)
(* before it asks the model (memory/relationship.py, module Relationship). *)
(*                                                                         *)
(* Updates are handled concurrently: a handler of Handlers runs one turn   *)
(* and is free again.  The same message may be handled twice, directly and *)
(* as a settled edit (module Edits), and in any order.  A step is what     *)
(* happens between two awaits.  The transactions leave the event loop for  *)
(* a thread; all of them share the one thread-sensitive thread, one after  *)
(* the other, and a turn that was given up does not take its transaction   *)
(* back.  The model allows more than that: here a turn may also read the   *)
(* day, and other turns may count before it does.                          *)
(*                                                                         *)
(* "heard", "granted" and "grudge" are observations only.                  *)
(***************************************************************************)
EXTENDS Relationship, FiniteSets

CONSTANTS
  Handlers,    \* the handlers that may run at once
  Messages,    \* the ids of the member's messages, in the order sent
  Kinds,       \* what the classifier may see in a message
  Limit,       \* daily_prompt_limit of the group; 0 is no limit
  TicksPerDay, \* ticks in a day
  LongPause,   \* the ticks of a long silence
  MaxTime,     \* bound: ticks
  MaxTurns     \* bound: turns

ASSUME ChatAssumption ==
  /\ Messages \subseteq Nat \ {0}
  /\ "none" \in Kinds
  /\ Kinds \subseteq Negative \union Repairing \union {"none"}
  /\ Limit \in Nat /\ MaxTime \in Nat /\ MaxTurns \in Nat
  /\ TicksPerDay \in Nat \ {0} /\ LongPause \in Nat \ {0}

VARIABLES
  turn,     \* the turn each handler runs, with what its rest still needs
  begun,    \* turns begun
  latest,   \* the newest message id _latest holds for the member, 0 for none
  heard,    \* the ids that were registered since the entry was last evicted
  quota,    \* the GroupQuota row: tokens_used_today and last_reset
  granted,  \* the requests granted, by the day of the row
  ledger,   \* the NoyaRelationshipState row
  events,   \* the NoyaRelationshipEvent rows: message and kind
  grudge,   \* the severities since the open hurt was last zero
  threads,  \* the ledger transactions of turns that were given up
  time      \* the clock, in ticks

vars == <<turn, begun, latest, heard, quota, granted, ledger, events,
          grudge, threads, time>>

Days == 0 .. MaxTime \div TicksPerDay
Today == time \div TicksPerDay

Idle == [phase |-> "idle", msg |-> 0, kind |-> "none", today |-> 0]

Turn == [phase : {"idle", "counting", "social", "asking", "making",
                  "telling", "excusing"},
         msg : Messages \union {0}, kind : Kinds, today : Days]

Init ==
  /\ turn = [h \in Handlers |-> Idle]
  /\ begun = 0
  /\ latest = 0
  /\ heard = {}
  /\ quota = [used |-> 0, reset |-> 0]
  /\ granted = [d \in Days |-> 0]
  /\ ledger = NoLedger
  /\ events = {}
  /\ grudge = 0
  /\ threads = {}
  /\ time = 0

Done(h) == turn' = [turn EXCEPT ![h] = Idle]

\* remember_turn: the newest id stays, whatever order the handlers run in.
FaultyNewest(m) == m
Newest(m) == IF m > latest THEN m ELSE latest

\* _answer_noya_chat up to its first transaction: the turn is registered; a
\* bare call of the bot's name is answered at once; otherwise the quota's
\* transaction reads the day before it locks the row.
Begin(h, m, k) ==
  /\ turn[h].phase = "idle" /\ begun < MaxTurns
  /\ begun' = begun + 1
  /\ latest' = Newest(m)
  /\ heard' = heard \union {m}
  /\ \/ UNCHANGED turn
     \/ turn' = [turn EXCEPT ![h] = [phase |-> "counting", msg |-> m,
                                     kind |-> k, today |-> Today]]
  /\ UNCHANGED <<quota, granted, ledger, events, grudge, threads, time>>

\* consume_group_quota: the counter starts again on a later day; a day that
\* another turn has already left behind does not take it back.
FaultyRenewed(q, today) ==
  IF q.reset # today THEN [used |-> 0, reset |-> today] ELSE q
Renewed(q, today) ==
  IF q.reset < today THEN [used |-> 0, reset |-> today] ELSE q

ConsumeQuota(h) ==
  LET q == Renewed(quota, turn[h].today) IN
  /\ turn[h].phase = "counting"
  /\ \/ /\ Limit = 0 \/ q.used < Limit
        /\ quota' = [q EXCEPT !.used = IF Limit = 0 THEN @ ELSE @ + 1]
        /\ granted' = [granted EXCEPT ![q.reset] = @ + 1]
        /\ turn' = [turn EXCEPT ![h].phase = "social", ![h].today = 0]
     \/ /\ Limit > 0 /\ q.used >= Limit
        /\ quota' = q
        /\ Done(h)
        /\ UNCHANGED granted
  /\ UNCHANGED <<begun, latest, heard, ledger, events, grudge, threads, time>>

\* The turn ends before the model is asked: a transcript, a sticker, a quoted
\* text or a file that cannot be read was the answer.
AnswerElsewhere(h) ==
  /\ turn[h].phase = "social"
  /\ Done(h)
  /\ UNCHANGED <<begun, latest, heard, quota, granted, ledger, events, grudge,
                 threads, time>>

\* apply_relationship_event finds no row with the event's id.
IsNew(event) == event \notin events

\* The transaction of _relationship_context_for_message: an event that is new
\* is applied to the ledger as it is today; an event that was seen, and a
\* message without one, only let the hurt fade.
UpdateLedger(event) ==
  LET kind == event[2]
      now == Decayed(ledger, time)
      fresh == kind # "none" /\ IsNew(event)
      row == Saved(IF fresh THEN Applied(now, kind) ELSE now)
      before == IF Remaining(now) = 0 THEN 0 ELSE grudge
      added == IF fresh /\ kind \in Negative
               THEN Point * ((Severity[kind] + Point - 1) \div Point) ELSE 0
  IN /\ ledger' = row
     /\ events' = IF fresh THEN events \union {event} ELSE events
     /\ grudge' = IF Remaining(row) = 0 THEN 0 ELSE before + added

\* run_ai_with_memory goes on without the relation when the ledger fails.
LookAtRelation(h) ==
  /\ turn[h].phase = "social"
  /\ turn' = [turn EXCEPT ![h].phase = "asking", ![h].kind = "none"]
  /\ \/ UpdateLedger(<<turn[h].msg, turn[h].kind>>)
     \/ UNCHANGED <<ledger, events, grudge>>
  /\ UNCHANGED <<begun, latest, heard, quota, granted, threads, time>>

\* A picture, an edited picture or a voice message is made, for what the
\* message asks before the model sees it (_handle_reply_media_intent, the
\* prompts, the media classifier) or for an action the model chose
\* (_dispatch_ai_action).  A classified request that fails goes on to the
\* model: that turn has stayed where it was.
MakeMedia(h) ==
  /\ turn[h].phase \in {"social", "asking"}
  /\ turn' = [turn EXCEPT ![h].phase = "making", ![h].kind = "none"]
  /\ UNCHANGED <<begun, latest, heard, quota, granted, ledger, events, grudge,
                 threads, time>>

\* The model answers or the work is sent; or either of them fails.
Ends(h) ==
  /\ turn[h].phase \in {"asking", "making"}
  /\ Done(h)
  /\ UNCHANGED <<begun, latest, heard, quota, granted, ledger, events, grudge,
                 threads, time>>

\* superseded_timeout: a later message of the member was registered.
Superseded(h) == latest > turn[h].msg

\* Five minutes of the answer are over: the turn is given up, and its member is
\* told unless the talk has gone on.  Cancelling the wait does not stop a thread that may
\* be in the ledger's transaction.
TimesOut(h) ==
  /\ turn[h].phase \in {"social", "asking"}
  /\ IF Superseded(h) THEN Done(h)
     ELSE turn' = [turn EXCEPT ![h].phase = "telling", ![h].kind = "none"]
  /\ \/ /\ turn[h].phase = "social"
        /\ threads' = threads \union {<<turn[h].msg, turn[h].kind>>}
     \/ UNCHANGED threads
  /\ UNCHANGED <<begun, latest, heard, quota, granted, ledger, events, grudge,
                 time>>

\* Five minutes of the picture or the voice are over: its handler tells the
\* member, whatever was said meanwhile.
MediaTimesOut(h) ==
  /\ turn[h].phase = "making"
  /\ turn' = [turn EXCEPT ![h].phase = "excusing"]
  /\ UNCHANGED <<begun, latest, heard, quota, granted, ledger, events, grudge,
                 threads, time>>

\* The notice is sent, or Telegram refuses it.
Tell(h) ==
  /\ turn[h].phase \in {"telling", "excusing"}
  /\ Done(h)
  /\ UNCHANGED <<begun, latest, heard, quota, granted, ledger, events, grudge,
                 threads, time>>

\* The transaction of a turn that was given up comes to its end.
LateLedger(event) ==
  /\ threads' = threads \ {event}
  /\ UpdateLedger(event)
  /\ UNCHANGED <<turn, begun, latest, heard, quota, granted, time>>

\* /forget_all in the private chat deletes the ledger with its events.
ForgetAll ==
  /\ ledger # NoLedger
  /\ ledger' = NoLedger
  /\ events' = {}
  /\ grudge' = 0
  /\ UNCHANGED <<turn, begun, latest, heard, quota, granted, threads, time>>

\* remember_turn of other members pushes this member's entry out of _latest.
Evict ==
  /\ latest # 0
  /\ latest' = 0
  /\ heard' = {}
  /\ UNCHANGED <<turn, begun, quota, granted, ledger, events, grudge, threads,
                 time>>

\* A turn lasts minutes: the long silences are between turns.
Pass(ticks) ==
  /\ time + ticks <= MaxTime
  /\ ticks = 1 \/ \A h \in Handlers : turn[h].phase = "idle"
  /\ time' = time + ticks
  /\ UNCHANGED <<turn, begun, latest, heard, quota, granted, ledger, events,
                 grudge, threads>>

Next ==
  \/ \E h \in Handlers :
       \/ \E m \in Messages, k \in Kinds : Begin(h, m, k)
       \/ ConsumeQuota(h) \/ AnswerElsewhere(h) \/ LookAtRelation(h)
       \/ MakeMedia(h) \/ Ends(h) \/ TimesOut(h) \/ MediaTimesOut(h)
       \/ Tell(h)
  \/ \E event \in threads : LateLedger(event)
  \/ ForgetAll
  \/ Evict
  \/ \E ticks \in {1, LongPause} : Pass(ticks)

Spec == Init /\ [][Next]_vars

-----------------------------------------------------------------------------
(***************************************************************************)
(* Properties                                                              *)
(***************************************************************************)

\* Every variable holds values of its kind; the ledger never leaves the
\* bounds of its columns (0 to 100), no more is repaired than was hurt, and
\* its status is the one that its other columns imply (_save_state).
TypeOK ==
  /\ turn \in [Handlers -> Turn]
  /\ begun \in 0 .. MaxTurns
  /\ latest \in Messages \union {0}
  /\ heard \subseteq Messages
  /\ quota \in [used : Nat, reset : Days]
  /\ granted \in [Days -> Nat]
  /\ ledger \in Ledger
  /\ ledger.repair <= ledger.hurt
  /\ ledger.status = Derived(ledger)
  /\ events \subseteq Messages \X Kinds
  /\ grudge \in Nat
  /\ threads \subseteq Messages \X Kinds
  /\ time \in 0 .. MaxTime

\* No day's row grants a group more requests than its limit, even if a turn
\* that read the day before midnight counts after one that read it after
\* midnight: the row never goes back to a day that is over
\* (consume_group_quota).
QuotaHolds == Limit > 0 => \A d \in Days : granted[d] <= Limit

\* Only a conflict can be forgiven, and once: however often the same message
\* is handled, however often the member apologises, and whether the hurt is
\* repaired or fades, the conflicts closed are no more than the insults that
\* were recorded (the credits and the event rows of emotions.py and
\* memory/relationship.py).
OneForgivenessPerConflict ==
  ledger.count <= Cardinality({e \in events : e[2] \in Negative})

\* Old hurt never comes back: the open hurt is no more than the insults since
\* it was last zero (the fresh ledger apply_event opens for a new conflict).
NoOldGrudge == Remaining(ledger) <= grudge

\* A member who has gone on talking gets no notice that the answer to an older
\* turn timed out, in whatever order the handlers registered the turns
\* (superseded_timeout of noya_turns.py).  Pictures, edits and voice messages
\* are not meant: their handlers excuse themselves without that look
\* (MediaTimesOut).
NoStaleAnswerNotice ==
  [][\A h \in Handlers :
       turn[h].phase # "telling" /\ turn'[h].phase = "telling"
         => \A n \in heard : n <= turn[h].msg]_vars

=============================================================================
