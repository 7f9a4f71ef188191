--------------------------------- MODULE Edits ---------------------------------
(***************************************************************************)
(* One message on its way to an answer: what the bots of a process poll,   *)
(* the middleware that drops what another bot has brought already          *)
(* (MultiBotGroupDeduplicationMiddleware of runbot.py), the middlewares    *)
(* behind it, and the coordinator of edited messages (noya_edits.py) that  *)
(* waits until a body stands still.                                        *)
(*                                                                         *)
(* Version 1 is the message as it was sent, version v + 1 its v-th edit.   *)
(* Each bot gets each version in an update of its own.  Updates of one bot *)
(* arrive in order; each is then a task, and the middlewares that look     *)
(* into the database may let a later one pass.                             *)
(*                                                                         *)
(* The lock of the coordinator is never held across an await, and a look   *)
(* of the settle loop runs from reading the session to removing it         *)
(* without one: a look, like each observe_..., is one step.  A look that   *)
(* finds nothing to do leaves no trace.                                    *)
(*                                                                         *)
(* Clocks are ages, in ticks, that stop at the value from which on nothing *)
(* depends on them.                                                        *)
(***************************************************************************)
EXTENDS Naturals, Sequences, FiniteSets

CONSTANTS
    Bots,           \* polled by the one dispatcher
    Addressee,      \* the one of them a reply or a mention is to
    Texts,          \* bodies an edit can bring
    Empty,          \* the body of a shell
    Settle,         \* NOYA_EDIT_SETTLE_SECONDS
    MaxWait,        \* NOYA_EDIT_MAX_WAIT_SECONDS
    AnsweredTTL,    \* NOYA_EDIT_ANSWERED_TTL_SECONDS
    SeenTTL,        \* ttl_seconds of the middleware
    MaxEdits,       \* bound: edits of the message
    GatesStop       \* the middlewares behind may keep an update

ASSUME EditsAssumption ==
    /\ Addressee \in Bots
    /\ Empty \notin Texts
    /\ Settle \in Nat \ {0}
    /\ MaxWait \in Nat /\ MaxWait >= Settle
    /\ AnsweredTTL \in Nat \ {0}
    /\ SeenTTL \in Nat \ {0}
    /\ MaxEdits \in Nat
    /\ GatesStop \in BOOLEAN

VARIABLES
    message,        \* where the message is, who wrote it, whom it addresses
    bodies,         \* the body of each version
    queue,          \* bot -> versions it has yet to fetch
    working,        \* <<bot, version>> past the deduplication
    seen,           \* kind of update -> ticks since it was marked, or SeenTTL
    session,        \* the edit session, version 0 when there is none
    answered,       \* ticks since it was dispatched, or AnsweredTTL + 1
    \* observation only
    sent,           \* ticks since the message was sent, at most SeenTTL
    direct,         \* bots that answered the message as it arrived
    since           \* ticks since the settle loop answered, or AnsweredTTL + 1

vars == <<message, bodies, queue, working, seen, session, answered,
          sent, direct, since>>

Bodies == Texts \cup {Empty}
Versions == 1 .. MaxEdits + 1
Kinds == {"message", "edited_message"}

Message == [group: BOOLEAN, fromBot: BOOLEAN,
            how: {"reply", "mention", "name"}]

Body(v) == bodies[v]
Kind(v) == IF v = 1 THEN "message" ELSE "edited_message"

NoSession == [latest |-> 0, text |-> Empty, age |-> 0, quiet |-> 0]
Open == session.latest # 0

\* Whether a bot takes a text of the message as meant for it.
Addresses(b) == message.how = "name" \/ Addressee = b

Older(age, limit) == IF age < limit THEN age + 1 ELSE age

-----------------------------------------------------------------------------

Init ==
    /\ message \in Message
    /\ message.group \/ ~message.fromBot
    /\ \E b \in Bodies : bodies = <<b>>
    /\ queue = [b \in Bots |->
                    IF message.group \/ b = Addressee THEN <<1>> ELSE <<>>]
    /\ working = {}
    /\ seen = [k \in Kinds |-> SeenTTL]
    /\ session = NoSession
    /\ answered = AnsweredTTL + 1
    /\ sent = 0
    /\ direct = {}
    /\ since = AnsweredTTL + 1

\* The author edits the message.
Edit(body) ==
    /\ Len(bodies) <= MaxEdits
    /\ bodies' = Append(bodies, body)
    /\ queue' = [b \in Bots |->
                    IF message.group \/ b = Addressee
                    THEN Append(queue[b], Len(bodies) + 1) ELSE queue[b]]
    /\ UNCHANGED <<message, working, seen, session, answered, sent, direct,
                   since>>

-----------------------------------------------------------------------------
(* The middlewares. *)

\* A body that mentions another of the bots.
NotTargeted(b, v) ==
    message.how = "mention" /\ Body(v) # Empty /\ Addressee # b

FaultyDuplicate(v) == FALSE

Duplicate(v) == message.group /\ seen[Kind(v)] < SeenTTL

Receive(b) ==
    /\ queue[b] # <<>>
    /\ LET v == Head(queue[b])
           dropped == message.group /\ (NotTargeted(b, v) \/ Duplicate(v))
       IN  /\ working' = IF dropped THEN working ELSE working \cup {<<b, v>>}
           /\ seen' = IF dropped \/ ~message.group THEN seen
                      ELSE [seen EXCEPT ![Kind(v)] = 0]
    /\ queue' = [queue EXCEPT ![b] = Tail(@)]
    /\ UNCHANGED <<message, bodies, session, answered, sent, direct, since>>

\* Forced membership, the start gate or the moderation keeps the update, or no
\* handler matches it.
Unanswered(b, v) ==
    \/ GatesStop
    \/ v = 1 /\ Body(1) # Empty /\ ~Addresses(b)
    \/ v = 1 /\ Body(1) = Empty
             /\ ~(/\ message.group /\ message.fromBot
                  /\ message.how = "reply" /\ Addressee = b)
    \/ v > 1 /\ IF Body(v) # Empty THEN ~Addresses(b)
                ELSE ~(message.how = "reply" /\ Addressee = b)

Pass(b, v) ==
    /\ <<b, v>> \in working
    /\ Unanswered(b, v)
    /\ working' = working \ {<<b, v>>}
    /\ UNCHANGED <<message, bodies, queue, seen, session, answered, sent,
                   direct, since>>

-----------------------------------------------------------------------------
(* The handlers. *)

AnswerDirectly(b) ==
    /\ <<b, 1>> \in working
    /\ Body(1) # Empty
    /\ Addresses(b)
    /\ working' = working \ {<<b, 1>>}
    /\ direct' = direct \cup {b}
    /\ UNCHANGED <<message, bodies, queue, seen, session, answered, sent,
                   since>>

FaultyIsAnswered == answered < AnsweredTTL

IsAnswered == answered <= AnsweredTTL

\* observe_empty_shell: the body of the session becomes that of the shell, its
\* fingerprint stays.
ObserveEmptyShell(b, v) ==
    /\ <<b, v>> \in working
    /\ Body(v) = Empty
    /\ message.how = "reply" /\ Addressee = b
    /\ v = 1 => message.group /\ message.fromBot
    /\ working' = working \ {<<b, v>>}
    /\ session' = IF IsAnswered THEN session
                  ELSE IF Open THEN [session EXCEPT !.latest = v]
                  ELSE [NoSession EXCEPT !.latest = v]
    /\ UNCHANGED <<message, bodies, queue, seen, answered, sent, direct,
                   since>>

Tracked(v) ==
    IF ~Open THEN [NoSession EXCEPT !.latest = v, !.text = Body(v)]
    ELSE IF session.text = Body(v) THEN [session EXCEPT !.latest = v]
    ELSE [session EXCEPT !.latest = v, !.text = Body(v), !.quiet = 0]

ObserveEdit(b, v) ==
    /\ <<b, v>> \in working
    /\ v > 1 /\ Body(v) # Empty
    /\ Addresses(b)
    /\ working' = working \ {<<b, v>>}
    /\ session' = IF IsAnswered THEN session ELSE Tracked(v)
    /\ UNCHANGED <<message, bodies, queue, seen, answered, sent, direct,
                   since>>

-----------------------------------------------------------------------------
(* The settle loop. *)

FaultyDispatched == AnsweredTTL + 1

\* The entry of _answered that _dispatch makes.
Dispatched == 0

Dispatch ==
    /\ Open
    /\ Body(session.latest) # Empty
    /\ session.age >= MaxWait \/ session.quiet >= Settle
    /\ session' = NoSession
    /\ answered' = Dispatched
    /\ since' = 0
    /\ UNCHANGED <<message, bodies, queue, working, seen, sent, direct>>

FaultyDrop ==
    /\ Open
    /\ Body(session.latest) = Empty
    /\ session.text = Empty
    /\ session.age >= MaxWait
    /\ session' = NoSession
    /\ UNCHANGED <<message, bodies, queue, working, seen, answered, sent,
                   direct, since>>

Drop ==
    /\ Open
    /\ Body(session.latest) = Empty
    /\ session.age >= MaxWait
    /\ session' = NoSession
    /\ UNCHANGED <<message, bodies, queue, working, seen, answered, sent,
                   direct, since>>

Look == Dispatch \/ Drop

Tick ==
    /\ seen' = [k \in Kinds |-> Older(seen[k], SeenTTL)]
    /\ session' = IF Open
                  THEN [session EXCEPT !.age = Older(@, MaxWait),
                                       !.quiet = Older(@, Settle)]
                  ELSE session
    /\ answered' = Older(answered, AnsweredTTL + 1)
    /\ sent' = Older(sent, SeenTTL)
    /\ since' = Older(since, AnsweredTTL + 1)
    /\ UNCHANGED <<message, bodies, queue, working, direct>>

Next ==
    \/ \E body \in Bodies : Edit(body)
    \/ \E b \in Bots : Receive(b) \/ AnswerDirectly(b)
    \/ \E b \in Bots, v \in Versions :
          Pass(b, v) \/ ObserveEmptyShell(b, v) \/ ObserveEdit(b, v)
    \/ Look
    \/ Tick

\* The event loop serves the timers of the settle loop, and time passes.
Fairness == WF_vars(Look) /\ WF_vars(Tick)

Spec == Init /\ [][Next]_vars /\ Fairness

-----------------------------------------------------------------------------
(* Properties. *)

\* The types, and that the message is not in _sessions and in _answered at once.
TypeOK ==
    /\ Open => answered > AnsweredTTL
    /\ message \in Message
    /\ bodies \in Seq(Bodies) /\ Len(bodies) \in Versions
    /\ queue \in [Bots -> Seq(Versions)]
    /\ working \subseteq Bots \X Versions
    /\ seen \in [Kinds -> 0 .. SeenTTL]
    /\ session \in [latest: 0 .. Len(bodies), text: Bodies, age: 0 .. MaxWait,
                    quiet: 0 .. Settle]
    /\ answered \in 0 .. AnsweredTTL + 1
    /\ sent \in 0 .. SeenTTL
    /\ direct \subseteq Bots
    /\ since \in 0 .. AnsweredTTL + 1

\* The bots of a group that hear one message do not all answer it: as long as
\* none fetches its copy later than the middleware remembers, one of them does
\* at most, whichever they are and however their tasks interleave.
DirectlyAnsweredOnce == sent < SeenTTL => Cardinality(direct) <= 1

\* A message whose body has settled and been answered is not answered again on
\* account of a late edit while _answered remembers it, be the edit under way
\* when the answer is given or sent after it.
SettledOnce ==
    [][Dispatch => since > AnsweredTTL]_vars

\* A session does not stay open for ever, whatever the author does and
\* whichever body came last.
SessionEnds == Open ~> ~Open
=============================================================================
