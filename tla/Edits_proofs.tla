------------------------------ MODULE Edits_proofs ------------------------------
(***************************************************************************)
(* One message is answered once as it arrives and once when it has         *)
(* settled, for any bots, bodies, edits and times.                         *)
(***************************************************************************)
EXTENDS Edits, FiniteSetTheorems, TLAPS

(***************************************************************************)
(* The inductive invariant.                                                *)
(***************************************************************************)

\* Only versions that were sent are fetched and handled.
OfTheMessage ==
    /\ queue \in [Bots -> Seq(1 .. Len(bodies))]
    /\ working \subseteq Bots \X (1 .. Len(bodies))

\* The bots whose copy of the message has passed the deduplication.
Passed == {b \in Bots : <<b, 1>> \in working \/ b \in direct}

\* Where every bot hears a message, the first that passes marks it, and the
\* mark is no older than the message; elsewhere one bot hears it.
Marked ==
    IF message.group THEN Passed # {} => seen["message"] <= sent
    ELSE /\ Passed \subseteq {Addressee}
         /\ \A b \in Bots \ {Addressee} : queue[b] = <<>>

OnePasses == sent < SeenTTL => \A b, c \in Passed : b = c

\* _answered remembers the very answer the settle loop gave.
Remembered == since = answered

Inv == TypeOK /\ OfTheMessage /\ Marked /\ OnePasses /\ Remembered

-----------------------------------------------------------------------------

LEMMA OlderIs ==
    ASSUME NEW limit \in Nat, NEW age \in 0 .. limit
    PROVE  /\ Older(age, limit) \in 0 .. limit
           /\ Older(age, limit) >= age
           /\ age > limit - 1 => Older(age, limit) = age
           /\ \A other \in 0 .. limit :
                age <= other => Older(age, limit) <= Older(other, limit)
  BY DEF Older

LEMMA HeadTail ==
    ASSUME NEW S, NEW s \in Seq(S), s # <<>>
    PROVE  Head(s) \in S /\ Tail(s) \in Seq(S)
  OBVIOUS

LEMMA InitInv == Init => Inv
<1> SUFFICES ASSUME Init PROVE Inv
  OBVIOUS
<1> USE EditsAssumption
<1>1. PICK body \in Bodies : bodies = <<body>>
  BY DEF Init
<1>2. bodies \in Seq(Bodies) /\ Len(bodies) = 1 /\ Len(bodies) \in Versions
  BY <1>1 DEF Versions
<1>3. queue \in [Bots -> Seq(1 .. 1)] /\ queue \in [Bots -> Seq(Versions)]
  <2>1. 1 \in Versions
    BY DEF Versions
  <2>2. /\ <<1>> \in Seq(1 .. 1) /\ <<>> \in Seq(1 .. 1)
        /\ <<1>> \in Seq(Versions) /\ <<>> \in Seq(Versions)
    BY <2>1
  <2> QED BY <2>2 DEF Init
<1>4. TypeOK
  BY <1>2, <1>3 DEF Init, TypeOK, NoSession, Open, Kinds, Bodies, Versions
<1>5. OfTheMessage
  BY <1>2, <1>3 DEF Init, OfTheMessage
<1>6. Passed = {}
  BY DEF Init, Passed
<1>7. Marked /\ OnePasses /\ Remembered
  BY <1>6 DEF Init, Marked, OnePasses, Remembered
<1> QED BY <1>4, <1>5, <1>7 DEF Inv

(* The author edits the message. *)
LEMMA EditInv ==
    ASSUME Inv, NEW body \in Bodies, Edit(body)
    PROVE  Inv'
<1> USE EditsAssumption DEF Inv, Edit
<1>1. /\ bodies \in Seq(Bodies) /\ bodies' = Append(bodies, body)
      /\ bodies' \in Seq(Bodies) /\ Len(bodies') = Len(bodies) + 1
      /\ Len(bodies) \in Nat /\ Len(bodies') \in Versions
      /\ 1 .. Len(bodies) \subseteq 1 .. Len(bodies')
      /\ Len(bodies') \in 1 .. Len(bodies')
      /\ 1 .. Len(bodies') \subseteq Versions
  BY DEF TypeOK, Versions
<1>2. queue' \in [Bots -> Seq(1 .. Len(bodies'))]
  <2>1. ASSUME NEW b \in Bots
        PROVE  /\ queue[b] \in Seq(1 .. Len(bodies'))
               /\ Append(queue[b], Len(bodies) + 1) \in Seq(1 .. Len(bodies'))
    BY <1>1 DEF OfTheMessage
  <2> QED BY <2>1
<1>3. queue' \in [Bots -> Seq(Versions)]
  <2>1. Len(bodies) + 1 \in Versions
    BY <1>1
  <2>2. ASSUME NEW b \in Bots
        PROVE  /\ queue[b] \in Seq(Versions)
               /\ Append(queue[b], Len(bodies) + 1) \in Seq(Versions)
    BY <2>1 DEF TypeOK
  <2> QED BY <2>2
<1>4. TypeOK'
  BY <1>1, <1>3 DEF TypeOK, Open
<1>5. OfTheMessage'
  BY <1>1, <1>2 DEF OfTheMessage
<1>6. Passed' = Passed
  BY DEF Passed
<1>7. Marked' /\ OnePasses' /\ Remembered'
  BY <1>6 DEF Marked, OnePasses, Remembered, TypeOK
<1> QED BY <1>4, <1>5, <1>7

(* A task that leaves the handlers without an answer of its own. *)
LEMMA LeavesInv ==
    ASSUME Inv, NEW b \in Bots, NEW v \in Versions, <<b, v>> \in working,
           working' = working \ {<<b, v>>},
           session' = session
             \/ (/\ answered > AnsweredTTL
                 /\ session' \in [latest: 0 .. Len(bodies), text: Bodies,
                                  age: 0 .. MaxWait, quiet: 0 .. Settle]),
           UNCHANGED <<message, bodies, queue, seen, answered, sent, direct, since>>
    PROVE  Inv'
<1> USE EditsAssumption DEF Inv
<1>1. TypeOK'
  BY DEF TypeOK, Open
<1>2. OfTheMessage'
  BY DEF OfTheMessage
<1>3. Passed' \subseteq Passed
  BY DEF Passed
<1>4. Marked' /\ OnePasses' /\ Remembered'
  BY <1>3 DEF Marked, OnePasses, Remembered
<1> QED BY <1>1, <1>2, <1>4

LEMMA SentVersion ==
    ASSUME Inv, NEW b \in Bots, NEW v, <<b, v>> \in working
    PROVE  v \in 1 .. Len(bodies) /\ v \in Versions /\ Len(bodies) \in Nat
           /\ Body(v) \in Bodies
<1> USE EditsAssumption DEF Inv
<1>1. v \in 1 .. Len(bodies)
  BY DEF OfTheMessage
<1>2. v \in Versions /\ Len(bodies) \in Nat
  BY DEF TypeOK, Versions
<1>3. bodies[v] \in Bodies
  BY <1>1 DEF TypeOK
<1> QED BY <1>1, <1>2, <1>3 DEF Body

LEMMA PassInv ==
    ASSUME Inv, NEW b \in Bots, NEW v \in Versions, Pass(b, v)
    PROVE  Inv'
  BY LeavesInv DEF Pass

LEMMA ObserveEmptyShellInv ==
    ASSUME Inv, NEW b \in Bots, NEW v \in Versions, ObserveEmptyShell(b, v)
    PROVE  Inv'
<1> USE EditsAssumption
<1>1. v \in 1 .. Len(bodies) /\ Len(bodies) \in Nat
  BY SentVersion DEF ObserveEmptyShell
<1>2. ~IsAnswered => answered > AnsweredTTL
  BY DEF IsAnswered, Inv, TypeOK
<1>3. session' = session
      \/ (/\ answered > AnsweredTTL
          /\ session' \in [latest: 0 .. Len(bodies), text: Bodies,
                           age: 0 .. MaxWait, quiet: 0 .. Settle])
  BY <1>1, <1>2 DEF ObserveEmptyShell, NoSession, Inv, TypeOK, Bodies
<1> QED BY <1>3, LeavesInv DEF ObserveEmptyShell

LEMMA ObserveEditInv ==
    ASSUME Inv, NEW b \in Bots, NEW v \in Versions, ObserveEdit(b, v)
    PROVE  Inv'
<1> USE EditsAssumption
<1>1. v \in 1 .. Len(bodies) /\ Len(bodies) \in Nat /\ Body(v) \in Bodies
  BY SentVersion DEF ObserveEdit
<1>2. ~IsAnswered => answered > AnsweredTTL
  BY DEF IsAnswered, Inv, TypeOK
<1>3. Tracked(v) \in [latest: 0 .. Len(bodies), text: Bodies,
                      age: 0 .. MaxWait, quiet: 0 .. Settle]
  <2>1. session \in [latest: 0 .. Len(bodies), text: Bodies,
                     age: 0 .. MaxWait, quiet: 0 .. Settle]
    BY DEF Inv, TypeOK
  <2>2. v \in 0 .. Len(bodies) /\ 0 \in 0 .. MaxWait /\ 0 \in 0 .. Settle
    BY <1>1
  <2>3. CASE ~Open
    BY <1>1, <2>2, <2>3 DEF Tracked, NoSession
  <2>4. CASE Open /\ session.text = Body(v)
    BY <2>1, <2>2, <2>4 DEF Tracked
  <2>5. CASE Open /\ session.text # Body(v)
    BY <1>1, <2>1, <2>2, <2>5 DEF Tracked
  <2> QED BY <2>3, <2>4, <2>5
<1>4. session' = session
      \/ (/\ answered > AnsweredTTL
          /\ session' \in [latest: 0 .. Len(bodies), text: Bodies,
                           age: 0 .. MaxWait, quiet: 0 .. Settle])
  BY <1>2, <1>3 DEF ObserveEdit
<1> QED BY <1>4, LeavesInv DEF ObserveEdit

LEMMA AnswerDirectlyInv ==
    ASSUME Inv, NEW b \in Bots, AnswerDirectly(b)
    PROVE  Inv'
<1> USE EditsAssumption DEF Inv, AnswerDirectly
<1>1. TypeOK'
  BY DEF TypeOK, Open
<1>2. OfTheMessage'
  BY DEF OfTheMessage
<1>3. Passed' \subseteq Passed
  BY DEF Passed
<1>4. Marked' /\ OnePasses' /\ Remembered'
  BY <1>3 DEF Marked, OnePasses, Remembered
<1> QED BY <1>1, <1>2, <1>4

(* A bot brings a version, and the middleware drops it or lets it pass. *)
LEMMA ReceiveInv ==
    ASSUME Inv, NEW b \in Bots, Receive(b)
    PROVE  Inv'
<1> USE EditsAssumption DEF Inv
<1> DEFINE v == Head(queue[b])
           dropped == message.group /\ (NotTargeted(b, v) \/ Duplicate(v))
<1>1. /\ queue[b] # <<>>
      /\ working' = IF dropped THEN working ELSE working \cup {<<b, v>>}
      /\ seen' = IF dropped \/ ~message.group THEN seen
                 ELSE [seen EXCEPT ![Kind(v)] = 0]
      /\ queue' = [queue EXCEPT ![b] = Tail(@)]
      /\ UNCHANGED <<message, bodies, session, answered, sent, direct, since>>
  BY DEF Receive
<1>2. queue[b] \in Seq(1 .. Len(bodies)) /\ queue[b] \in Seq(Versions)
  BY DEF OfTheMessage, TypeOK
<1>3. /\ v \in 1 .. Len(bodies) /\ v \in Versions
      /\ Tail(queue[b]) \in Seq(1 .. Len(bodies))
      /\ Tail(queue[b]) \in Seq(Versions)
  BY <1>1, <1>2, HeadTail
<1> HIDE DEF v, dropped
<1>4. Kind(v) \in Kinds /\ (v = 1 => Kind(v) = "message")
  BY DEF Kind, Kinds
<1>5. seen' \in [Kinds -> 0 .. SeenTTL]
  BY <1>1, <1>4 DEF TypeOK
<1>6. TypeOK'
  BY <1>1, <1>3, <1>5 DEF TypeOK, Open
<1>7. OfTheMessage'
  BY <1>1, <1>3 DEF OfTheMessage
<1>8. Remembered'
  BY <1>1 DEF Remembered
<1>9. CASE dropped \/ v # 1
  <2>1. Passed' = Passed
    BY <1>1, <1>9 DEF Passed
  <2>2. seen'["message"] <= seen["message"]
    BY <1>1, <1>4, <1>5 DEF TypeOK, Kinds
  <2>3. Marked'
    <3>1. CASE message.group
      BY <1>1, <2>1, <2>2, <1>5, <3>1 DEF Marked, TypeOK, Kinds
    <3>2. CASE ~message.group
      BY <1>1, <2>1, <3>2 DEF Marked, TypeOK
    <3> QED BY <3>1, <3>2
  <2>4. OnePasses'
    BY <1>1, <2>1 DEF OnePasses
  <2> QED BY <1>6, <1>7, <1>8, <2>3, <2>4
<1>10. CASE ~dropped /\ v = 1
  <2>1. Passed' = Passed \cup {b}
    BY <1>1, <1>10 DEF Passed
  <2>2. CASE message.group
    <3>1. seen["message"] >= SeenTTL
      BY <2>2, <1>4, <1>10 DEF dropped, Duplicate, TypeOK, Kinds
    <3>2. seen'["message"] = 0
      BY <1>1, <1>4, <1>10, <2>2 DEF TypeOK, Kinds
    <3>3. Marked'
      BY <1>1, <2>2, <3>2 DEF Marked, TypeOK
    <3>4. OnePasses'
      <4>1. sent < SeenTTL => Passed = {}
        BY <2>2, <3>1 DEF Marked, TypeOK, Kinds
      <4> QED BY <1>1, <2>1, <4>1 DEF OnePasses
    <3> QED BY <1>6, <1>7, <1>8, <3>3, <3>4
  <2>3. CASE ~message.group
    <3>1. b = Addressee
      BY <1>1, <2>3 DEF Marked
    <3>2. Marked'
      BY <1>1, <2>1, <2>3, <3>1 DEF Marked, TypeOK
    <3>3. OnePasses'
      BY <2>1, <2>3, <3>1 DEF OnePasses, Marked
    <3> QED BY <1>6, <1>7, <1>8, <3>2, <3>3
  <2> QED BY <2>2, <2>3
<1> QED BY <1>9, <1>10

(* The settle loop answers, or gives the session up. *)
LEMMA DispatchInv ==
    ASSUME Inv, Dispatch
    PROVE  Inv'
<1> USE EditsAssumption DEF Inv, Dispatch
<1>1. TypeOK'
  BY DEF TypeOK, Open, NoSession, Dispatched, Bodies
<1>2. OfTheMessage'
  BY DEF OfTheMessage
<1>3. Passed' = Passed
  BY DEF Passed
<1>4. Marked' /\ OnePasses' /\ Remembered'
  BY <1>3 DEF Marked, OnePasses, Remembered, Dispatched
<1> QED BY <1>1, <1>2, <1>4

LEMMA DropInv ==
    ASSUME Inv, Drop
    PROVE  Inv'
<1> USE EditsAssumption DEF Inv, Drop
<1>1. TypeOK'
  BY DEF TypeOK, Open, NoSession, Bodies
<1>2. OfTheMessage'
  BY DEF OfTheMessage
<1>3. Passed' = Passed
  BY DEF Passed
<1>4. Marked' /\ OnePasses' /\ Remembered'
  BY <1>3 DEF Marked, OnePasses, Remembered
<1> QED BY <1>1, <1>2, <1>4

(* Time passes. *)
LEMMA TickInv ==
    ASSUME Inv, Tick
    PROVE  Inv'
<1> USE EditsAssumption DEF Inv, Tick
<1>1. /\ SeenTTL \in Nat /\ MaxWait \in Nat /\ Settle \in Nat
      /\ AnsweredTTL + 1 \in Nat
  OBVIOUS
<1>2. seen' \in [Kinds -> 0 .. SeenTTL]
  <2>1. \A k \in Kinds : Older(seen[k], SeenTTL) \in 0 .. SeenTTL
    BY <1>1, OlderIs DEF TypeOK
  <2> QED BY <2>1
<1>3. session' \in [latest: 0 .. Len(bodies), text: Bodies,
                    age: 0 .. MaxWait, quiet: 0 .. Settle]
  <2>1. /\ Older(session.age, MaxWait) \in 0 .. MaxWait
        /\ Older(session.quiet, Settle) \in 0 .. Settle
    BY <1>1, OlderIs DEF TypeOK
  <2> QED BY <2>1 DEF TypeOK
<1>4. /\ answered' \in 0 .. AnsweredTTL + 1 /\ answered' >= answered
      /\ since' \in 0 .. AnsweredTTL + 1 /\ sent' \in 0 .. SeenTTL
      /\ sent' >= sent
  BY <1>1, OlderIs DEF TypeOK
<1>5. session'.latest = session.latest
  BY DEF TypeOK
<1>6. TypeOK'
  BY <1>2, <1>3, <1>4, <1>5 DEF TypeOK, Open
<1>7. OfTheMessage'
  BY DEF OfTheMessage
<1>8. Passed' = Passed
  BY DEF Passed
<1>9. seen["message"] <= sent => seen'["message"] <= sent'
  <2>1. /\ seen["message"] \in 0 .. SeenTTL /\ sent \in 0 .. SeenTTL
        /\ seen'["message"] = Older(seen["message"], SeenTTL)
    BY DEF TypeOK, Kinds
  <2> QED BY <1>1, <2>1, OlderIs
<1>10. Marked'
  BY <1>8, <1>9 DEF Marked
<1>11. OnePasses'
  BY <1>4, <1>8 DEF OnePasses, TypeOK
<1>12. Remembered'
  BY DEF Remembered
<1> QED BY <1>6, <1>7, <1>10, <1>11, <1>12

LEMMA StepInv == Inv /\ [Next]_vars => Inv'
<1> SUFFICES ASSUME Inv, [Next]_vars PROVE Inv'
  OBVIOUS
<1>1. ASSUME NEW body \in Bodies, Edit(body) PROVE Inv'
  BY <1>1, EditInv
<1>2. ASSUME NEW b \in Bots, Receive(b) \/ AnswerDirectly(b) PROVE Inv'
  BY <1>2, ReceiveInv, AnswerDirectlyInv
<1>3. ASSUME NEW b \in Bots, NEW v \in Versions,
             Pass(b, v) \/ ObserveEmptyShell(b, v) \/ ObserveEdit(b, v)
      PROVE  Inv'
  BY <1>3, PassInv, ObserveEmptyShellInv, ObserveEditInv
<1>4. CASE Look
  BY <1>4, DispatchInv, DropInv DEF Look
<1>5. CASE Tick
  BY <1>5, TickInv
<1>6. CASE UNCHANGED vars
  BY <1>6 DEF vars, Inv, TypeOK, Open, OfTheMessage, Passed, Marked, OnePasses, Remembered
<1> QED BY <1>1, <1>2, <1>3, <1>4, <1>5, <1>6 DEF Next

LEMMA Invariant == Spec => []Inv
  BY InitInv, StepInv, PTL DEF Spec

-----------------------------------------------------------------------------
(* The theorems.                                                             *)

\* The variables of Edits keep their types, and a message is never in
\* _sessions and in _answered at once.
THEOREM TypeCorrect == Spec => []TypeOK
<1>1. Inv => TypeOK
  BY DEF Inv
<1> QED BY <1>1, Invariant, PTL

\* However many bots hear a message, and however their tasks interleave, one at
\* most answers it as it arrives, as long as the middleware remembers it
\* (MultiBotGroupDeduplicationMiddleware of runbot.py).
THEOREM AnsweredByOneBot == Spec => []DirectlyAnsweredOnce
<1>1. Inv => DirectlyAnsweredOnce
  <2> SUFFICES ASSUME Inv, sent < SeenTTL PROVE Cardinality(direct) <= 1
    BY DEF DirectlyAnsweredOnce
  <2>1. direct \subseteq Passed /\ \A b, c \in Passed : b = c
    BY DEF Inv, TypeOK, Passed, OnePasses
  <2>2. CASE direct = {}
    BY <2>2, FS_EmptySet
  <2>3. CASE direct # {}
    <3>1. PICK b \in direct : TRUE
      BY <2>3
    <3>2. direct = {b}
      BY <2>1, <3>1
    <3>3. Cardinality({b}) = 1
      BY FS_Singleton
    <3> QED BY <3>2, <3>3
  <2> QED BY <2>2, <2>3
<1> QED BY <1>1, Invariant, PTL

\* A message whose body has settled and been answered is not answered again
\* while _answered remembers it (noya_edits.py).
THEOREM SettledBodyAnsweredOnce == Spec => SettledOnce
<1>1. Inv => (Dispatch => since > AnsweredTTL)
  BY DEF Inv, TypeOK, Remembered, Dispatch
<1>2. Inv /\ [Next]_vars => [Dispatch => since > AnsweredTTL]_vars
  BY <1>1
<1> QED BY <1>2, Invariant, PTL DEF Spec, SettledOnce
=============================================================================
