------------------------- MODULE ModerationQueue_proofs -------------------------
(***************************************************************************)
(* What the queue of moderation actions guarantees for any number of       *)
(* rows, members, handlers and workers.                                    *)
(***************************************************************************)
EXTENDS ModerationQueue, SequenceTheorems,
        FiniteSetTheorems, TLAPS

(***************************************************************************)
(* The rows the actions write.                                             *)
(***************************************************************************)

LEMMA NewRowType ==
    ASSUME NEW kind \in Kind, NEW target \in Targets, NEW delay \in Int,
           NEW duration \in Nat, NEW key \in Key, NEW internal \in BOOLEAN
    PROVE  NewRow(kind, target, delay, duration, key, internal) \in Row
BY DEF NewRow, Row, Status

LEMMA StatusType ==
    ASSUME NEW row \in Row, NEW status \in Status
    PROVE  [row EXCEPT !.status = status] \in Row
BY DEF Row

LEMMA AgeType ==
    ASSUME NEW row \in Row, NEW age \in Nat
    PROVE  [row EXCEPT !.age = age] \in Row
BY DEF Row

LEMMA DueType ==
    ASSUME NEW row \in Row, NEW due_in \in Int
    PROVE  [row EXCEPT !.due_in = due_in] \in Row
BY DEF Row

LEMMA SettleType ==
    ASSUME NEW row \in Row, NEW status \in Status
    PROVE  Settle(row, status) \in Row
<1> DEFINE first == [row EXCEPT !.status = status]
<1>1. first \in Row BY StatusType
<1> HIDE DEF first
<1> DEFINE second == [first EXCEPT !.due_in = 0]
<1>2. second \in Row BY <1>1, DueType
<1> HIDE DEF second
<1>3. [second EXCEPT !.age = 0] \in Row BY <1>2, AgeType
<1> QED BY <1>3 DEF Settle, first, second

LEMMA RequeueType ==
    ASSUME NEW row \in Row
    PROVE  Requeue(row) \in Row
<1> DEFINE first == [row EXCEPT !.status = "pending"]
<1>1. first \in Row BY StatusType DEF Status
<1> HIDE DEF first
<1> DEFINE second == [first EXCEPT !.age = 0]
<1>2. second \in Row BY <1>1, AgeType
<1> HIDE DEF second
<1>3. -MaxLate \in Int BY QueueAssumption
<1>4. [second EXCEPT !.due_in = -MaxLate] \in Row BY <1>2, <1>3, DueType
<1> QED BY <1>4 DEF Requeue, first, second

LEMMA TakeType ==
    ASSUME NEW row \in Row
    PROVE  Take(row) \in Row
<1> DEFINE first == [row EXCEPT !.status = "processing"]
<1>1. first \in Row BY StatusType DEF Status
<1> HIDE DEF first
<1>2. [first EXCEPT !.age = 0] \in Row BY <1>1, AgeType
<1> QED BY <1>2 DEF Take, first

LEMMA KeyTypes ==
    ASSUME NEW i \in Nat
    PROVE  ReverseKey(i) \in Key /\ UuidKey(i) \in Key
BY DEF ReverseKey, UuidKey, Key, KeyText

LEMMA RequestTypes ==
    ASSUME NEW kind, NEW target, NEW duration, ValidRequest(kind, target, duration)
    PROVE  kind \in Kind /\ target \in Targets
BY QueueAssumption DEF ValidRequest, TargetsOf, Targets

LEMMA TailFacts ==
    ASSUME NEW S, NEW s \in Seq(S), s # <<>>, Len(s) # 1
    PROVE  /\ Tail(s) \in Seq(S)
           /\ Tail(s) # <<>>
           /\ \A n \in 1 .. Len(Tail(s)) : n + 1 \in 1 .. Len(s) /\ Tail(s)[n] = s[n + 1]
<1>1. /\ Tail(s) \in Seq(S)
      /\ Len(Tail(s)) = Len(s) - 1
      /\ \A n \in 1 .. Len(s) - 1 : Tail(s)[n] = s[n + 1]
    BY HeadTailProperties
<1>2. Len(s) \in Nat \ {0}
    BY EmptySeq, Zenon
<1>3. Len(Tail(s)) # 0
    BY <1>1, <1>2
<1>4. Tail(s) # <<>>
    BY <1>3, EmptySeq, Zenon
<1> QED BY <1>1, <1>2, <1>4

LEMMA ReversalType == Reversal \in [Restriction -> Kind]
BY DEF Reversal, Restriction, Kind

(***************************************************************************)
(* The shape of the processes: a busy handler or worker holds rows that    *)
(* exist.  TypeOK is inductive only together with it, since a worker in    *)
(* its loop takes the head of its batch.                                   *)
(***************************************************************************)

Busy == {"load", "call", "record", "log", "fail"}

Shape ==
    /\ \A h \in Handlers : handler[h].pc # "idle" =>
            handler[h].id \in ActionId /\ Exists(handler[h].id)
    /\ \A w \in Workers : worker[w].pc \in Busy => worker[w].batch # <<>>
    /\ \A w \in Workers : \A i \in Holding(w) : Exists(i)

(* The current row of a busy worker is one of the rows it holds.           *)
LEMMA CurrentHeld ==
    ASSUME TypeOK, Shape, NEW w \in Workers, worker[w].pc \in Busy
    PROVE  Current(w) \in ActionId /\ Current(w) \in Holding(w) /\ Exists(Current(w))
<1>1. worker[w].batch \in Seq(ActionId) /\ worker[w].batch # <<>>
    BY DEF TypeOK, Shape
<1>2. Len(worker[w].batch) >= 1 /\ Current(w) = worker[w].batch[1]
    BY <1>1 DEF Current
<1>3. Current(w) \in ActionId
    BY <1>1, <1>2
<1>4. Current(w) \in Holding(w)
    BY <1>1, <1>2 DEF Holding
<1> QED BY <1>3, <1>4 DEF Shape

(* Advancing drops the first row, and holds no new one.                    *)
LEMMA AdvanceHolds ==
    ASSUME TypeOK, Shape, NEW w \in Workers, worker[w].pc \in Busy, Advance(w)
    PROVE  /\ worker' \in [Workers -> [pc: WorkerPc, batch: Seq(ActionId), bot: 1 .. NumBots]]
           /\ \A v \in Workers \ {w} : worker'[v] = worker[v]
           /\ worker'[w].pc \in {"idle", "load"}
           /\ worker'[w].pc = "load" => worker'[w].batch # <<>>
           /\ Holding(w)' \subseteq Holding(w)
<1> DEFINE b == worker[w].batch
<1>1. b \in Seq(ActionId) /\ b # <<>>
    BY DEF TypeOK, Shape
<1>2. CASE Len(b) = 1
  <2>1. worker' = [worker EXCEPT ![w] = Resting]
    BY <1>2 DEF Advance
  <2>2. Resting \in [pc: WorkerPc, batch: Seq(ActionId), bot: 1 .. NumBots]
    BY QueueAssumption DEF Resting, WorkerPc
  <2>3. worker'[w] = Resting
    BY <2>1 DEF TypeOK
  <2>4. Holding(w)' = {}
    BY <2>3 DEF Holding, Resting
  <2> QED BY <2>1, <2>2, <2>3, <2>4 DEF TypeOK, Resting
<1>3. CASE Len(b) # 1
  <2> DEFINE next == [pc |-> "load", batch |-> Tail(b), bot |-> 1]
  <2>1. worker' = [worker EXCEPT ![w] = next]
    BY <1>3 DEF Advance
  <2>2. /\ Tail(b) \in Seq(ActionId)
        /\ Tail(b) # <<>>
        /\ \A n \in 1 .. Len(Tail(b)) : n + 1 \in 1 .. Len(b) /\ Tail(b)[n] = b[n + 1]
    BY <1>1, <1>3, TailFacts
  <2>3. next \in [pc: WorkerPc, batch: Seq(ActionId), bot: 1 .. NumBots]
    BY <2>2, QueueAssumption DEF WorkerPc
  <2>4. worker'[w] = next
    BY <2>1 DEF TypeOK
  <2>5. Holding(w)' \subseteq Holding(w)
    BY <2>2, <2>4 DEF Holding
  <2> QED BY <2>1, <2>2, <2>3, <2>4, <2>5 DEF TypeOK
<1> QED BY <1>2, <1>3

(***************************************************************************)
(* What every step does to the table: rows stay rows, a row that exists    *)
(* keeps what it asks for, and a restriction that has left the queue never *)
(* returns to it.                                                          *)
(***************************************************************************)

SameRequest(i) ==
    /\ rows'[i].kind = rows[i].kind
    /\ rows'[i].target = rows[i].target
    /\ rows'[i].duration = rows[i].duration
    /\ rows'[i].key = rows[i].key
    /\ rows'[i].internal = rows[i].internal

Grows ==
    /\ rows' \in [ActionId -> Row]
    /\ \A i \in ActionId : Exists(i) =>
        /\ rows'[i].status # "absent"
        /\ SameRequest(i)
        /\ rows[i].kind \in Restriction /\ rows[i].status # "pending" =>
                rows'[i].status # "pending"

LEMMA UnchangedGrows ==
    ASSUME TypeOK, UNCHANGED rows
    PROVE  Grows
BY DEF TypeOK, Grows, SameRequest, Exists

LEMMA InsertGrows ==
    ASSUME TypeOK, NEW i \in FreshIds, NEW row \in Row, rows' = [rows EXCEPT ![i] = row]
    PROVE  Grows
BY DEF TypeOK, Grows, SameRequest, Exists, FreshIds

(* Settling one row. *)
LEMMA SettleGrows ==
    ASSUME TypeOK, NEW i \in ActionId, Exists(i),
           NEW status \in {"executed", "failed", "cancelled"},
           rows' = [rows EXCEPT ![i] = Settle(@, status)]
    PROVE  /\ Grows
           /\ rows'[i].status = status
           /\ \A j \in ActionId \ {i} : rows'[j] = rows[j]
<1>1. rows[i] \in Row /\ status \in Status
    BY DEF TypeOK, Status
<1>2. /\ Settle(rows[i], status) \in Row
      /\ Settle(rows[i], status).status = status
      /\ Settle(rows[i], status).kind = rows[i].kind
      /\ Settle(rows[i], status).target = rows[i].target
      /\ Settle(rows[i], status).duration = rows[i].duration
      /\ Settle(rows[i], status).key = rows[i].key
      /\ Settle(rows[i], status).internal = rows[i].internal
    BY <1>1, SettleType DEF Settle, Row
<1>3. rows' = [rows EXCEPT ![i] = Settle(rows[i], status)]
    BY DEF TypeOK
<1>4. rows'[i] = Settle(rows[i], status) /\ \A j \in ActionId \ {i} : rows'[j] = rows[j]
    BY <1>3 DEF TypeOK
<1>5. rows' \in [ActionId -> Row]
    BY <1>2, <1>3 DEF TypeOK
<1> QED BY <1>2, <1>4, <1>5 DEF Grows, SameRequest, Exists

(* complete_action: the row, and perhaps a new pending release of it. *)
LEMMA CompleteGrows ==
    ASSUME TypeOK, NEW i \in ActionId, Exists(i), Complete(i)
    PROVE  /\ Grows
           /\ rows'[i].status = "executed"
           /\ \/ /\ ~(NeedsReversal(i) /\ ~KeyTaken(ReverseKey(i)))
                 /\ \A j \in ActionId \ {i} : rows'[j] = rows[j]
              \/ /\ NeedsReversal(i) /\ ~KeyTaken(ReverseKey(i))
                 /\ \E r \in FreshIds :
                     /\ rows'[r] = NewRow(Reversal[rows[i].kind], rows[i].target,
                                         rows[i].duration, 0, ReverseKey(i), TRUE)
                     /\ \A j \in ActionId \ {i, r} : rows'[j] = rows[j]
<1> DEFINE done == [rows EXCEPT ![i] = Settle(@, "executed")]
<1> DEFINE release == NewRow(Reversal[rows[i].kind], rows[i].target,
                             rows[i].duration, 0, ReverseKey(i), TRUE)
<1>1. rows[i] \in Row /\ "executed" \in Status
    BY DEF TypeOK, Status
<1>2. /\ Settle(rows[i], "executed") \in Row
      /\ Settle(rows[i], "executed").status = "executed"
      /\ Settle(rows[i], "executed").kind = rows[i].kind
      /\ Settle(rows[i], "executed").target = rows[i].target
      /\ Settle(rows[i], "executed").duration = rows[i].duration
      /\ Settle(rows[i], "executed").key = rows[i].key
      /\ Settle(rows[i], "executed").internal = rows[i].internal
    BY <1>1, SettleType DEF Settle, Row
<1>3. /\ done \in [ActionId -> Row]
      /\ done[i] = Settle(rows[i], "executed")
      /\ \A j \in ActionId \ {i} : done[j] = rows[j]
    BY <1>2 DEF TypeOK
<1> HIDE DEF done
<1>4. CASE NeedsReversal(i) /\ ~KeyTaken(ReverseKey(i))
  <2>1. PICK r \in FreshIds : rows' = [done EXCEPT ![r] = release]
    BY <1>4 DEF Complete, done
  <2>2. r \in ActionId /\ ~Exists(r) /\ r # i
    BY <2>1 DEF FreshIds
  <2>3. release \in Row
    <3>1. rows[i].kind \in Restriction
      BY <1>4 DEF NeedsReversal
    <3>2. /\ Reversal[rows[i].kind] \in Kind
          /\ rows[i].target \in Targets
          /\ rows[i].duration \in Nat
      BY <1>1, <3>1, ReversalType DEF Row
    <3>3. ReverseKey(i) \in Key
      BY KeyTypes DEF ActionId
    <3>4. rows[i].duration \in Int /\ 0 \in Nat /\ TRUE \in BOOLEAN
      BY <3>2
    <3> QED BY <3>2, <3>3, <3>4, NewRowType
  <2> HIDE DEF release
  <2>4. /\ rows' \in [ActionId -> Row]
        /\ rows'[r] = release
        /\ \A j \in ActionId \ {r} : rows'[j] = done[j]
    BY <1>3, <2>1, <2>2, <2>3
  <2>5. Grows
    BY <1>2, <1>3, <2>2, <2>4 DEF Grows, SameRequest, Exists
  <2>6. rows'[i].status = "executed"
    BY <1>2, <1>3, <2>2, <2>4
  <2>7. \A j \in ActionId \ {i, r} : rows'[j] = rows[j]
    BY <1>3, <2>4
  <2> QED BY <1>4, <2>1, <2>4, <2>5, <2>6, <2>7 DEF release
<1>5. CASE ~(NeedsReversal(i) /\ ~KeyTaken(ReverseKey(i)))
  <2>1. rows' = done
    BY <1>5 DEF Complete, done
  <2>2. Grows
    BY <1>2, <1>3, <2>1 DEF Grows, SameRequest, Exists
  <2> QED BY <1>2, <1>3, <1>5, <2>1, <2>2
<1> QED BY <1>4, <1>5

(* The sweep fails stale restrictions and requeues stale releases. *)
LEMMA SweepGrows ==
    ASSUME TypeOK, NEW w \in Workers, WorkerSweep(w)
    PROVE  /\ Grows
           /\ \A i \in ActionId :
                \/ rows'[i] = rows[i]
                \/ /\ rows[i].status = "processing"
                   /\ rows'[i].status \in {"pending", "failed"}
<1>1. SUFFICES ASSUME NEW i \in ActionId
               PROVE  /\ rows'[i] \in Row
                      /\ Exists(i) => rows'[i].status # "absent" /\ SameRequest(i)
                      /\ rows[i].kind \in Restriction /\ rows[i].status # "pending" =>
                            rows'[i].status # "pending"
                      /\ \/ rows'[i] = rows[i]
                         \/ /\ rows[i].status = "processing"
                            /\ rows'[i].status \in {"pending", "failed"}
    BY DEF WorkerSweep, Grows
<1>2. rows[i] \in Row
    BY DEF TypeOK
<1>3. CASE ~Stale(i)
  <2>1. rows'[i] = rows[i]
    BY <1>3 DEF WorkerSweep
  <2> QED BY <1>2, <2>1 DEF SameRequest, Exists
<1>4. CASE Stale(i) /\ rows[i].kind \in Restriction
  <2>1. rows'[i] = Settle(rows[i], "failed")
    BY <1>4 DEF WorkerSweep
  <2>2. Settle(rows[i], "failed") \in Row
    BY <1>2, SettleType DEF Status
  <2> QED BY <1>2, <1>4, <2>1, <2>2 DEF Settle, SameRequest, Stale, Row
<1>5. CASE Stale(i) /\ rows[i].kind \notin Restriction
  <2>1. rows'[i] = Requeue(rows[i])
    BY <1>5 DEF WorkerSweep
  <2>2. Requeue(rows[i]) \in Row
    BY <1>2, RequeueType
  <2> QED BY <1>2, <1>5, <2>1, <2>2 DEF Requeue, SameRequest, Stale, Row
<1> QED BY <1>3, <1>4, <1>5

(* The claim moves due rows from "pending" to "processing" and holds them. *)
LEMMA ClaimGrows ==
    ASSUME TypeOK, NEW w \in Workers, WorkerClaim(w)
    PROVE  /\ Grows
           /\ \A i \in ActionId :
                \/ rows'[i] = rows[i]
                \/ rows[i].status = "pending" /\ rows'[i].status = "processing"
           /\ worker' \in [Workers -> [pc: WorkerPc, batch: Seq(ActionId), bot: 1 .. NumBots]]
           /\ \A v \in Workers \ {w} : worker'[v] = worker[v]
           /\ worker'[w].pc \in {"idle", "load"}
           /\ worker'[w].pc = "load" => worker'[w].batch # <<>>
           /\ \A i \in Holding(w)' :
                i \in ActionId /\ rows[i].status = "pending" /\ rows'[i].status = "processing"
<1>1. PICK b \in ClaimOrders :
        /\ rows' = [i \in ActionId |-> IF \E k \in DOMAIN b : b[k] = i
                                       THEN Take(rows[i]) ELSE rows[i]]
        /\ worker' = [worker EXCEPT ![w] =
                        IF Due = {} THEN Resting
                        ELSE [pc |-> "load", batch |-> b, bot |-> 1]]
    BY DEF WorkerClaim
<1> DEFINE n == IF Cardinality(Due) < Limit THEN Cardinality(Due) ELSE Limit
<1>2. Due \subseteq ActionId /\ IsFiniteSet(Due)
  <2>1. IsFiniteSet(ActionId)
    BY FS_Interval, QueueAssumption DEF ActionId
  <2> QED BY <2>1, FS_Subset DEF Due
<1>3. n \in Nat /\ (Due # {} => n # 0)
    BY <1>2, FS_CardinalityType, FS_EmptySet, QueueAssumption
<1>4. b \in [1 .. n -> Due]
    BY <1>1 DEF ClaimOrders
<1> HIDE DEF n
<1>5. b \in Seq(ActionId) /\ Len(b) = n /\ DOMAIN b = 1 .. n
  <2>1. b \in Seq(Due)
    BY <1>3, <1>4
  <2> QED BY <1>2, <1>3, <1>4, <2>1
<1>6. ASSUME NEW i \in ActionId
      PROVE  /\ rows'[i] \in Row
             /\ Exists(i) => rows'[i].status # "absent" /\ SameRequest(i)
             /\ rows[i].kind \in Restriction /\ rows[i].status # "pending" =>
                    rows'[i].status # "pending"
             /\ \/ rows'[i] = rows[i]
                \/ rows[i].status = "pending" /\ rows'[i].status = "processing"
             /\ (\E k \in DOMAIN b : b[k] = i) =>
                    rows[i].status = "pending" /\ rows'[i].status = "processing"
  <2>1. rows[i] \in Row
    BY DEF TypeOK
  <2>2. CASE \E k \in DOMAIN b : b[k] = i
    <3>1. rows'[i] = Take(rows[i])
      BY <1>1, <2>2
    <3>2. rows[i].status = "pending"
      BY <1>4, <1>5, <2>2 DEF Due
    <3>3. Take(rows[i]) \in Row
      BY <2>1, TakeType
    <3> QED BY <2>1, <3>1, <3>2, <3>3 DEF Take, SameRequest, Row
  <2>3. CASE ~ \E k \in DOMAIN b : b[k] = i
    <3>1. rows'[i] = rows[i]
      BY <1>1, <2>3
    <3> QED BY <2>1, <2>3, <3>1 DEF SameRequest, Exists
  <2> QED BY <2>2, <2>3
<1>7. Grows
    BY <1>1, <1>6 DEF Grows
<1>8. CASE Due = {}
  <2>1. Resting \in [pc: WorkerPc, batch: Seq(ActionId), bot: 1 .. NumBots]
    BY QueueAssumption DEF Resting, WorkerPc
  <2>2. worker'[w] = Resting /\ \A v \in Workers \ {w} : worker'[v] = worker[v]
    BY <1>1, <1>8 DEF TypeOK
  <2>3. worker' \in [Workers -> [pc: WorkerPc, batch: Seq(ActionId), bot: 1 .. NumBots]]
    BY <1>1, <1>8, <2>1 DEF TypeOK
  <2>4. Holding(w)' = {}
    BY <2>2 DEF Holding, Resting
  <2> QED BY <1>6, <1>7, <2>2, <2>3, <2>4 DEF Resting
<1>9. CASE Due # {}
  <2> DEFINE next == [pc |-> "load", batch |-> b, bot |-> 1]
  <2>1. next \in [pc: WorkerPc, batch: Seq(ActionId), bot: 1 .. NumBots]
    BY <1>5, QueueAssumption DEF WorkerPc
  <2>2. worker'[w] = next /\ \A v \in Workers \ {w} : worker'[v] = worker[v]
    BY <1>1, <1>9 DEF TypeOK
  <2>3. worker' \in [Workers -> [pc: WorkerPc, batch: Seq(ActionId), bot: 1 .. NumBots]]
    BY <1>1, <1>9, <2>1 DEF TypeOK
  <2>4. Holding(w)' = {b[k] : k \in 1 .. n}
    BY <1>5, <2>2 DEF Holding
  <2>5. b # <<>>
    BY <1>3, <1>5, <1>9, EmptySeq, Zenon
  <2> QED BY <1>4, <1>5, <1>6, <1>7, <1>2, <2>2, <2>3, <2>4, <2>5
<1> QED BY <1>8, <1>9

LEMMA TickGrows ==
    ASSUME TypeOK, Tick
    PROVE  Grows /\ \A i \in ActionId : rows'[i].status = rows[i].status
<1>1. SUFFICES ASSUME NEW i \in ActionId
               PROVE  /\ rows'[i] \in Row
                      /\ rows'[i].status = rows[i].status
                      /\ SameRequest(i)
    BY DEF Tick, Grows, Exists
<1>2. rows[i] \in Row
    BY DEF TypeOK
<1>3. CASE rows[i].status = "pending" /\ rows[i].due_in > -MaxLate
  <2>1. rows'[i] = [rows[i] EXCEPT !.due_in = rows[i].due_in - 1]
    BY <1>3 DEF Tick
  <2>2. rows[i].due_in - 1 \in Int
    BY <1>2 DEF Row
  <2>3. rows'[i] \in Row
    BY <1>2, <2>1, <2>2, DueType
  <2> QED BY <1>2, <2>1, <2>3 DEF SameRequest, Row
<1>4. CASE rows[i].status = "processing" /\ rows[i].age < StaleAfter
  <2>1. rows'[i] = [rows[i] EXCEPT !.age = rows[i].age + 1]
    BY <1>4 DEF Tick
  <2>2. rows[i].age + 1 \in Nat
    BY <1>2 DEF Row
  <2>3. rows'[i] \in Row
    BY <1>2, <2>1, <2>2, AgeType
  <2> QED BY <1>2, <2>1, <2>3 DEF SameRequest, Row
<1>5. CASE /\ ~(rows[i].status = "pending" /\ rows[i].due_in > -MaxLate)
           /\ ~(rows[i].status = "processing" /\ rows[i].age < StaleAfter)
  <2>1. rows'[i] = rows[i]
    BY <1>5 DEF Tick
  <2> QED BY <1>2, <2>1 DEF SameRequest
<1> QED BY <1>3, <1>4, <1>5

(***************************************************************************)
(* TypeOK and Shape are kept by every action.  Each action changes few     *)
(* variables; the next lemma collects what the unchanged rest contributes. *)
(***************************************************************************)

HandlersOK ==
    /\ handler \in [Handlers -> [pc: HandlerPc, id: 0 .. MaxActions]]
    /\ \A h \in Handlers : handler[h].pc # "idle" =>
            handler[h].id \in ActionId /\ Exists(handler[h].id)

WorkersOK ==
    /\ worker \in [Workers -> [pc: WorkerPc, batch: Seq(ActionId), bot: 1 .. NumBots]]
    /\ \A w \in Workers : worker[w].pc \in Busy => worker[w].batch # <<>>
    /\ \A w \in Workers : \A i \in Holding(w) : i \in ActionId /\ Exists(i)

TelegramOK ==
    /\ inForce \in [Targets -> [Restriction -> 0 .. MaxActions]]
    /\ applied \in [ActionId -> 0 .. 2]
    /\ crashes \in 0 .. MaxCrashes
    /\ logs \subseteq ActionId

LEMMA HoldingType ==
    ASSUME TypeOK, NEW w \in Workers
    PROVE  Holding(w) \subseteq ActionId
<1>1. worker[w].batch \in Seq(ActionId)
    BY DEF TypeOK
<1> QED BY <1>1 DEF Holding

LEMMA PartsOfTypeAndShape ==
    TypeOK /\ Shape <=>
        rows \in [ActionId -> Row] /\ HandlersOK /\ WorkersOK /\ TelegramOK
<1>1. TypeOK /\ Shape =>
        rows \in [ActionId -> Row] /\ HandlersOK /\ WorkersOK /\ TelegramOK
    BY HoldingType DEF TypeOK, Shape, HandlersOK, WorkersOK, TelegramOK
<1>2. rows \in [ActionId -> Row] /\ HandlersOK /\ WorkersOK /\ TelegramOK =>
        TypeOK /\ Shape
    BY DEF TypeOK, Shape, HandlersOK, WorkersOK, TelegramOK
<1> QED BY <1>1, <1>2

LEMMA PartsAfterStep ==
    rows' \in [ActionId -> Row] /\ HandlersOK' /\ WorkersOK' /\ TelegramOK' =>
        TypeOK' /\ Shape'
BY DEF TypeOK, Shape, HandlersOK, WorkersOK, TelegramOK

LEMMA HandlersKept ==
    ASSUME TypeOK, Shape, Grows, handler' = handler
    PROVE  HandlersOK'
BY DEF TypeOK, Shape, Grows, HandlersOK, Exists

LEMMA WorkersKept ==
    ASSUME TypeOK, Shape, Grows, worker' = worker
    PROVE  WorkersOK'
<1>1. WorkersOK
    BY PartsOfTypeAndShape
<1> QED BY <1>1 DEF Grows, WorkersOK, Holding, Exists

LEMMA TelegramKept ==
    ASSUME TypeOK, UNCHANGED <<inForce, applied, crashes, logs>>
    PROVE  TelegramOK'
BY DEF TypeOK, TelegramOK

(* A worker that stays at its row, changing only its place in the loop.    *)
LEMMA WorkerStays ==
    ASSUME TypeOK, Shape, Grows, NEW w \in Workers,
           NEW pc \in WorkerPc, pc \in Busy => worker[w].pc \in Busy,
           NEW bot \in 1 .. NumBots, Goto(w, pc, bot)
    PROVE  /\ WorkersOK'
           /\ worker'[w] = [pc |-> pc, batch |-> worker[w].batch, bot |-> bot]
           /\ \A v \in Workers \ {w} : worker'[v] = worker[v]
<1>1. WorkersOK
    BY PartsOfTypeAndShape
<1> DEFINE at == [pc |-> pc, batch |-> worker[w].batch, bot |-> bot]
<1>2. worker' = [worker EXCEPT ![w] = at]
    BY DEF Goto
<1>3. at \in [pc: WorkerPc, batch: Seq(ActionId), bot: 1 .. NumBots]
    BY DEF TypeOK
<1>4. worker'[w] = at /\ \A v \in Workers \ {w} : worker'[v] = worker[v]
    BY <1>2 DEF TypeOK
<1>5. worker' \in [Workers -> [pc: WorkerPc, batch: Seq(ActionId), bot: 1 .. NumBots]]
    BY <1>2, <1>3 DEF TypeOK
<1>6. pc \in Busy => worker[w].batch # <<>>
    BY DEF Shape
<1>7. \A v \in Workers : worker'[v].batch = worker[v].batch
    BY <1>4
<1>8. \A v \in Workers : Holding(v)' = Holding(v)
    BY <1>7 DEF Holding
<1>9. \A v \in Workers : worker'[v].pc \in Busy => worker'[v].batch # <<>>
    BY <1>1, <1>4, <1>6, <1>7 DEF WorkersOK
<1>10. \A v \in Workers : \A i \in Holding(v)' : i \in ActionId /\ Exists(i)'
    BY <1>1, <1>8 DEF WorkersOK, Grows, Exists
<1> QED BY <1>4, <1>5, <1>9, <1>10 DEF WorkersOK

(* A worker that gives up rows, at rest, down or at the next row.          *)
LEMMA WorkerLetsGo ==
    ASSUME TypeOK, Shape, Grows, NEW w \in Workers,
           worker' \in [Workers -> [pc: WorkerPc, batch: Seq(ActionId), bot: 1 .. NumBots]],
           \A v \in Workers \ {w} : worker'[v] = worker[v],
           worker'[w].pc \in Busy => worker'[w].batch # <<>>,
           Holding(w)' \subseteq Holding(w)
    PROVE  WorkersOK'
<1>1. WorkersOK
    BY PartsOfTypeAndShape
<1>2. \A v \in Workers \ {w} : Holding(v)' = Holding(v)
    BY DEF Holding
<1>3. \A v \in Workers : worker'[v].pc \in Busy => worker'[v].batch # <<>>
    BY <1>1 DEF WorkersOK
<1>4. \A v \in Workers : \A i \in Holding(v)' : i \in ActionId /\ Exists(i)'
    BY <1>1, <1>2 DEF WorkersOK, Grows, Exists
<1> QED BY <1>3, <1>4 DEF WorkersOK

LEMMA ApplyType ==
    ASSUME TypeOK, NEW i \in ActionId, Exists(i), Apply(i), UNCHANGED <<crashes, logs>>
    PROVE  TelegramOK'
<1>1. rows[i] \in Row /\ rows[i].kind \in Kind /\ rows[i].target \in Targets
    BY DEF TypeOK, Row
<1>2. applied' \in [ActionId -> 0 .. 2]
    BY DEF Apply, Again, TypeOK
<1>3. i \in 0 .. MaxActions /\ 0 \in 0 .. MaxActions
    BY QueueAssumption DEF ActionId
<1>4. CASE rows[i].kind \in Restriction
  <2>1. inForce' = [inForce EXCEPT ![rows[i].target][rows[i].kind] = i]
    BY <1>4 DEF Apply
  <2>2. inForce' \in [Targets -> [Restriction -> 0 .. MaxActions]]
    BY <1>1, <1>3, <1>4, <2>1 DEF TypeOK
  <2> QED BY <1>2, <2>2 DEF TelegramOK, TypeOK
<1>5. CASE rows[i].kind \notin Restriction
  <2>1. inForce' = [inForce EXCEPT ![rows[i].target][Undone(rows[i].kind)] = 0]
    BY <1>5 DEF Apply
  <2> DEFINE r == Undone(rows[i].kind)
  <2> HIDE DEF r
  <2>2. inForce' \in [Targets -> [Restriction -> 0 .. MaxActions]]
    BY <1>1, <1>3, <2>1 DEF TypeOK, r
  <2> QED BY <1>2, <2>2 DEF TelegramOK, TypeOK
<1> QED BY <1>4, <1>5

(***************************************************************************)
(* Which rows the workers hold.  Only a claim adds to them.                *)
(***************************************************************************)

HoldsNoMore == \A w \in Workers : Holding(w)' \subseteq Holding(w)

LEMMA SameBatches ==
    ASSUME \A w \in Workers : worker'[w].batch = worker[w].batch
    PROVE  HoldsNoMore
BY DEF HoldsNoMore, Holding

(* What a step of any action comes to.                                     *)
Kept ==
    /\ TypeOK' /\ Shape'
    /\ Grows
    /\ HoldsNoMore \/ \E w \in Workers : WorkerClaim(w)

LEMMA QuietStep ==
    ASSUME TypeOK, Shape, Grows, TelegramOK', handler' = handler, worker' = worker
    PROVE  Kept
<1>1. HandlersOK' BY HandlersKept
<1>2. WorkersOK' BY WorkersKept
<1>3. rows' \in [ActionId -> Row] BY DEF Grows
<1>4. TypeOK' /\ Shape'
    BY <1>1, <1>2, <1>3, PartsAfterStep
<1> QED BY <1>4, SameBatches DEF Kept

LEMMA HandlerKept ==
    ASSUME TypeOK, Shape, Grows, TelegramOK', HandlersOK', worker' = worker
    PROVE  Kept
<1>1. WorkersOK' BY WorkersKept
<1>2. rows' \in [ActionId -> Row] BY DEF Grows
<1>3. TypeOK' /\ Shape'
    BY <1>1, <1>2, PartsAfterStep
<1> QED BY <1>3, SameBatches DEF Kept

LEMMA WorkerKept ==
    ASSUME TypeOK, Shape, Grows, TelegramOK', WorkersOK', handler' = handler, HoldsNoMore
    PROVE  Kept
<1>1. HandlersOK' BY HandlersKept
<1>2. rows' \in [ActionId -> Row] BY DEF Grows
<1>3. TypeOK' /\ Shape'
    BY <1>1, <1>2, PartsAfterStep
<1> QED BY <1>3 DEF Kept

(* A request inserts a row of the right type, and at most occupies one     *)
(* handler with it.                                                        *)
LEMMA RequestRow ==
    ASSUME TypeOK, NEW i \in FreshIds, NEW key \in Key,
           NEW kind, NEW target, NEW delay \in Delays, NEW duration \in Durations,
           ValidRequest(kind, target, duration),
           rows' = [rows EXCEPT ![i] = NewRow(kind, target, delay, duration, key, FALSE)]
    PROVE  Grows /\ rows'[i].status = "pending" /\ i \in ActionId
<1>1. kind \in Kind /\ target \in Targets BY RequestTypes
<1>2. delay \in Int /\ duration \in Nat /\ FALSE \in BOOLEAN BY QueueAssumption
<1> DEFINE row == NewRow(kind, target, delay, duration, key, FALSE)
<1>3. row \in Row BY <1>1, <1>2, NewRowType
<1>4. row.status = "pending" BY DEF NewRow
<1> HIDE DEF row
<1>5. i \in ActionId BY DEF FreshIds
<1>6. rows' = [rows EXCEPT ![i] = row] BY DEF row
<1>7. Grows BY <1>3, <1>6, InsertGrows
<1> QED BY <1>4, <1>5, <1>6, <1>7 DEF TypeOK

LEMMA HandlerRequestKept ==
    ASSUME TypeOK, Shape, NEW h \in Handlers, NEW kind, NEW target,
           NEW delay \in Delays, NEW duration \in Durations,
           HandlerRequest(h, kind, target, delay, duration)
    PROVE  Kept
<1>1. PICK i \in FreshIds :
        /\ rows' = [rows EXCEPT ![i] =
                        NewRow(kind, target, delay, duration, UuidKey(i), FALSE)]
        /\ handler' = IF delay > 0 THEN handler
                      ELSE [handler EXCEPT ![h] = [pc |-> "calling", id |-> i]]
    BY DEF HandlerRequest
<1>2. i \in ActionId BY DEF FreshIds
<1>3. UuidKey(i) \in Key BY <1>2, KeyTypes DEF ActionId
<1>4. ValidRequest(kind, target, duration) BY DEF HandlerRequest
<1>5. Grows /\ rows'[i].status = "pending" BY <1>1, <1>3, <1>4, RequestRow
<1>6. TelegramOK' BY TelegramKept DEF HandlerRequest
<1>7. worker' = worker BY DEF HandlerRequest
<1>8. HandlersOK'
  <2>1. CASE delay > 0
    BY <1>1, <1>5, <2>1, HandlersKept
  <2>2. CASE ~(delay > 0)
    <3>1. handler' = [handler EXCEPT ![h] = [pc |-> "calling", id |-> i]]
      BY <1>1, <2>2
    <3>2. i \in 0 .. MaxActions BY <1>2, QueueAssumption DEF ActionId
    <3>3. Exists(i)' BY <1>5 DEF Exists
    <3>4. \A g \in Handlers \ {h} : handler'[g] = handler[g]
      BY <3>1 DEF TypeOK
    <3>5. handler'[h] = [pc |-> "calling", id |-> i]
      BY <3>1 DEF TypeOK
    <3>6. [pc |-> "calling", id |-> i] \in [pc: HandlerPc, id: 0 .. MaxActions]
      BY <3>2 DEF HandlerPc
    <3>7. handler' \in [Handlers -> [pc: HandlerPc, id: 0 .. MaxActions]]
      BY <3>1, <3>6 DEF TypeOK
    <3>8. \A g \in Handlers : handler'[g].pc # "idle" =>
            handler'[g].id \in ActionId /\ rows'[handler'[g].id].status # "absent"
      BY <1>2, <1>5, <3>3, <3>4, <3>5 DEF Shape, Grows, Exists
    <3> QED BY <3>7, <3>8 DEF HandlersOK, Exists
  <2> QED BY <2>1, <2>2
<1> QED BY <1>5, <1>6, <1>7, <1>8, HandlerKept

LEMMA ApiKept ==
    ASSUME TypeOK, Shape, NEW kind, NEW target, NEW delay \in Delays, NEW duration \in Durations,
           \/ ApiCreate(kind, target, delay, duration)
           \/ \E text \in ClientKeys : ApiCreateWithKey(kind, target, delay, duration, text)
    PROVE  Kept
<1>1. CASE ApiCreate(kind, target, delay, duration)
  <2>1. PICK i \in FreshIds : rows' = [rows EXCEPT ![i] =
                NewRow(kind, target, delay, duration, UuidKey(i), FALSE)]
    BY <1>1 DEF ApiCreate
  <2>2. UuidKey(i) \in Key BY KeyTypes DEF FreshIds, ActionId
  <2>3. ValidRequest(kind, target, duration) BY <1>1 DEF ApiCreate
  <2>4. Grows BY <2>1, <2>2, <2>3, RequestRow
  <2>5. TelegramOK' BY <1>1, TelegramKept DEF ApiCreate
  <2> QED BY <1>1, <2>4, <2>5, QuietStep DEF ApiCreate
<1>2. ASSUME NEW text \in ClientKeys, ApiCreateWithKey(kind, target, delay, duration, text)
      PROVE  Kept
  <2>1. PICK i \in FreshIds : rows' = [rows EXCEPT ![i] =
                NewRow(kind, target, delay, duration, ExternalKey(text), FALSE)]
    BY <1>2 DEF ApiCreateWithKey
  <2>2. ExternalKey(text) \in Key
    BY QueueAssumption DEF ExternalKey, Key, KeyText
  <2>3. ValidRequest(kind, target, duration) BY <1>2 DEF ApiCreateWithKey
  <2>4. Grows BY <2>1, <2>2, <2>3, RequestRow
  <2>5. TelegramOK' BY <1>2, TelegramKept DEF ApiCreateWithKey
  <2> QED BY <1>2, <2>4, <2>5, QuietStep DEF ApiCreateWithKey
<1> QED BY <1>1, <1>2

(* A busy handler at another point of the same request, or at rest.        *)
LEMMA HandlerMoves ==
    ASSUME TypeOK, Shape, Grows, NEW h \in Handlers, handler[h].pc # "idle",
           NEW pc \in HandlerPc, handler' = [handler EXCEPT ![h].pc = pc]
    PROVE  HandlersOK'
<1>1. handler[h] \in [pc: HandlerPc, id: 0 .. MaxActions]
    BY DEF TypeOK
<1> DEFINE at == [handler[h] EXCEPT !.pc = pc]
<1>2. at \in [pc: HandlerPc, id: 0 .. MaxActions] /\ at.id = handler[h].id
    BY <1>1
<1>3. handler' = [handler EXCEPT ![h] = at]
    BY DEF TypeOK
<1> HIDE DEF at
<1>4. /\ handler' \in [Handlers -> [pc: HandlerPc, id: 0 .. MaxActions]]
      /\ handler'[h] = at
      /\ \A g \in Handlers \ {h} : handler'[g] = handler[g]
    BY <1>2, <1>3 DEF TypeOK
<1>5. \A g \in Handlers : handler'[g].pc # "idle" =>
        handler[g].pc # "idle" /\ handler'[g].id = handler[g].id
    BY <1>2, <1>4
<1> QED BY <1>4, <1>5 DEF Shape, Grows, HandlersOK, Exists

LEMMA HandlerRests ==
    ASSUME TypeOK, Shape, Grows, NEW h \in Handlers, handler' = [handler EXCEPT ![h] = Idle]
    PROVE  HandlersOK'
<1>1. Idle \in [pc: HandlerPc, id: 0 .. MaxActions] /\ Idle.pc = "idle"
    BY QueueAssumption DEF Idle, HandlerPc
<1>2. /\ handler' \in [Handlers -> [pc: HandlerPc, id: 0 .. MaxActions]]
      /\ handler'[h] = Idle
      /\ \A g \in Handlers \ {h} : handler'[g] = handler[g]
    BY <1>1 DEF TypeOK
<1> QED BY <1>1, <1>2 DEF Shape, Grows, HandlersOK, Exists

LEMMA HandlerStepKept ==
    ASSUME TypeOK, Shape, NEW h \in Handlers, HandlerStep(h)
    PROVE  Kept
<1>1. CASE HandlerApplied(h)
  <2>1. /\ handler[h].id \in ActionId
        /\ Exists(handler[h].id)
    BY <1>1 DEF HandlerApplied, Shape
  <2>2. TelegramOK'
    BY <1>1, <2>1, ApplyType DEF HandlerApplied
  <2>3. PICK outcome \in {"accepted", "raised"} : handler' = [handler EXCEPT ![h].pc = outcome]
    BY <1>1 DEF HandlerApplied
  <2>4. Grows BY <1>1, UnchangedGrows DEF HandlerApplied
  <2>5. HandlersOK'
    BY <1>1, <2>3, <2>4, HandlerMoves DEF HandlerApplied, HandlerPc
  <2> QED BY <1>1, <2>2, <2>4, <2>5, HandlerKept DEF HandlerApplied
<1>2. CASE HandlerRefused(h)
  <2>1. Grows BY <1>2, UnchangedGrows DEF HandlerRefused
  <2>2. HandlersOK' BY <1>2, <2>1, HandlerMoves DEF HandlerRefused, HandlerPc
  <2>3. TelegramOK' BY <1>2, TelegramKept DEF HandlerRefused
  <2> QED BY <1>2, <2>1, <2>2, <2>3, HandlerKept DEF HandlerRefused
<1>3. CASE HandlerComplete(h)
  <2>1. handler[h].id \in ActionId /\ Exists(handler[h].id)
    BY <1>3 DEF HandlerComplete, Shape
  <2>2. Grows
    BY <1>3, <2>1, CompleteGrows, UnchangedGrows DEF HandlerComplete
  <2>3. HandlersOK' BY <1>3, <2>2, HandlerRests DEF HandlerComplete
  <2>4. TelegramOK' BY <1>3, TelegramKept DEF HandlerComplete
  <2> QED BY <1>3, <2>2, <2>3, <2>4, HandlerKept DEF HandlerComplete
<1>4. CASE HandlerFail(h)
  <2>1. handler[h].id \in ActionId /\ Exists(handler[h].id)
    BY <1>4 DEF HandlerFail, Shape
  <2>2. Grows
    BY <1>4, <2>1, SettleGrows DEF HandlerFail
  <2>3. HandlersOK' BY <1>4, <2>2, HandlerRests DEF HandlerFail
  <2>4. TelegramOK' BY <1>4, TelegramKept DEF HandlerFail
  <2> QED BY <1>4, <2>2, <2>3, <2>4, HandlerKept DEF HandlerFail
<1> QED BY <1>1, <1>2, <1>3, <1>4 DEF HandlerStep

LEMMA BotCrashKept ==
    ASSUME TypeOK, Shape, BotCrash
    PROVE  Kept
<1>1. Grows BY UnchangedGrows DEF BotCrash
<1>2. HandlersOK'
  <2>1. Idle \in [pc: HandlerPc, id: 0 .. MaxActions] /\ Idle.pc = "idle"
    BY QueueAssumption DEF Idle, HandlerPc
  <2> QED BY <2>1 DEF BotCrash, HandlersOK
<1>3. TelegramOK'
    BY QueueAssumption DEF BotCrash, TypeOK, TelegramOK
<1> QED BY <1>1, <1>2, <1>3, HandlerKept DEF BotCrash

LEMMA CancelKept ==
    ASSUME TypeOK, Shape, NEW i \in ActionId, ApiCancel(i)
    PROVE  Kept
<1>1. Grows BY SettleGrows DEF ApiCancel, Exists
<1>2. TelegramOK' BY TelegramKept DEF ApiCancel
<1> QED BY <1>1, <1>2, QuietStep DEF ApiCancel

LEMMA TickKept ==
    ASSUME TypeOK, Shape, Tick
    PROVE  Kept
<1>1. Grows BY TickGrows
<1>2. TelegramOK' BY TelegramKept DEF Tick
<1> QED BY <1>1, <1>2, QuietStep DEF Tick

(***************************************************************************)
(* The steps of a worker.                                                  *)
(***************************************************************************)

LEMMA GotoKept ==
    ASSUME TypeOK, Shape, Grows, TelegramOK', handler' = handler,
           NEW w \in Workers, NEW pc \in WorkerPc, pc \in Busy => worker[w].pc \in Busy,
           NEW bot \in 1 .. NumBots, Goto(w, pc, bot)
    PROVE  Kept
<1>1. /\ WorkersOK'
      /\ worker'[w] = [pc |-> pc, batch |-> worker[w].batch, bot |-> bot]
      /\ \A v \in Workers \ {w} : worker'[v] = worker[v]
    BY WorkerStays
<1>2. \A v \in Workers : worker'[v].batch = worker[v].batch
    BY <1>1
<1> QED BY <1>1, <1>2, SameBatches, WorkerKept

LEMMA LetsGoKept ==
    ASSUME TypeOK, Shape, Grows, TelegramOK', handler' = handler, NEW w \in Workers,
           worker' \in [Workers -> [pc: WorkerPc, batch: Seq(ActionId), bot: 1 .. NumBots]],
           \A v \in Workers \ {w} : worker'[v] = worker[v],
           worker'[w].pc \in Busy => worker'[w].batch # <<>>,
           Holding(w)' \subseteq Holding(w)
    PROVE  Kept
<1>1. WorkersOK' BY WorkerLetsGo
<1>2. HoldsNoMore BY DEF HoldsNoMore, Holding
<1> QED BY <1>1, <1>2, WorkerKept

LEMMA AdvanceKept ==
    ASSUME TypeOK, Shape, Grows, TelegramOK', handler' = handler,
           NEW w \in Workers, worker[w].pc \in Busy, Advance(w)
    PROVE  Kept
<1>1. /\ worker' \in [Workers -> [pc: WorkerPc, batch: Seq(ActionId), bot: 1 .. NumBots]]
      /\ \A v \in Workers \ {w} : worker'[v] = worker[v]
      /\ worker'[w].pc \in {"idle", "load"}
      /\ worker'[w].pc = "load" => worker'[w].batch # <<>>
      /\ Holding(w)' \subseteq Holding(w)
    BY AdvanceHolds
<1>2. worker'[w].pc \in Busy => worker'[w].batch # <<>>
    BY <1>1 DEF Busy
<1> QED BY <1>1, <1>2, LetsGoKept

LEMMA EmptiedKept ==
    ASSUME TypeOK, Shape, Grows, TelegramOK', handler' = handler, NEW w \in Workers,
           NEW at \in {Resting, Down}, worker' = [worker EXCEPT ![w] = at]
    PROVE  Kept
<1>1. /\ at \in [pc: WorkerPc, batch: Seq(ActionId), bot: 1 .. NumBots]
      /\ at.pc \notin Busy
      /\ at.batch = <<>>
  <2>1. <<>> \in Seq(ActionId) /\ 1 \in 1 .. NumBots
    BY QueueAssumption
  <2>2. CASE at = Resting
    BY <2>1, <2>2 DEF Resting, WorkerPc, Busy
  <2>3. CASE at = Down
    BY <2>1, <2>3 DEF Down, WorkerPc, Busy
  <2> QED BY <2>2, <2>3
<1>2. /\ worker' \in [Workers -> [pc: WorkerPc, batch: Seq(ActionId), bot: 1 .. NumBots]]
      /\ worker'[w] = at
      /\ \A v \in Workers \ {w} : worker'[v] = worker[v]
    BY <1>1 DEF TypeOK
<1>3. Holding(w)' = {} BY <1>1, <1>2 DEF Holding
<1> QED BY <1>1, <1>2, <1>3, LetsGoKept

LEMMA TryNextBotKept ==
    ASSUME TypeOK, Shape, Grows, TelegramOK', handler' = handler,
           NEW w \in Workers, worker[w].pc \in Busy, TryNextBot(w)
    PROVE  Kept
<1>1. worker[w].bot \in 1 .. NumBots BY DEF TypeOK
<1>2. CASE worker[w].bot < NumBots
  <2>1. worker[w].bot + 1 \in 1 .. NumBots BY <1>1, <1>2, QueueAssumption
  <2>2. Goto(w, "call", worker[w].bot + 1) BY <1>2 DEF TryNextBot
  <2>3. "call" \in WorkerPc BY DEF WorkerPc
  <2> QED BY <2>1, <2>2, <2>3, GotoKept
<1>3. CASE ~(worker[w].bot < NumBots)
  <2>1. Goto(w, "fail", 1) BY <1>3 DEF TryNextBot
  <2>2. 1 \in 1 .. NumBots /\ "fail" \in WorkerPc BY QueueAssumption DEF WorkerPc
  <2> QED BY <2>1, <2>2, GotoKept
<1> QED BY <1>2, <1>3

LEMMA WorkerStepKept ==
    ASSUME TypeOK, Shape, NEW w \in Workers, WorkerStep(w) \/ WorkerCrash(w)
    PROVE  Kept
<1> USE DEF Busy
<1>0. 1 \in 1 .. NumBots BY QueueAssumption
<1>1. CASE WorkerSweep(w)
  <2>1. Grows BY <1>1, SweepGrows
  <2>2. TelegramOK' BY <1>1, TelegramKept DEF WorkerSweep
  <2>3. Goto(w, "claim", 1) BY <1>1 DEF WorkerSweep
  <2>4. "claim" \in WorkerPc BY DEF WorkerPc
  <2> QED BY <1>0, <1>1, <2>1, <2>2, <2>3, <2>4, GotoKept DEF WorkerSweep
<1>2. CASE WorkerClaim(w)
  <2>1. Grows BY <1>2, ClaimGrows
  <2>2. TelegramOK' BY <1>2, TelegramKept DEF WorkerClaim
  <2>3. /\ worker' \in [Workers -> [pc: WorkerPc, batch: Seq(ActionId), bot: 1 .. NumBots]]
        /\ \A v \in Workers \ {w} : worker'[v] = worker[v]
        /\ worker'[w].pc \in Busy => worker'[w].batch # <<>>
        /\ \A i \in Holding(w)' : i \in ActionId /\ rows'[i].status = "processing"
    BY <1>2, ClaimGrows
  <2>4. WorkersOK
    BY PartsOfTypeAndShape
  <2>5. \A v \in Workers : worker'[v].pc \in Busy => worker'[v].batch # <<>>
    BY <2>3, <2>4 DEF WorkersOK
  <2>6. \A v \in Workers \ {w} : Holding(v)' = Holding(v)
    BY <2>3 DEF Holding
  <2>7. \A v \in Workers : \A i \in Holding(v)' : i \in ActionId /\ Exists(i)'
    BY <2>1, <2>3, <2>4, <2>6 DEF WorkersOK, Grows, Exists
  <2>8. WorkersOK' BY <2>3, <2>5, <2>7 DEF WorkersOK
  <2>9. HandlersOK' BY <1>2, <2>1, HandlersKept DEF WorkerClaim
  <2>10. TypeOK' /\ Shape'
    BY <2>1, <2>2, <2>8, <2>9, PartsAfterStep DEF Grows
  <2> QED BY <1>2, <2>1, <2>10 DEF Kept
<1>3. CASE WorkerLoad(w)
  <2>1. Grows BY <1>3, UnchangedGrows DEF WorkerLoad
  <2>2. TelegramOK' BY <1>3, TelegramKept DEF WorkerLoad
  <2>3. "call" \in WorkerPc BY DEF WorkerPc
  <2> QED BY <1>0, <1>3, <2>1, <2>2, <2>3, GotoKept, AdvanceKept DEF WorkerLoad
<1>4. CASE WorkerProtected(w)
  <2>1. Grows BY <1>4, UnchangedGrows DEF WorkerProtected
  <2>2. TelegramOK' BY <1>4, TelegramKept DEF WorkerProtected
  <2>3. "fail" \in WorkerPc BY DEF WorkerPc
  <2> QED BY <1>0, <1>4, <2>1, <2>2, <2>3, GotoKept DEF WorkerProtected
<1>5. CASE WorkerApplied(w)
  <2>1. Grows BY <1>5, UnchangedGrows DEF WorkerApplied
  <2>2. Current(w) \in ActionId /\ Exists(Current(w))
    BY <1>5, CurrentHeld DEF WorkerApplied
  <2>3. TelegramOK' BY <1>5, <2>2, ApplyType DEF WorkerApplied
  <2>4. "record" \in WorkerPc BY DEF WorkerPc
  <2> QED BY <1>0, <1>5, <2>1, <2>3, <2>4, GotoKept, TryNextBotKept DEF WorkerApplied
<1>6. CASE WorkerRefused(w)
  <2>1. Grows BY <1>6, UnchangedGrows DEF WorkerRefused
  <2>2. TelegramOK' BY <1>6, TelegramKept DEF WorkerRefused
  <2> QED BY <1>6, <2>1, <2>2, TryNextBotKept DEF WorkerRefused
<1>7. CASE WorkerRecord(w)
  <2>1. Current(w) \in ActionId /\ Exists(Current(w))
    BY <1>7, CurrentHeld DEF WorkerRecord
  <2>2. Grows BY <1>7, <2>1, CompleteGrows DEF WorkerRecord
  <2>3. TelegramOK' BY <1>7, TelegramKept DEF WorkerRecord
  <2>4. "log" \in WorkerPc BY DEF WorkerPc
  <2> QED BY <1>0, <1>7, <2>2, <2>3, <2>4, GotoKept DEF WorkerRecord
<1>8. CASE WorkerRecordRaises(w)
  <2>1. Grows BY <1>8, UnchangedGrows DEF WorkerRecordRaises
  <2>2. TelegramOK' BY <1>8, TelegramKept DEF WorkerRecordRaises
  <2> QED BY <1>8, <2>1, <2>2, EmptiedKept DEF WorkerRecordRaises
<1>9. CASE WorkerLog(w)
  <2>1. Grows BY <1>9, UnchangedGrows DEF WorkerLog
  <2>2. Current(w) \in ActionId BY <1>9, CurrentHeld DEF WorkerLog
  <2>3. TelegramOK' BY <1>9, <2>2 DEF WorkerLog, TelegramOK, TypeOK
  <2> QED BY <1>9, <2>1, <2>3, AdvanceKept DEF WorkerLog
<1>10. CASE WorkerFail(w)
  <2>1. Current(w) \in ActionId /\ Exists(Current(w))
    BY <1>10, CurrentHeld DEF WorkerFail
  <2>2. Grows BY <1>10, <2>1, SettleGrows DEF WorkerFail
  <2>3. TelegramOK' BY <1>10, TelegramKept DEF WorkerFail
  <2> QED BY <1>10, <2>2, <2>3, AdvanceKept DEF WorkerFail
<1>11. CASE WorkerCrash(w)
  <2>1. Grows BY <1>11, UnchangedGrows DEF WorkerCrash
  <2>2. TelegramOK' BY <1>11, QueueAssumption DEF WorkerCrash, TypeOK, TelegramOK
  <2> QED BY <1>11, <2>1, <2>2, EmptiedKept DEF WorkerCrash
<1>12. CASE WorkerRestart(w)
  <2>1. Grows BY <1>12, UnchangedGrows DEF WorkerRestart
  <2>2. TelegramOK' BY <1>12, TelegramKept DEF WorkerRestart
  <2> QED BY <1>12, <2>1, <2>2, EmptiedKept DEF WorkerRestart
<1> QED
  BY <1>1, <1>2, <1>3, <1>4, <1>5, <1>6, <1>7, <1>8, <1>9, <1>10, <1>11, <1>12 DEF WorkerStep

(***************************************************************************)
(* Every step keeps the type and the shape.                                *)
(***************************************************************************)

LEMMA StepKept ==
    ASSUME TypeOK, Shape, [Next]_vars
    PROVE  Kept
<1>1. CASE Request
  BY <1>1, HandlerRequestKept, ApiKept DEF Request
<1>2. ASSUME NEW i \in ActionId, ApiCancel(i) PROVE Kept
  BY <1>2, CancelKept
<1>3. ASSUME NEW h \in Handlers, HandlerStep(h) PROVE Kept
  BY <1>3, HandlerStepKept
<1>4. ASSUME NEW w \in Workers, WorkerStep(w) \/ WorkerCrash(w) PROVE Kept
  BY <1>4, WorkerStepKept
<1>5. CASE BotCrash
  BY <1>5, BotCrashKept
<1>6. CASE Tick
  BY <1>6, TickKept
<1>7. CASE UNCHANGED vars
  <2>1. Grows BY <1>7, UnchangedGrows DEF vars
  <2>2. TelegramOK' BY <1>7, TelegramKept DEF vars
  <2> QED BY <1>7, <2>1, <2>2, QuietStep DEF vars
<1> QED BY <1>1, <1>2, <1>3, <1>4, <1>5, <1>6, <1>7 DEF Next

LEMMA InitShape == Init => TypeOK /\ Shape
<1> SUFFICES ASSUME Init PROVE TypeOK /\ Shape
  OBVIOUS
<1>1. NoRow \in Row
  BY DEF NoRow, Row, Status, Kind, Targets, Key, KeyText
<1>2. rows \in [ActionId -> Row]
  BY <1>1 DEF Init
<1>3. HandlersOK
  BY QueueAssumption DEF Init, HandlersOK, Idle, HandlerPc
<1>4. Resting \in [pc: WorkerPc, batch: Seq(ActionId), bot: 1 .. NumBots]
  BY QueueAssumption DEF Resting, WorkerPc
<1>5. WorkersOK
  BY <1>4 DEF Init, WorkersOK, Holding, Resting, Busy
<1>6. TelegramOK
  BY QueueAssumption DEF Init, TelegramOK
<1> QED BY <1>2, <1>3, <1>5, <1>6, PartsOfTypeAndShape

(* The variables keep their types, and a busy process holds rows that      *)
(* exist.                                                                  *)
THEOREM TypeCorrect == Spec => [](TypeOK /\ Shape)
<1>1. Init => TypeOK /\ Shape
  BY InitShape
<1>2. TypeOK /\ Shape /\ [Next]_vars => TypeOK' /\ Shape'
  BY StepKept DEF Kept
<1> QED BY <1>1, <1>2, PTL DEF Spec

(***************************************************************************)
(* No restriction is handed to two workers.  The property is not           *)
(* inductive: a held restriction that went back to "pending" could be      *)
(* claimed again.  NotQueued says that it never does, since the sweep      *)
(* requeues releases only.                                                 *)
(***************************************************************************)

NotQueued ==
    \A w \in Workers : \A i \in Holding(w) :
        rows[i].kind \in Restriction => rows[i].status # "pending"

LEMMA RestrictionHeldOnceStep ==
    ASSUME TypeOK, Shape, NotQueued, RestrictionHeldOnce, [Next]_vars
    PROVE  NotQueued' /\ RestrictionHeldOnce'
<1>1. Kept BY StepKept
<1>2. \A w \in Workers : \A i \in Holding(w) : i \in ActionId /\ Exists(i)
  BY HoldingType DEF Shape
<1>3. \A w \in Workers : \A i \in Holding(w) :
        /\ rows'[i].kind = rows[i].kind
        /\ rows[i].kind \in Restriction => rows'[i].status # "pending"
  BY <1>1, <1>2 DEF Kept, Grows, SameRequest, NotQueued
<1>4. \A i \in ActionId : rows[i].kind \in Kind /\ rows'[i].kind \in Kind
  BY <1>1 DEF Kept, TypeOK, Row
<1>5. CASE HoldsNoMore
  <2>1. NotQueued' BY <1>3, <1>5 DEF NotQueued, HoldsNoMore
  <2>2. RestrictionHeldOnce'
    BY <1>3, <1>5 DEF RestrictionHeldOnce, HoldsNoMore
  <2> QED BY <2>1, <2>2
<1>6. ASSUME NEW w \in Workers, WorkerClaim(w)
      PROVE  NotQueued' /\ RestrictionHeldOnce'
  <2>1. /\ \A v \in Workers \ {w} : worker'[v] = worker[v]
        /\ \A i \in Holding(w)' :
              i \in ActionId /\ rows[i].status = "pending" /\ rows'[i].status = "processing"
    BY <1>6, ClaimGrows
  <2>2. \A v \in Workers \ {w} : Holding(v)' = Holding(v)
    BY <2>1 DEF Holding
  <2>3. NotQueued'
    BY <1>3, <2>1, <2>2 DEF NotQueued
  <2>4. ASSUME NEW u \in Workers, NEW v \in Workers, u # v,
               NEW i \in Holding(u)' \cap Holding(v)'
        PROVE  rows'[i].kind \in Release
    <3>1. CASE u # w /\ v # w
      BY <1>3, <2>2, <2>4, <3>1 DEF RestrictionHeldOnce
    <3>2. CASE u = w \/ v = w
      <4>1. PICK x \in Workers : i \in Holding(x) /\ rows[i].status = "pending"
        BY <2>1, <2>2, <2>4, <3>2
      <4>2. rows[i].kind \notin Restriction
        BY <4>1 DEF NotQueued
      <4> QED BY <1>2, <1>3, <1>4, <4>1, <4>2 DEF Kind, Restriction, Release
    <3> QED BY <3>1, <3>2
  <2> QED BY <2>3, <2>4 DEF RestrictionHeldOnce
<1> QED BY <1>1, <1>5, <1>6 DEF Kept

(* At most one worker holds a given restriction, for any number of workers *)
(* and bots, through crashes, restarts, lost answers and stale sweeps.     *)
THEOREM RestrictionHeldOnceHolds == Spec => []RestrictionHeldOnce
<1>1. Init => NotQueued /\ RestrictionHeldOnce
  BY DEF Init, NotQueued, RestrictionHeldOnce, Holding, Resting
<1>2. TypeOK /\ Shape /\ NotQueued /\ RestrictionHeldOnce /\ [Next]_vars
        => NotQueued' /\ RestrictionHeldOnce'
  BY RestrictionHeldOnceStep
<1> QED BY <1>1, <1>2, TypeCorrect, PTL DEF Spec

(***************************************************************************)
(* What a step does to the table, whoever makes it.                        *)
(***************************************************************************)

(* Somebody who executes row i has had Telegram accept it.                 *)
Accepted(i) ==
    \/ \E h \in Handlers : handler[h].pc = "accepted" /\ handler[h].id = i
    \/ \E w \in Workers : worker[w].pc = "record" /\ Current(w) = i

(* A request, whose key no release has.                                    *)
Inserted(i) ==
    \E row \in Row :
        /\ row.status = "pending"
        /\ \A j \in ActionId : row.key # ReverseKey(j)
        /\ rows' = [rows EXCEPT ![i] = row]

SettledAs(i, status) == rows' = [rows EXCEPT ![i] = Settle(@, status)]

(* The sweep, the claim and the clock.                                     *)
Moved ==
    /\ Grows
    /\ \A i \in ActionId :
        \/ rows'[i].status = rows[i].status
        \/ /\ rows[i].status \in {"pending", "processing"}
           /\ rows'[i].status \in {"pending", "processing", "failed"}

TableStep ==
    \/ UNCHANGED rows
    \/ \E i \in FreshIds : Inserted(i)
    \/ \E i \in ActionId : Exists(i) /\ SettledAs(i, "failed")
    \/ \E i \in ActionId : rows[i].status = "pending" /\ SettledAs(i, "cancelled")
    \/ \E i \in ActionId : Exists(i) /\ Accepted(i) /\ Executable(i) /\ Complete(i)
    \/ Moved

LEMMA InsertedStep ==
    ASSUME NEW i \in FreshIds, NEW key \in Key,
           NEW kind, NEW target, NEW delay \in Delays, NEW duration \in Durations,
           ValidRequest(kind, target, duration),
           \A j \in ActionId : key # ReverseKey(j),
           rows' = [rows EXCEPT ![i] = NewRow(kind, target, delay, duration, key, FALSE)]
    PROVE  Inserted(i)
<1>1. kind \in Kind /\ target \in Targets BY RequestTypes
<1>2. delay \in Int /\ duration \in Nat /\ FALSE \in BOOLEAN BY QueueAssumption
<1> DEFINE row == NewRow(kind, target, delay, duration, key, FALSE)
<1>3. row \in Row BY <1>1, <1>2, NewRowType
<1>4. row.status = "pending" /\ row.key = key BY DEF NewRow
<1>5. rows' = [rows EXCEPT ![i] = row] BY DEF row
<1> HIDE DEF row
<1> QED BY <1>3, <1>4, <1>5 DEF Inserted

LEMMA RequestStep ==
    ASSUME TypeOK, Request
    PROVE  TableStep
<1>1. PICK kind \in RequestKinds, target \in Targets,
           delay \in Delays, duration \in Durations :
        \/ \E h \in Handlers : HandlerRequest(h, kind, target, delay, duration)
        \/ ApiCreate(kind, target, delay, duration)
        \/ \E text \in ClientKeys : ApiCreateWithKey(kind, target, delay, duration, text)
    BY DEF Request
<1>2. ValidRequest(kind, target, duration)
    BY <1>1 DEF HandlerRequest, ApiCreate, ApiCreateWithKey
<1>3. PICK i \in FreshIds :
        \E key \in {UuidKey(i)} \cup {ExternalKey(text) : text \in ClientKeys} :
          rows' = [rows EXCEPT ![i] = NewRow(kind, target, delay, duration, key, FALSE)]
    BY <1>1 DEF HandlerRequest, ApiCreate, ApiCreateWithKey
<1>4. PICK key \in {UuidKey(i)} \cup {ExternalKey(text) : text \in ClientKeys} :
          rows' = [rows EXCEPT ![i] = NewRow(kind, target, delay, duration, key, FALSE)]
    BY <1>3
<1>5. key \in Key /\ \A j \in ActionId : key # ReverseKey(j)
  <2>1. CASE key = UuidKey(i)
    <3>1. i \in Nat
      BY DEF FreshIds, ActionId
    <3>2. \A j \in ActionId : key.text.form # ReverseKey(j).text.form
      BY <2>1 DEF UuidKey, ReverseKey
    <3> QED BY <2>1, <3>1, <3>2, KeyTypes
  <2>2. CASE \E text \in ClientKeys : key = ExternalKey(text)
    <3>1. \A j \in ActionId : key.ext # ReverseKey(j).ext
      BY <2>2 DEF ExternalKey, ReverseKey
    <3>2. key \in Key
      BY <2>2, QueueAssumption DEF ExternalKey, Key, KeyText
    <3> QED BY <3>1, <3>2
  <2> QED BY <2>1, <2>2
<1> QED BY <1>2, <1>4, <1>5, InsertedStep DEF TableStep

LEMMA TableSteps ==
    ASSUME TypeOK, Shape, [Next]_vars
    PROVE  TableStep
<1>1. CASE Request
  BY <1>1, RequestStep
<1>2. ASSUME NEW i \in ActionId, ApiCancel(i) PROVE TableStep
  BY <1>2 DEF ApiCancel, SettledAs, TableStep
<1>3. ASSUME NEW h \in Handlers, HandlerStep(h) PROVE TableStep
  <2>1. CASE HandlerApplied(h) \/ HandlerRefused(h)
    BY <2>1 DEF HandlerApplied, HandlerRefused, TableStep
  <2>2. CASE HandlerComplete(h)
    <3>1. handler[h].id \in ActionId /\ Exists(handler[h].id) /\ Accepted(handler[h].id)
      BY <2>2 DEF HandlerComplete, Shape, Accepted
    <3> QED BY <2>2, <3>1 DEF HandlerComplete, TableStep
  <2>3. CASE HandlerFail(h)
    <3>1. handler[h].id \in ActionId /\ Exists(handler[h].id)
      BY <2>3 DEF HandlerFail, Shape
    <3> QED BY <2>3, <3>1 DEF HandlerFail, SettledAs, TableStep
  <2> QED BY <1>3, <2>1, <2>2, <2>3 DEF HandlerStep
<1>4. ASSUME NEW w \in Workers, WorkerStep(w) \/ WorkerCrash(w) PROVE TableStep
  <2>1. CASE WorkerSweep(w)
    BY <2>1, SweepGrows DEF Moved, TableStep
  <2>2. CASE WorkerClaim(w)
    BY <2>2, ClaimGrows DEF Moved, TableStep
  <2>3. CASE WorkerRecord(w)
    <3>1. Current(w) \in ActionId /\ Exists(Current(w))
      BY <2>3, CurrentHeld DEF WorkerRecord, Busy
    <3>2. Accepted(Current(w))
      BY <2>3 DEF WorkerRecord, Accepted
    <3> QED BY <2>3, <3>1, <3>2 DEF WorkerRecord, TableStep
  <2>4. CASE WorkerFail(w)
    <3>1. Current(w) \in ActionId /\ Exists(Current(w))
      BY <2>4, CurrentHeld DEF WorkerFail, Busy
    <3> QED BY <2>4, <3>1 DEF WorkerFail, SettledAs, TableStep
  <2>5. CASE \/ WorkerLoad(w) \/ WorkerProtected(w) \/ WorkerApplied(w)
             \/ WorkerRefused(w) \/ WorkerRecordRaises(w) \/ WorkerLog(w)
             \/ WorkerCrash(w) \/ WorkerRestart(w)
    BY <2>5 DEF WorkerLoad, WorkerProtected, WorkerApplied, WorkerRefused,
                WorkerRecordRaises, WorkerLog, WorkerCrash, WorkerRestart, TableStep
  <2> QED BY <1>4, <2>1, <2>2, <2>3, <2>4, <2>5 DEF WorkerStep
<1>5. CASE BotCrash
  BY <1>5 DEF BotCrash, TableStep
<1>6. CASE Tick
  BY <1>6, TickGrows DEF Moved, TableStep
<1>7. CASE UNCHANGED vars
  BY <1>7 DEF vars, TableStep
<1> QED BY <1>1, <1>2, <1>3, <1>4, <1>5, <1>6, <1>7 DEF Next

(* How the status of a row may change.                                     *)
LEMMA StatusSteps ==
    ASSUME TypeOK, Shape, [Next]_vars, NEW i \in ActionId
    PROVE  /\ rows[i].status = "cancelled" => rows'[i].status \in {"cancelled", "failed"}
           /\ rows[i].status \in {"executed", "failed"} =>
                rows'[i].status \in {"executed", "failed"}
           /\ rows'[i].status = "executed" =>
                \/ rows[i].status = "executed"
                \/ Accepted(i) /\ Executable(i) /\ Complete(i) /\ Exists(i)
<1>1. CASE UNCHANGED rows
  BY <1>1
<1>2. ASSUME NEW f \in FreshIds, Inserted(f) PROVE ~Exists(f) /\ rows'[f].status = "pending"
                                  /\ \A j \in ActionId \ {f} : rows'[j] = rows[j]
  <2>1. PICK row \in Row : row.status = "pending" /\ rows' = [rows EXCEPT ![f] = row]
    BY <1>2 DEF Inserted
  <2> QED BY <2>1 DEF FreshIds, TypeOK
<1>3. ASSUME NEW f \in ActionId, Exists(f), SettledAs(f, "failed")
      PROVE  /\ rows'[f].status = "failed" /\ \A j \in ActionId \ {f} : rows'[j] = rows[j]
  BY <1>3, SettleGrows DEF SettledAs
<1>4. ASSUME NEW f \in ActionId, rows[f].status = "pending", SettledAs(f, "cancelled")
      PROVE  /\ rows'[f].status = "cancelled" /\ \A j \in ActionId \ {f} : rows'[j] = rows[j]
  <2>1. Exists(f)
    BY <1>4 DEF Exists
  <2> QED BY <1>4, <2>1, SettleGrows DEF SettledAs
<1>5. ASSUME NEW f \in ActionId, Exists(f), Accepted(f), Executable(f), Complete(f)
      PROVE  /\ rows'[f].status = "executed"
             /\ \A j \in ActionId \ {f} : rows'[j] = rows[j] \/ (~Exists(j) /\ rows'[j].status = "pending")
  <2>1. rows'[f].status = "executed"
    BY <1>5, CompleteGrows
  <2>2. CASE \A j \in ActionId \ {f} : rows'[j] = rows[j]
    BY <2>1, <2>2
  <2>3. CASE \E r \in FreshIds :
               /\ rows'[r] = NewRow(Reversal[rows[f].kind], rows[f].target,
                                    rows[f].duration, 0, ReverseKey(f), TRUE)
               /\ \A j \in ActionId \ {f, r} : rows'[j] = rows[j]
    <3>1. PICK r \in FreshIds :
               /\ rows'[r] = NewRow(Reversal[rows[f].kind], rows[f].target,
                                    rows[f].duration, 0, ReverseKey(f), TRUE)
               /\ \A j \in ActionId \ {f, r} : rows'[j] = rows[j]
      BY <2>3
    <3>2. rows'[r].status = "pending" BY <3>1 DEF NewRow
    <3>3. ~Exists(r) BY DEF FreshIds
    <3>4. ASSUME NEW j \in ActionId \ {f}
          PROVE  rows'[j] = rows[j] \/ (~Exists(j) /\ rows'[j].status = "pending")
      <4>1. CASE j = r BY <3>2, <3>3, <4>1
      <4>2. CASE j # r BY <3>1, <4>2
      <4> QED BY <4>1, <4>2
    <3> QED BY <2>1, <3>4
  <2> QED BY <1>5, <2>2, <2>3, CompleteGrows
<1>6. CASE Moved
  <2>1. \/ rows'[i].status = rows[i].status
        \/ /\ rows[i].status \in {"pending", "processing"}
           /\ rows'[i].status \in {"pending", "processing", "failed"}
    BY <1>6 DEF Moved
  <2> QED BY <2>1
<1>7. CASE \E f \in FreshIds : Inserted(f)
  <2>1. rows'[i] = rows[i] \/ (~Exists(i) /\ rows'[i].status = "pending")
    BY <1>2, <1>7
  <2> QED BY <2>1 DEF Exists
<1>8. CASE \E f \in ActionId : Exists(f) /\ SettledAs(f, "failed")
  <2>1. rows'[i] = rows[i] \/ rows'[i].status = "failed"
    BY <1>3, <1>8
  <2> QED BY <2>1
<1>9. CASE \E f \in ActionId : rows[f].status = "pending" /\ SettledAs(f, "cancelled")
  <2>1. rows'[i] = rows[i] \/ (rows[i].status = "pending" /\ rows'[i].status = "cancelled")
    BY <1>4, <1>9
  <2> QED BY <2>1
<1>10. ASSUME NEW f \in ActionId, Exists(f), Accepted(f), Executable(f), Complete(f)
       PROVE  /\ rows[i].status \in {"cancelled", "executed", "failed"} =>
                    rows'[i].status = rows[i].status
              /\ rows'[i].status = "executed" => rows[i].status = "executed" \/ i = f
  <2>1. CASE i = f
    BY <1>10, <2>1 DEF Executable
  <2>2. CASE i # f
    <3>1. rows'[i] = rows[i] \/ (~Exists(i) /\ rows'[i].status = "pending")
      BY <1>5, <1>10, <2>2
    <3> QED BY <3>1 DEF Exists
  <2> QED BY <2>1, <2>2
<1>11. CASE \E f \in ActionId : Exists(f) /\ Accepted(f) /\ Executable(f) /\ Complete(f)
  BY <1>10, <1>11
<1> QED BY <1>1, <1>6, <1>7, <1>8, <1>9, <1>11, TableSteps DEF TableStep

(***************************************************************************)
(* The release of a timed restriction: it is in the table from the moment  *)
(* the restriction is executed, and never without it.                      *)
(***************************************************************************)

(* Row r was written by complete_action as the release of i.               *)
ReleaseOf(r, i) ==
    /\ Exists(i) /\ NeedsReversal(i)
    /\ rows'[i].status = "executed"
    /\ rows'[r].key = ReverseKey(i)
    /\ rows'[r].internal
    /\ rows'[r].kind = Reversal[rows[i].kind]
    /\ rows'[r].target = rows[i].target

(* Where the rows of the next state come from.                             *)
LEMMA RowSteps ==
    ASSUME TypeOK, Shape, [Next]_vars
    PROVE  /\ Grows
           /\ \A r \in ActionId : rows'[r].status # "absent" =>
                \/ Exists(r)
                \/ \A i \in ActionId : rows'[r].key # ReverseKey(i)
                \/ \E i \in ActionId : ReleaseOf(r, i)
<1> DEFINE Origin(r) == rows'[r].status # "absent" =>
                \/ Exists(r)
                \/ \A i \in ActionId : rows'[r].key # ReverseKey(i)
                \/ \E i \in ActionId : ReleaseOf(r, i)
<1>1. CASE UNCHANGED rows
  <2>1. Grows BY <1>1, UnchangedGrows
  <2>2. ASSUME NEW r \in ActionId PROVE Origin(r)
    BY <1>1 DEF Exists
  <2> QED BY <2>1, <2>2
<1>2. CASE \E f \in FreshIds : Inserted(f)
  <2>1. PICK f \in FreshIds : Inserted(f) BY <1>2
  <2>2. PICK row \in Row :
            /\ \A j \in ActionId : row.key # ReverseKey(j)
            /\ rows' = [rows EXCEPT ![f] = row]
    BY <2>1 DEF Inserted
  <2>3. Grows BY <2>2, InsertGrows
  <2>4. f \in ActionId /\ rows'[f] = row /\ \A j \in ActionId \ {f} : rows'[j] = rows[j]
    BY <2>2 DEF TypeOK, FreshIds
  <2>5. ASSUME NEW r \in ActionId PROVE Origin(r)
    <3>1. CASE r = f BY <2>2, <2>4, <3>1
    <3>2. CASE r # f BY <2>4, <3>2 DEF Exists
    <3> QED BY <3>1, <3>2
  <2> QED BY <2>3, <2>5
<1>3. ASSUME NEW f \in ActionId, Exists(f), NEW status \in {"failed", "cancelled"},
             SettledAs(f, status)
      PROVE  Grows /\ \A r \in ActionId : Origin(r)
  <2>1. Grows /\ \A j \in ActionId \ {f} : rows'[j] = rows[j]
    BY <1>3, SettleGrows DEF SettledAs
  <2>2. ASSUME NEW r \in ActionId PROVE Origin(r)
    BY <1>3, <2>1 DEF Exists
  <2> QED BY <2>1, <2>2
<1>4. ASSUME NEW f \in ActionId, Exists(f), Complete(f)
      PROVE  Grows /\ \A r \in ActionId : Origin(r)
  <2>1. Grows /\ rows'[f].status = "executed"
    BY <1>4, CompleteGrows
  <2>2. CASE \A j \in ActionId \ {f} : rows'[j] = rows[j]
    BY <1>4, <2>1, <2>2 DEF Exists
  <2>3. CASE /\ NeedsReversal(f)
             /\ \E r \in FreshIds :
                  /\ rows'[r] = NewRow(Reversal[rows[f].kind], rows[f].target,
                                       rows[f].duration, 0, ReverseKey(f), TRUE)
                  /\ \A j \in ActionId \ {f, r} : rows'[j] = rows[j]
    <3>1. PICK new \in FreshIds :
                  /\ rows'[new] = NewRow(Reversal[rows[f].kind], rows[f].target,
                                         rows[f].duration, 0, ReverseKey(f), TRUE)
                  /\ \A j \in ActionId \ {f, new} : rows'[j] = rows[j]
      BY <2>3
    <3>2. ReleaseOf(new, f)
      BY <1>4, <2>1, <2>3, <3>1 DEF ReleaseOf, NewRow
    <3>3. ASSUME NEW r \in ActionId PROVE Origin(r)
      <4>1. CASE r = f BY <1>4, <4>1
      <4>2. CASE r = new BY <3>2, <4>2
      <4>3. CASE r # f /\ r # new BY <3>1, <4>3 DEF Exists
      <4> QED BY <4>1, <4>2, <4>3
    <3> QED BY <2>1, <3>3
  <2> QED BY <1>4, <2>2, <2>3, CompleteGrows
<1>5. CASE Moved
  <2>1. Grows BY <1>5 DEF Moved
  <2>2. ASSUME NEW r \in ActionId PROVE Origin(r)
    BY <1>5 DEF Moved, Exists
  <2> QED BY <2>1, <2>2
<1>6. CASE \E f \in ActionId : Exists(f) /\ SettledAs(f, "failed")
  BY <1>3, <1>6
<1>7. CASE \E f \in ActionId : rows[f].status = "pending" /\ SettledAs(f, "cancelled")
  BY <1>3, <1>7 DEF Exists
<1>8. CASE \E f \in ActionId : Exists(f) /\ Accepted(f) /\ Executable(f) /\ Complete(f)
  BY <1>4, <1>8
<1> QED BY <1>1, <1>2, <1>5, <1>6, <1>7, <1>8, TableSteps DEF TableStep

(* What an automatic release and its restriction have to do with each      *)
(* other: the strengthening of ReleaseHasCause that keeps what the release *)
(* undoes.                                                                 *)
ReleaseMatches ==
    \A i, r \in ActionId : IsReversalOf(r, i) =>
        /\ NeedsReversal(i)
        /\ rows[i].status \in {"executed", "failed"}
        /\ rows[r].internal
        /\ rows[r].kind = Reversal[rows[i].kind]
        /\ rows[r].target = rows[i].target

LEMMA ReleaseMatchesStep ==
    ASSUME TypeOK, Shape, ReleaseMatches, [Next]_vars
    PROVE  ReleaseMatches'
<1>1. SUFFICES ASSUME NEW i \in ActionId, NEW r \in ActionId, IsReversalOf(r, i)'
               PROVE  /\ NeedsReversal(i)'
                      /\ rows'[i].status \in {"executed", "failed"}
                      /\ rows'[r].internal
                      /\ rows'[r].kind = Reversal[rows'[i].kind]
                      /\ rows'[r].target = rows'[i].target
    BY DEF ReleaseMatches
<1>2. Grows /\ rows'[r].status # "absent" /\ rows'[r].key = ReverseKey(i)
  BY <1>1, RowSteps DEF IsReversalOf, Exists, ReverseKey
<1>3. ASSUME NEW j \in ActionId, Exists(j), NeedsReversal(j)
      PROVE  NeedsReversal(j)' /\ SameRequest(j)
  BY <1>2, <1>3 DEF Grows, SameRequest, NeedsReversal
<1>4. CASE Exists(r)
  <2>1. SameRequest(r) BY <1>2, <1>4 DEF Grows
  <2>2. IsReversalOf(r, i)
    BY <1>2, <1>4, <2>1 DEF IsReversalOf, SameRequest
  <2>3. /\ NeedsReversal(i)
        /\ rows[i].status \in {"executed", "failed"}
        /\ rows[r].internal
        /\ rows[r].kind = Reversal[rows[i].kind]
        /\ rows[r].target = rows[i].target
    BY <2>2 DEF ReleaseMatches
  <2>4. Exists(i) BY <2>3 DEF Exists
  <2>5. NeedsReversal(i)' /\ SameRequest(i) BY <1>3, <2>3, <2>4
  <2>6. rows'[i].status \in {"executed", "failed"} BY <2>3, StatusSteps
  <2> QED BY <2>1, <2>3, <2>5, <2>6 DEF SameRequest
<1>5. CASE ~Exists(r)
  <2>1. PICK j \in ActionId : ReleaseOf(r, j)
    BY <1>2, <1>5, RowSteps
  <2>2. j = i
    BY <1>2, <2>1 DEF ReleaseOf, ReverseKey
  <2>3. NeedsReversal(i)' /\ SameRequest(i)
    BY <1>3, <2>1, <2>2 DEF ReleaseOf
  <2> QED BY <2>1, <2>2, <2>3 DEF ReleaseOf, SameRequest
<1> QED BY <1>4, <1>5

(* An automatic release exists only for a timed restriction that somebody  *)
(* completed, and only the system wrote it: no client of the API can book  *)
(* its key in advance (create_action, complete_action).                    *)
THEOREM ReleaseHasCauseHolds == Spec => []ReleaseHasCause
<1>1. Init => ReleaseMatches
  BY DEF Init, ReleaseMatches, IsReversalOf, Exists, NoRow
<1>2. TypeOK /\ Shape /\ ReleaseMatches /\ [Next]_vars => ReleaseMatches'
  BY ReleaseMatchesStep
<1>3. ReleaseMatches => ReleaseHasCause
  BY DEF ReleaseMatches, ReleaseHasCause
<1> QED BY <1>1, <1>2, <1>3, TypeCorrect, PTL DEF Spec

(* An executed timed restriction has a row under the key of its release.   *)
ReleaseWritten ==
    \A i \in ActionId : rows[i].status = "executed" /\ NeedsReversal(i) =>
        \E r \in ActionId : IsReversalOf(r, i)

LEMMA ReleaseWrittenStep ==
    ASSUME TypeOK, Shape, ReleaseWritten, [Next]_vars
    PROVE  ReleaseWritten'
<1>1. SUFFICES ASSUME NEW i \in ActionId, rows'[i].status = "executed", NeedsReversal(i)'
               PROVE  \E r \in ActionId : IsReversalOf(r, i)'
    BY DEF ReleaseWritten
<1>2. Grows BY RowSteps
<1>3. ASSUME NEW r \in ActionId, IsReversalOf(r, i) PROVE IsReversalOf(r, i)'
  BY <1>2, <1>3 DEF IsReversalOf, Grows, SameRequest, Exists, ReverseKey
<1>4. rows[i].status = "executed" \/ (Exists(i) /\ Complete(i))
  BY <1>1, StatusSteps
<1>5. Exists(i) BY <1>4 DEF Exists
<1>6. NeedsReversal(i)
  BY <1>1, <1>2, <1>5 DEF Grows, SameRequest, NeedsReversal
<1>7. CASE rows[i].status = "executed"
  BY <1>3, <1>6, <1>7 DEF ReleaseWritten
<1>8. CASE Complete(i) /\ KeyTaken(ReverseKey(i))
  BY <1>3, <1>8 DEF KeyTaken, IsReversalOf
<1>9. CASE Complete(i) /\ ~KeyTaken(ReverseKey(i))
  <2>1. PICK r \in FreshIds :
            rows'[r] = NewRow(Reversal[rows[i].kind], rows[i].target,
                              rows[i].duration, 0, ReverseKey(i), TRUE)
    BY <1>5, <1>6, <1>9, CompleteGrows
  <2>2. rows'[r].status # "absent" /\ rows'[r].key = ReverseKey(i)
    BY <2>1 DEF NewRow
  <2>3. IsReversalOf(r, i)'
    BY <2>2 DEF IsReversalOf, Exists, ReverseKey
  <2> QED BY <2>3 DEF FreshIds
<1> QED BY <1>4, <1>7, <1>8, <1>9

(* A timed restriction recorded as executed has its release in the table,  *)
(* for the same target, whatever crashes (complete_action writes both).    *)
THEOREM TimedRestrictionHasReleaseHolds == Spec => []TimedRestrictionHasRelease
<1>1. Init => ReleaseMatches /\ ReleaseWritten
  BY DEF Init, ReleaseMatches, ReleaseWritten, IsReversalOf, Exists, NoRow
<1>2. TypeOK /\ Shape /\ ReleaseMatches /\ ReleaseWritten /\ [Next]_vars
        => ReleaseMatches' /\ ReleaseWritten'
  BY ReleaseMatchesStep, ReleaseWrittenStep
<1>3. ReleaseMatches /\ ReleaseWritten => TimedRestrictionHasRelease
  BY DEF ReleaseMatches, ReleaseWritten, TimedRestrictionHasRelease
<1> QED BY <1>1, <1>2, <1>3, TypeCorrect, PTL DEF Spec

(***************************************************************************)
(* An action recorded or logged has reached Telegram.  The strengthening   *)
(* says so of everybody who is about to record or to log it.               *)
(***************************************************************************)

HandlersReached ==
    \A h \in Handlers : handler[h].pc = "accepted" => applied[handler[h].id] > 0

WorkersReached ==
    \A w \in Workers : worker[w].pc \in {"record", "log"} => applied[Current(w)] > 0

AppliedMore == \A i \in ActionId : applied[i] > 0 => applied'[i] > 0

LEMMA AcceptedReached ==
    ASSUME HandlersReached, WorkersReached, NEW i \in ActionId, Accepted(i)
    PROVE  applied[i] > 0
BY DEF HandlersReached, WorkersReached, Accepted

LEMMA ApplyReaches ==
    ASSUME TypeOK, NEW i \in ActionId, Apply(i)
    PROVE  AppliedMore /\ applied'[i] > 0
<1>1. applied' = [applied EXCEPT ![i] = Again(applied[i])]
  BY DEF Apply, TypeOK
<1>2. Again(applied[i]) > 0
  BY DEF Again
<1> QED BY <1>1, <1>2 DEF AppliedMore, TypeOK

LEMMA HandlersStayReached ==
    ASSUME TypeOK, Shape, HandlersReached, AppliedMore, handler' = handler
    PROVE  HandlersReached'
<1>1. SUFFICES ASSUME NEW h \in Handlers, handler'[h].pc = "accepted"
               PROVE  applied'[handler'[h].id] > 0
    BY DEF HandlersReached
<1>2. handler[h].id \in ActionId /\ applied[handler[h].id] > 0
  BY <1>1 DEF HandlersReached, Shape
<1> QED BY <1>2 DEF AppliedMore

(* Worker w moves, the others stay where they are.                         *)
LEMMA WorkerMovesReached ==
    ASSUME TypeOK, Shape, WorkersReached, AppliedMore,
           NEW w \in Workers, \A v \in Workers \ {w} : worker'[v] = worker[v],
           worker'[w].pc \in {"record", "log"} => applied'[Current(w)'] > 0
    PROVE  WorkersReached'
<1>1. ASSUME NEW v \in Workers, worker'[v].pc \in {"record", "log"}
      PROVE  applied'[Current(v)'] > 0
  <2>1. CASE v = w
    BY <1>1, <2>1 DEF Current
  <2>2. CASE v # w
    <3>1. worker'[v] = worker[v] /\ worker[v].pc \in Busy
      BY <1>1, <2>2 DEF Busy
    <3>2. Current(v)' = Current(v)
      BY <3>1 DEF Current
    <3>3. Current(v) \in ActionId /\ applied[Current(v)] > 0
      BY <1>1, <3>1, CurrentHeld DEF WorkersReached
    <3> QED BY <3>2, <3>3 DEF AppliedMore
  <2> QED BY <2>1, <2>2
<1> QED BY <1>1 DEF WorkersReached, Current

LEMMA WorkersStayReached ==
    ASSUME TypeOK, Shape, WorkersReached, AppliedMore, worker' = worker
    PROVE  WorkersReached'
<1>1. ASSUME NEW v \in Workers, worker'[v].pc \in {"record", "log"}
      PROVE  applied'[Current(v)'] > 0
  <2>1. worker[v].pc \in Busy /\ Current(v)' = Current(v)
    BY <1>1 DEF Busy, Current
  <2>2. Current(v) \in ActionId /\ applied[Current(v)] > 0
    BY <1>1, <2>1, CurrentHeld DEF WorkersReached
  <2> QED BY <2>1, <2>2 DEF AppliedMore
<1> QED BY <1>1 DEF WorkersReached, Current

Reached ==
    /\ HandlersReached
    /\ WorkersReached
    /\ \A i \in logs : applied[i] > 0

(* A step that applies nothing and adds no entry to the log.               *)
Silent == UNCHANGED <<applied, logs>>

LEMMA SilentReached ==
    ASSUME TypeOK, Reached, Silent
    PROVE  AppliedMore /\ \A i \in logs' : applied'[i] > 0
BY DEF Silent, AppliedMore, Reached

LEMMA WorkerAdvanceReached ==
    ASSUME TypeOK, Shape, Reached, AppliedMore, NEW w \in Workers,
           worker[w].pc \in Busy, Advance(w)
    PROVE  WorkersReached'
<1>1. /\ \A v \in Workers \ {w} : worker'[v] = worker[v]
      /\ worker'[w].pc \in {"idle", "load"}
    BY AdvanceHolds
<1> QED BY <1>1, WorkerMovesReached DEF Reached

(* A worker that stays at its row, and comes to record or to log it only   *)
(* when Telegram has accepted it.                                          *)
LEMMA WorkerGotoReached ==
    ASSUME TypeOK, Shape, Reached, AppliedMore, NEW w \in Workers,
           NEW pc \in WorkerPc, NEW bot, Goto(w, pc, bot),
           pc \in {"record", "log"} => applied'[Current(w)] > 0
    PROVE  WorkersReached'
<1>1. /\ \A v \in Workers \ {w} : worker'[v] = worker[v]
      /\ worker'[w].pc = pc
      /\ worker'[w].batch = worker[w].batch
    BY DEF Goto, TypeOK
<1>2. Current(w)' = Current(w)
    BY <1>1 DEF Current
<1> QED BY <1>1, <1>2, WorkerMovesReached DEF Reached

LEMMA WorkerTriesReached ==
    ASSUME TypeOK, Shape, Reached, AppliedMore, NEW w \in Workers, TryNextBot(w)
    PROVE  WorkersReached'
BY WorkerGotoReached DEF TryNextBot, WorkerPc

LEMMA WorkerEmptiedReached ==
    ASSUME TypeOK, Shape, Reached, AppliedMore, NEW w \in Workers,
           NEW at \in {Resting, Down}, worker' = [worker EXCEPT ![w] = at]
    PROVE  WorkersReached'
<1>1. /\ \A v \in Workers \ {w} : worker'[v] = worker[v]
      /\ worker'[w].pc \in {"idle", "down"}
    BY DEF TypeOK, Resting, Down
<1> QED BY <1>1, WorkerMovesReached DEF Reached

LEMMA HandlerReachedStep ==
    ASSUME TypeOK, Shape, Reached, NEW h \in Handlers, HandlerStep(h)
    PROVE  Reached' /\ AppliedMore
<1>1. CASE HandlerApplied(h)
  <2>1. handler[h].id \in ActionId BY <1>1 DEF HandlerApplied, Shape
  <2>2. AppliedMore /\ applied'[handler[h].id] > 0
    BY <1>1, <2>1, ApplyReaches DEF HandlerApplied
  <2>3. \A i \in logs' : applied'[i] > 0
    BY <1>1, <2>2 DEF HandlerApplied, Reached, AppliedMore, TypeOK
  <2>4. WorkersReached'
    BY <1>1, <2>2, WorkersStayReached DEF HandlerApplied, Reached
  <2>5. ASSUME NEW g \in Handlers, handler'[g].pc = "accepted"
        PROVE  applied'[handler'[g].id] > 0
    <3>1. handler'[g].id = handler[g].id /\ (g # h => handler'[g] = handler[g])
      BY <1>1 DEF HandlerApplied, TypeOK
    <3>2. CASE g = h BY <2>2, <3>1, <3>2
    <3>3. CASE g # h
      BY <2>2, <2>5, <3>1, <3>3 DEF Reached, HandlersReached, AppliedMore, Shape
    <3> QED BY <3>2, <3>3
  <2>6. HandlersReached' BY <2>5 DEF HandlersReached
  <2> QED BY <2>2, <2>3, <2>4, <2>6 DEF Reached
<1>2. CASE HandlerRefused(h) \/ HandlerComplete(h) \/ HandlerFail(h)
  <2>1. Silent /\ worker' = worker
    BY <1>2 DEF HandlerRefused, HandlerComplete, HandlerFail, Silent
  <2>2. AppliedMore /\ \A i \in logs' : applied'[i] > 0
    BY <2>1, SilentReached
  <2>3. WorkersReached'
    BY <2>1, <2>2, WorkersStayReached DEF Reached
  <2>4. ASSUME NEW g \in Handlers, handler'[g].pc = "accepted"
        PROVE  handler'[g] = handler[g]
    BY <1>2, <2>4 DEF HandlerRefused, HandlerComplete, HandlerFail, Idle, TypeOK
  <2>5. HandlersReached'
    BY <2>1, <2>4 DEF Reached, HandlersReached, Silent
  <2> QED BY <2>2, <2>3, <2>5 DEF Reached
<1> QED BY <1>1, <1>2 DEF HandlerStep

LEMMA WorkerReachedStep ==
    ASSUME TypeOK, Shape, Reached, NEW w \in Workers, WorkerStep(w) \/ WorkerCrash(w)
    PROVE  Reached' /\ AppliedMore
<1>1. CASE WorkerApplied(w)
  <2>1. Current(w) \in ActionId BY <1>1, CurrentHeld DEF WorkerApplied, Busy
  <2>2. AppliedMore /\ applied'[Current(w)] > 0
    BY <1>1, <2>1, ApplyReaches DEF WorkerApplied
  <2>3. \A i \in logs' : applied'[i] > 0
    BY <1>1, <2>2 DEF WorkerApplied, Reached, AppliedMore, TypeOK
  <2>4. HandlersReached'
    BY <1>1, <2>2, HandlersStayReached DEF WorkerApplied, Reached
  <2>5. WorkersReached'
    BY <1>1, <2>2, WorkerGotoReached, WorkerTriesReached DEF WorkerApplied, WorkerPc
  <2> QED BY <2>2, <2>3, <2>4, <2>5 DEF Reached
<1>2. CASE WorkerLog(w)
  <2>1. Current(w) \in ActionId /\ applied[Current(w)] > 0
    BY <1>2, CurrentHeld DEF WorkerLog, Busy, Reached, WorkersReached
  <2>2. AppliedMore BY <1>2 DEF WorkerLog, AppliedMore
  <2>3. \A i \in logs' : applied'[i] > 0
    BY <1>2, <2>1 DEF WorkerLog, Reached
  <2>4. HandlersReached'
    BY <1>2, <2>2, HandlersStayReached DEF WorkerLog, Reached
  <2>5. WorkersReached'
    BY <1>2, <2>2, WorkerAdvanceReached DEF WorkerLog, Busy
  <2> QED BY <2>2, <2>3, <2>4, <2>5 DEF Reached
<1>3. CASE \/ WorkerSweep(w) \/ WorkerClaim(w) \/ WorkerLoad(w) \/ WorkerProtected(w)
           \/ WorkerRefused(w) \/ WorkerRecord(w) \/ WorkerRecordRaises(w)
           \/ WorkerFail(w) \/ WorkerCrash(w) \/ WorkerRestart(w)
  <2>1. Silent /\ handler' = handler
    BY <1>3 DEF WorkerSweep, WorkerClaim, WorkerLoad, WorkerProtected, WorkerRefused,
                WorkerRecord, WorkerRecordRaises, WorkerFail, WorkerCrash,
                WorkerRestart, Silent
  <2>2. AppliedMore /\ \A i \in logs' : applied'[i] > 0
    BY <2>1, SilentReached
  <2>3. HandlersReached'
    BY <2>1, <2>2, HandlersStayReached DEF Reached
  <2>4. ASSUME WorkerSweep(w) PROVE WorkersReached'
    BY <2>2, <2>4, WorkerGotoReached DEF WorkerSweep, WorkerPc
  <2>5. ASSUME WorkerClaim(w) PROVE WorkersReached'
    <3>1. /\ \A v \in Workers \ {w} : worker'[v] = worker[v]
          /\ worker'[w].pc \in {"idle", "load"}
      BY <2>5 DEF WorkerClaim, TypeOK, Resting
    <3> QED BY <2>2, <3>1, WorkerMovesReached DEF Reached
  <2>6. ASSUME WorkerLoad(w) PROVE WorkersReached'
    BY <2>2, <2>6, WorkerGotoReached, WorkerAdvanceReached DEF WorkerLoad, WorkerPc, Busy
  <2>7. ASSUME WorkerProtected(w) PROVE WorkersReached'
    BY <2>2, <2>7, WorkerGotoReached DEF WorkerProtected, WorkerPc
  <2>8. ASSUME WorkerRefused(w) PROVE WorkersReached'
    BY <2>2, <2>8, WorkerTriesReached DEF WorkerRefused
  <2>9. ASSUME WorkerRecord(w) PROVE WorkersReached'
    <3>1. applied'[Current(w)] > 0
      BY <2>1, <2>9 DEF WorkerRecord, Reached, WorkersReached, Silent
    <3> QED BY <2>2, <2>9, <3>1, WorkerGotoReached DEF WorkerRecord, WorkerPc
  <2>10. ASSUME WorkerFail(w) PROVE WorkersReached'
    BY <2>2, <2>10, WorkerAdvanceReached DEF WorkerFail, Busy
  <2>11. ASSUME WorkerRecordRaises(w) \/ WorkerCrash(w) \/ WorkerRestart(w) PROVE WorkersReached'
    BY <2>2, <2>11, WorkerEmptiedReached DEF WorkerRecordRaises, WorkerCrash, WorkerRestart
  <2>12. WorkersReached'
    BY <1>3, <2>4, <2>5, <2>6, <2>7, <2>8, <2>9, <2>10, <2>11
  <2> QED BY <2>2, <2>3, <2>12 DEF Reached
<1> QED BY <1>1, <1>2, <1>3 DEF WorkerStep

(* A request leaves Telegram, the log and the workers alone, and occupies  *)
(* one handler at most.                                                    *)
RequestOccupies ==
    \/ handler' = handler
    \/ \E h \in Handlers, i \in FreshIds :
         handler' = [handler EXCEPT ![h] = [pc |-> "calling", id |-> i]]

LEMMA RequestSilent ==
    ASSUME Request
    PROVE  Silent /\ worker' = worker /\ RequestOccupies
<1>1. PICK kind \in RequestKinds, target \in Targets,
           delay \in Delays, duration \in Durations :
        \/ \E h \in Handlers : HandlerRequest(h, kind, target, delay, duration)
        \/ ApiCreate(kind, target, delay, duration)
        \/ \E text \in ClientKeys : ApiCreateWithKey(kind, target, delay, duration, text)
  BY DEF Request
<1>2. ASSUME NEW h \in Handlers, HandlerRequest(h, kind, target, delay, duration)
      PROVE  Silent /\ worker' = worker /\ RequestOccupies
  BY <1>2 DEF HandlerRequest, Silent, RequestOccupies
<1>3. CASE ApiCreate(kind, target, delay, duration)
  BY <1>3 DEF ApiCreate, Silent, RequestOccupies
<1>4. ASSUME NEW text \in ClientKeys, ApiCreateWithKey(kind, target, delay, duration, text)
      PROVE  Silent /\ worker' = worker /\ RequestOccupies
  BY <1>4 DEF ApiCreateWithKey, Silent, RequestOccupies
<1> QED BY <1>1, <1>2, <1>3, <1>4

LEMMA ReachedStep ==
    ASSUME TypeOK, Shape, Reached, [Next]_vars
    PROVE  Reached' /\ AppliedMore
<1>1. CASE \/ Request \/ (\E i \in ActionId : ApiCancel(i))
           \/ BotCrash \/ Tick \/ UNCHANGED vars
  <2>1. Silent /\ worker' = worker
    <3>1. CASE Request
      BY <3>1, RequestSilent
    <3>2. ASSUME NEW i \in ActionId, ApiCancel(i) PROVE Silent /\ worker' = worker
      BY <3>2 DEF ApiCancel, Silent
    <3>3. CASE BotCrash BY <3>3 DEF BotCrash, Silent
    <3>4. CASE Tick BY <3>4 DEF Tick, Silent
    <3>5. CASE UNCHANGED vars BY <3>5 DEF vars, Silent
    <3> QED BY <1>1, <3>1, <3>2, <3>3, <3>4, <3>5
  <2>2. AppliedMore /\ \A i \in logs' : applied'[i] > 0
    BY <2>1, SilentReached
  <2>3. WorkersReached'
    BY <2>1, <2>2, WorkersStayReached DEF Reached
  <2>4. ASSUME NEW g \in Handlers, handler'[g].pc = "accepted"
        PROVE  handler'[g] = handler[g]
    <3>1. CASE Request
      <4>1. RequestOccupies BY <3>1, RequestSilent
      <4> QED BY <2>4, <4>1 DEF RequestOccupies, TypeOK
    <3>2. CASE BotCrash
      BY <2>4, <3>2 DEF BotCrash, Idle
    <3>3. CASE (\E i \in ActionId : ApiCancel(i)) \/ Tick \/ UNCHANGED vars
      BY <3>3 DEF ApiCancel, Tick, vars
    <3> QED BY <1>1, <3>1, <3>2, <3>3
  <2>5. HandlersReached'
    BY <2>1, <2>4 DEF Reached, HandlersReached, Silent
  <2> QED BY <2>2, <2>3, <2>5 DEF Reached
<1> QED BY <1>1, HandlerReachedStep, WorkerReachedStep DEF Next

(* An action is recorded as executed, and logged, only after Telegram has  *)
(* carried it out, whichever executor recorded it (execute_claimed,        *)
(* queue_or_execute, complete_action).                                     *)
THEOREM ExecutedReachedTelegramHolds == Spec => []ExecutedReachedTelegram
<1>1. Init => Reached /\ ExecutedReachedTelegram
  BY DEF Init, Reached, HandlersReached, WorkersReached, ExecutedReachedTelegram,
         NoRow, Idle, Resting
<1>2. TypeOK /\ Shape /\ Reached /\ ExecutedReachedTelegram /\ [Next]_vars
        => Reached' /\ ExecutedReachedTelegram'
  <2>1. SUFFICES ASSUME TypeOK, Shape, Reached, ExecutedReachedTelegram, [Next]_vars
                 PROVE  Reached' /\ ExecutedReachedTelegram'
    OBVIOUS
  <2>2. Reached' /\ AppliedMore BY <2>1, ReachedStep
  <2>3. ASSUME NEW i \in ActionId, rows'[i].status = "executed"
        PROVE  applied'[i] > 0
    <3>1. rows[i].status = "executed" \/ Accepted(i)
      BY <2>1, <2>3, StatusSteps
    <3>2. applied[i] > 0
      BY <2>1, <3>1, AcceptedReached DEF ExecutedReachedTelegram, Reached
    <3> QED BY <2>2, <3>2 DEF AppliedMore
  <2> QED BY <2>2, <2>3 DEF ExecutedReachedTelegram, Reached
<1> QED BY <1>1, <1>2, TypeCorrect, PTL DEF Spec

(***************************************************************************)
(* A cancelled action stays undone.  A row is logged, or has a release,    *)
(* only after it was executed, and neither an executed nor a failed row is *)
(* ever pending again, so that none of them can be cancelled.              *)
(***************************************************************************)

LoggedWereDone ==
    /\ \A i \in logs : rows[i].status \in {"executed", "failed"}
    /\ \A w \in Workers : worker[w].pc = "log" =>
            rows[Current(w)].status \in {"executed", "failed"}

(* Who is about to log a row was so before, or has just completed it.      *)
LEMMA AboutToLog ==
    ASSUME TypeOK, Shape, [Next]_vars, NEW w \in Workers, worker'[w].pc = "log"
    PROVE  /\ Current(w)' = Current(w)
           /\ Current(w) \in ActionId
           /\ \/ worker[w].pc = "log"
              \/ Executable(Current(w)) /\ rows'[Current(w)].status = "executed"
<1>1. CASE worker'[w] = worker[w]
  BY <1>1, CurrentHeld DEF Current, Busy
<1>2. ASSUME NEW v \in Workers, WorkerStep(v) \/ WorkerCrash(v), worker'[w] # worker[w]
      PROVE  WorkerRecord(w)
  <2>1. CASE \E pc \in WorkerPc \ {"log"}, bot \in Int : Goto(v, pc, bot)
    BY <1>2, <2>1 DEF Goto, TypeOK
  <2>2. CASE worker[v].pc \in Busy /\ Advance(v)
    BY <1>2, <2>2, AdvanceHolds
  <2>3. CASE \E x \in {Down, Resting} : worker' = [worker EXCEPT ![v] = x]
    BY <1>2, <2>3 DEF Down, Resting, TypeOK
  <2>4. CASE WorkerSweep(v) \/ WorkerProtected(v)
    BY <2>1, <2>4 DEF WorkerSweep, WorkerProtected, WorkerPc
  <2>5. CASE WorkerClaim(v)
    BY <1>2, <2>5 DEF WorkerClaim, Resting, TypeOK
  <2>6. CASE WorkerLoad(v)
    BY <2>1, <2>2, <2>6 DEF WorkerLoad, WorkerPc, Busy
  <2>7. CASE TryNextBot(v)
    <3>1. worker[v].bot + 1 \in Int
      BY DEF TypeOK
    <3> QED BY <2>1, <2>7, <3>1 DEF TryNextBot, WorkerPc
  <2>8. CASE WorkerApplied(v) \/ WorkerRefused(v)
    BY <2>1, <2>7, <2>8 DEF WorkerApplied, WorkerRefused, WorkerPc
  <2>9. CASE WorkerRecord(v)
    <3>1. \A u \in Workers \ {v} : worker'[u] = worker[u]
      BY <2>9 DEF WorkerRecord, Goto
    <3> QED BY <1>2, <2>9, <3>1
  <2>10. CASE WorkerRecordRaises(v) \/ WorkerCrash(v) \/ WorkerRestart(v)
    BY <2>3, <2>10 DEF WorkerRecordRaises, WorkerCrash, WorkerRestart
  <2>11. CASE WorkerLog(v) \/ WorkerFail(v)
    BY <2>2, <2>11 DEF WorkerLog, WorkerFail, Busy
  <2> QED BY <1>2, <2>4, <2>5, <2>6, <2>8, <2>9, <2>10, <2>11 DEF WorkerStep
<1>3. CASE WorkerRecord(w)
  <2>1. Current(w) \in ActionId /\ Exists(Current(w))
    BY <1>3, CurrentHeld DEF WorkerRecord, Busy
  <2>2. Executable(Current(w)) /\ rows'[Current(w)].status = "executed"
    BY <1>3, <2>1, CompleteGrows DEF WorkerRecord
  <2>3. Current(w)' = Current(w)
    BY <1>3 DEF WorkerRecord, Goto, Current, TypeOK
  <2> QED BY <2>1, <2>2, <2>3
<1>4. CASE \A v \in Workers : ~(WorkerStep(v) \/ WorkerCrash(v))
  <2>1. worker' = worker
    BY <1>4, RequestSilent DEF Next, ApiCancel, BotCrash, Tick, vars, HandlerStep,
        HandlerApplied, HandlerRefused, HandlerComplete, HandlerFail
  <2> QED BY <1>1, <2>1
<1> QED BY <1>1, <1>2, <1>3, <1>4

(* The log gains only what a worker was about to log.                      *)
LEMMA LogSteps ==
    ASSUME [Next]_vars, NEW i \in logs'
    PROVE  i \in logs \/ \E w \in Workers : worker[w].pc = "log" /\ Current(w) = i
<1>1. ASSUME NEW w \in Workers, WorkerStep(w) \/ WorkerCrash(w)
      PROVE  i \in logs \/ (worker[w].pc = "log" /\ Current(w) = i)
  BY <1>1 DEF WorkerStep, WorkerSweep, WorkerClaim, WorkerLoad, WorkerProtected,
      WorkerApplied, WorkerRefused, WorkerRecord, WorkerRecordRaises, WorkerLog,
      WorkerFail, WorkerCrash, WorkerRestart
<1>2. CASE Request
  BY <1>2, RequestSilent DEF Silent
<1>3. CASE \/ (\E j \in ActionId : ApiCancel(j)) \/ (\E h \in Handlers : HandlerStep(h))
           \/ BotCrash \/ Tick \/ UNCHANGED vars
  BY <1>3 DEF ApiCancel, BotCrash, Tick, vars, HandlerStep, HandlerApplied,
      HandlerRefused, HandlerComplete, HandlerFail
<1> QED BY <1>1, <1>2, <1>3 DEF Next

LEMMA LoggedWereDoneStep ==
    ASSUME TypeOK, Shape, LoggedWereDone, [Next]_vars
    PROVE  LoggedWereDone'
<1>1. ASSUME NEW i \in ActionId, rows[i].status \in {"executed", "failed"}
      PROVE  rows'[i].status \in {"executed", "failed"}
  BY <1>1, StatusSteps
<1>2. ASSUME NEW w \in Workers, worker'[w].pc = "log"
      PROVE  rows'[Current(w)'].status \in {"executed", "failed"}
  BY <1>1, <1>2, AboutToLog DEF LoggedWereDone
<1>3. ASSUME NEW i \in logs' PROVE rows'[i].status \in {"executed", "failed"}
  <2>1. CASE i \in logs
    BY <1>1, <2>1 DEF LoggedWereDone, TypeOK
  <2>2. ASSUME NEW w \in Workers, worker[w].pc = "log", Current(w) = i
        PROVE  rows'[i].status \in {"executed", "failed"}
    <3>1. i \in ActionId
      BY <2>2, CurrentHeld DEF Busy
    <3> QED BY <1>1, <2>2, <3>1 DEF LoggedWereDone
  <2> QED BY <1>3, <2>1, <2>2, LogSteps
<1> QED BY <1>2, <1>3 DEF LoggedWereDone

LEMMA CancelledIsWithdrawn ==
    ASSUME LoggedWereDone, ReleaseMatches, NEW i \in ActionId, rows[i].status = "cancelled"
    PROVE  Withdrawn(i)
BY DEF LoggedWereDone, ReleaseMatches, Withdrawn

LEMMA WithdrawnStays ==
    ASSUME TypeOK, Shape, [Next]_vars, NEW i \in ActionId, Withdrawn(i)
    PROVE  Withdrawn(i)'
<1>1. rows'[i].status \in {"cancelled", "failed"}
  <2>1. ~Executable(i) /\ rows[i].status # "executed"
    BY DEF Withdrawn, Executable
  <2>2. rows'[i].status # "executed"
    BY <2>1, StatusSteps
  <2> QED BY <2>2, StatusSteps DEF Withdrawn
<1>2. i \notin logs'
  BY LogSteps DEF Withdrawn
<1>3. \A w \in Workers : worker'[w].pc = "log" => Current(w)' # i
  BY AboutToLog DEF Withdrawn, Executable
<1>4. ASSUME NEW r \in ActionId, IsReversalOf(r, i)' PROVE FALSE
  <2>1. Grows /\ rows'[r].status # "absent" /\ rows'[r].key = ReverseKey(i)
    BY <1>4, RowSteps DEF IsReversalOf, Exists, ReverseKey
  <2>2. CASE Exists(r)
    BY <2>1, <2>2 DEF Grows, SameRequest, IsReversalOf, Withdrawn
  <2>3. CASE ~Exists(r)
    <3>1. PICK j \in ActionId : ReleaseOf(r, j)
      BY <2>1, <2>3, RowSteps
    <3>2. j = i
      BY <2>1, <3>1 DEF ReleaseOf, ReverseKey
    <3> QED BY <1>1, <3>1, <3>2 DEF ReleaseOf
  <2> QED BY <2>2, <2>3
<1> QED BY <1>1, <1>2, <1>3, <1>4 DEF Withdrawn

LEMMA DoneInv == Spec => [](TypeOK /\ Shape /\ LoggedWereDone /\ ReleaseMatches)
<1>1. Init => LoggedWereDone /\ ReleaseMatches
  BY DEF Init, LoggedWereDone, Resting, ReleaseMatches, IsReversalOf, Exists, NoRow
<1>2. TypeOK /\ Shape /\ LoggedWereDone /\ ReleaseMatches /\ [Next]_vars
        => LoggedWereDone' /\ ReleaseMatches'
  BY LoggedWereDoneStep, ReleaseMatchesStep
<1> QED BY <1>1, <1>2, TypeCorrect, PTL DEF Spec

(* A step never leads from a cancelled row, or one that was, to a row that *)
(* is executed, logged or has a release (complete_action, cancel_action,   *)
(* queue_or_execute, execute_claimed).                                     *)
THEOREM CancellationHolds == Spec => CancelledStaysUndone
<1>1. TypeOK /\ Shape /\ LoggedWereDone /\ ReleaseMatches /\ [Next]_vars =>
        [\A i \in ActionId : rows[i].status = "cancelled" \/ Withdrawn(i) => Withdrawn(i)']_vars
  BY CancelledIsWithdrawn, WithdrawnStays
<1> QED BY <1>1, DoneInv, PTL DEF Spec, CancelledStaysUndone

(* So a cancelled action is undone ever after, however long the execution  *)
(* goes on and whatever is saved over the row (cancel_action).             *)
THEOREM CancelledForGood ==
    ASSUME NEW i \in ActionId
    PROVE  Spec => [](rows[i].status = "cancelled" => [](Withdrawn(i)))
<1>1. TypeOK /\ Shape /\ LoggedWereDone /\ ReleaseMatches =>
        (rows[i].status = "cancelled" => Withdrawn(i))
  BY CancelledIsWithdrawn
<1>2. TypeOK /\ Shape /\ [Next]_vars => (Withdrawn(i) => Withdrawn(i)')
  BY WithdrawnStays
<1> QED BY <1>1, <1>2, DoneInv, PTL DEF Spec

===============================================================================
