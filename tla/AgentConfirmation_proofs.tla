------------------------ MODULE AgentConfirmation_proofs ------------------------
(***************************************************************************)
(* A confirmed operation is started at most once, for any number of        *)
(* confirmations and of concurrent callbacks, and AgentConfirmation        *)
(* implements SingleUse.                                                   *)
(***************************************************************************)
EXTENDS AgentConfirmation, TLAPS

(***************************************************************************)
(* The inductive invariant.  A callback holds at most the row it claimed,  *)
(* which has left the statuses from which a row can be claimed or          *)
(* cancelled (Claimed), nobody else holds that row (OneHolder), and until  *)
(* it has passed the handler the operation has not been started (Order).   *)
(***************************************************************************)

Open == {"absent", "pending", "cancelled"}

Claimed ==
    /\ \A k \in Callbacks : \A c \in callback[k].of : status[c] \notin Open
    /\ \A c \in stuck : status[c] \notin Open

OneHolder ==
    /\ \A k, l \in Callbacks : \A c \in Confirmations :
        c \in callback[k].of /\ c \in callback[l].of => k = l
    /\ \A k \in Callbacks : \A c, d \in callback[k].of : c = d

Order ==
    /\ \A c \in Confirmations : status[c] \in Open => runs[c] = 0
    /\ \A k \in Callbacks : \A c \in callback[k].of :
        /\ callback[k].pc \in {"check", "target", "handler"} => runs[c] = 0
        /\ callback[k].pc = "mark" => runs[c] = 1

Inv ==
    /\ TypeOK
    /\ Claimed
    /\ OneHolder
    /\ Order
    /\ AtMostOnce
    /\ ExecutedWasRun

LEMMA InitInv == Init => Inv
<1> SUFFICES ASSUME Init PROVE Inv
  OBVIOUS
<1>1. TypeOK
  BY ConfirmationAssumption DEF Init, TypeOK, Status, Seen, CallbackPc, Idle
<1>2. Claimed /\ OneHolder /\ Order
  BY DEF Init, Claimed, OneHolder, Order, Idle, Open
<1>3. AtMostOnce /\ ExecutedWasRun
  BY DEF Init, AtMostOnce, ExecutedWasRun
<1> QED BY <1>1, <1>2, <1>3 DEF Inv

(* A callback that only moves to another point before or after its handler.*)
LEMMA GoInv ==
    ASSUME Inv, NEW k \in Callbacks, NEW pc \in CallbackPc, Go(k, pc),
           UNCHANGED <<row, stuck, runs>>,
           isAdmin' \in BOOLEAN, UNCHANGED <<wasAdmin, crashes, demotions>>,
           \/ /\ callback[k].pc \in {"check", "target"}
              /\ pc \in {"target", "handler", "failing"}
           \/ pc = "failing"
    PROVE  Inv'
<1>1. /\ callback' \in [Callbacks -> [pc: CallbackPc, of: SUBSET Confirmations, seen: Seen]]
      /\ callback'[k].of = callback[k].of
      /\ callback'[k].pc = pc
      /\ \A l \in Callbacks \ {k} : callback'[l] = callback[l]
  BY DEF Go, Inv, TypeOK
<1>2. \A l \in Callbacks : callback'[l].of = callback[l].of
  BY <1>1
<1>3. TypeOK'
  BY <1>1 DEF Inv, TypeOK, row
<1>4. Claimed' /\ OneHolder'
  BY <1>2 DEF Inv, Claimed, OneHolder, row
<1>5. Order'
  BY <1>1, <1>2 DEF Inv, Order, row
<1>6. AtMostOnce' /\ ExecutedWasRun'
  BY DEF Inv, AtMostOnce, ExecutedWasRun, row
<1> QED BY <1>3, <1>4, <1>5, <1>6 DEF Inv

(* A callback that comes to rest; its row may be settled on the way.       *)
LEMMA RestInv ==
    ASSUME Inv, NEW k \in Callbacks, NEW c \in Confirmations, c \in callback[k].of,
           callback' = [callback EXCEPT ![k] = Idle],
           \/ UNCHANGED row
           \/ SetStatus(c, "failed")
           \/ SetStatus(c, "executed") /\ runs[c] > 0,
           UNCHANGED <<stuck, isAdmin, runs, wasAdmin, crashes, demotions>>
    PROVE  Inv'
<1>1. /\ callback' \in [Callbacks -> [pc: CallbackPc, of: SUBSET Confirmations, seen: Seen]]
      /\ callback'[k].of = {}
      /\ \A l \in Callbacks \ {k} : callback'[l] = callback[l]
  BY DEF Idle, CallbackPc, Seen, Inv, TypeOK
<1>2. /\ status' \in [Confirmations -> Status]
      /\ left' = left /\ age' = age
      /\ \A d \in Confirmations \ {c} : status'[d] = status[d]
      /\ status'[c] = "executed" => status[c] = "executed" \/ runs[c] > 0
      /\ status[c] \notin Open /\ status'[c] \notin Open
  BY DEF SetStatus, row, Inv, TypeOK, Status, Claimed, Open
<1>3. TypeOK'
  BY <1>1, <1>2 DEF Inv, TypeOK
<1>4. Claimed'
  BY <1>1, <1>2 DEF Inv, Claimed, TypeOK
<1>5. OneHolder'
  BY <1>1 DEF Inv, OneHolder
<1>6. Order'
  BY <1>1, <1>2 DEF Inv, Order
<1>7. AtMostOnce' /\ ExecutedWasRun'
  BY <1>2 DEF Inv, AtMostOnce, ExecutedWasRun
<1> QED BY <1>3, <1>4, <1>5, <1>6, <1>7 DEF Inv

LEMMA ClaimInv ==
    ASSUME Inv, NEW k \in Callbacks, NEW c \in Confirmations, Claim(k, c)
    PROVE  Inv'
<1>1. /\ callback' \in [Callbacks -> [pc: CallbackPc, of: SUBSET Confirmations, seen: Seen]]
      /\ callback'[k] = At("check", c, "executing")
      /\ \A l \in Callbacks \ {k} : callback'[l] = callback[l]
  BY DEF Claim, At, CallbackPc, Seen, Inv, TypeOK
<1>2. /\ status' \in [Confirmations -> Status]
      /\ status[c] = "pending"
      /\ status'[c] = "executing"
      /\ \A d \in Confirmations \ {c} : status'[d] = status[d]
      /\ UNCHANGED <<left, age, runs, stuck, crashes, demotions, isAdmin>>
      /\ wasAdmin' \in [Confirmations -> BOOLEAN]
  BY DEF Claim, SetStatus, Inv, TypeOK, Status
<1>3. \A l \in Callbacks : c \notin callback[l].of
  BY <1>2 DEF Inv, Claimed, Open
<1>4. c \notin stuck /\ runs[c] = 0
  BY <1>2 DEF Inv, Claimed, Order, Open
<1>5. TypeOK'
  BY <1>1, <1>2 DEF Inv, TypeOK
<1>6. Claimed'
  BY <1>1, <1>2 DEF Inv, Claimed, At, Open, TypeOK
<1>7. OneHolder'
  BY <1>1, <1>3 DEF Inv, OneHolder, At
<1>8. Order'
  BY <1>1, <1>2, <1>4 DEF Inv, Order, At, Open
<1>9. AtMostOnce' /\ ExecutedWasRun'
  BY <1>2 DEF Inv, AtMostOnce, ExecutedWasRun
<1> QED BY <1>5, <1>6, <1>7, <1>8, <1>9 DEF Inv

LEMMA HandleInv ==
    ASSUME Inv, NEW k \in Callbacks, NEW c \in Confirmations, Handle(k, c)
    PROVE  Inv' /\ runs[c] = 0
<1>1. PICK pc \in {"mark", "failing"} : Go(k, pc)
  BY DEF Handle
<1>2. callback[k].pc = "handler" /\ c \in callback[k].of
  BY DEF Handle, Holds
<1>3. runs[c] = 0 /\ status[c] \notin Open
  BY <1>2 DEF Inv, Order, Claimed
<1>4. /\ runs' \in [Confirmations -> Nat]
      /\ runs'[c] = 1
      /\ \A d \in Confirmations \ {c} : runs'[d] = runs[d]
      /\ UNCHANGED <<status, left, age, stuck, isAdmin, wasAdmin, crashes, demotions>>
  BY <1>3 DEF Handle, row, Inv, TypeOK
<1>5. /\ callback' \in [Callbacks -> [pc: CallbackPc, of: SUBSET Confirmations, seen: Seen]]
      /\ callback'[k].of = callback[k].of
      /\ callback'[k].pc = pc
      /\ \A l \in Callbacks \ {k} : callback'[l] = callback[l]
  BY <1>1 DEF Go, CallbackPc, Inv, TypeOK
<1>6. TypeOK'
  BY <1>4, <1>5 DEF Inv, TypeOK
<1>7. Claimed' /\ OneHolder'
  <2>1. \A l \in Callbacks : callback'[l].of = callback[l].of
    BY <1>5
  <2> QED BY <1>4, <2>1 DEF Inv, Claimed, OneHolder
<1>8. \A d \in callback[k].of : d = c
  BY <1>2 DEF Inv, OneHolder
<1>9. Order'
  <2>1. ASSUME NEW l \in Callbacks \ {k}, NEW d \in callback[l].of PROVE d # c
    BY <1>2, <2>1 DEF Inv, OneHolder, TypeOK
  <2> QED BY <1>2, <1>3, <1>4, <1>5, <1>8, <2>1 DEF Inv, Order
<1>10. AtMostOnce' /\ ExecutedWasRun'
  <2>1. ASSUME NEW d \in Confirmations
        PROVE  runs'[d] <= 1 /\ (status'[d] = "executed" => runs'[d] > 0)
    <3>1. CASE d = c
      BY <1>4, <3>1
    <3>2. CASE d # c
      BY <1>4, <3>2 DEF Inv, AtMostOnce, ExecutedWasRun
    <3> QED BY <3>1, <3>2
  <2> QED BY <2>1 DEF AtMostOnce, ExecutedWasRun
<1> QED BY <1>3, <1>6, <1>7, <1>9, <1>10 DEF Inv

LEMMA CallbackInv ==
    ASSUME Inv, NEW k \in Callbacks, NEW c \in Confirmations, CallbackStep(k, c)
    PROVE  Inv'
<1>1. CASE Claim(k, c)
  BY <1>1, ClaimInv
<1>2. CASE Check(k, c)
  BY <1>2, GoInv DEF Check, Holds, CallbackPc, Inv, TypeOK
<1>3. CASE CheckTarget(k, c)
  BY <1>3, GoInv DEF CheckTarget, Holds, CallbackPc, Inv, TypeOK
<1>4. CASE Refuse(k, c)
  BY <1>4, GoInv DEF Refuse, Holds, CallbackPc, Inv, TypeOK
<1>5. CASE Handle(k, c)
  BY <1>5, HandleInv
<1>6. CASE Mark(k, c)
  <2>1. c \in callback[k].of /\ runs[c] = 1
    BY <1>6 DEF Mark, Holds, Inv, Order
  <2>2. CASE SetStatus(c, "executed") /\ callback' = [callback EXCEPT ![k] = Idle]
    <3>1. runs[c] > 0
      BY <2>1
    <3> QED BY <1>6, <2>1, <2>2, <3>1, RestInv DEF Mark
  <2>3. CASE UNCHANGED row /\ callback' = [callback EXCEPT ![k] = At("failing", c, "executed")]
    <3>1. /\ callback' \in [Callbacks -> [pc: CallbackPc, of: SUBSET Confirmations, seen: Seen]]
          /\ callback'[k] = At("failing", c, "executed")
          /\ \A l \in Callbacks \ {k} : callback'[l] = callback[l]
      BY <2>3 DEF At, CallbackPc, Seen, Inv, TypeOK
    <3>2. callback'[k].of = callback[k].of
      BY <2>1, <3>1 DEF At, Inv, OneHolder
    <3>3. \A l \in Callbacks : callback'[l].of = callback[l].of
      BY <3>1, <3>2
    <3>4. UNCHANGED <<status, left, age, stuck, isAdmin, runs, wasAdmin, crashes, demotions>>
      BY <1>6, <2>3 DEF Mark, row
    <3>5. TypeOK' BY <3>1, <3>4 DEF Inv, TypeOK
    <3>6. Claimed' /\ OneHolder' BY <3>3, <3>4 DEF Inv, Claimed, OneHolder
    <3>7. Order' BY <3>1, <3>3, <3>4 DEF Inv, Order, At
    <3>8. AtMostOnce' /\ ExecutedWasRun' BY <3>4 DEF Inv, AtMostOnce, ExecutedWasRun
    <3> QED BY <3>5, <3>6, <3>7, <3>8 DEF Inv
  <2> QED BY <1>6, <2>2, <2>3 DEF Mark
<1>7. CASE MarkFailed(k, c)
  BY <1>7, RestInv DEF MarkFailed, Holds
<1> QED BY <1>1, <1>2, <1>3, <1>4, <1>5, <1>6, <1>7 DEF CallbackStep

(* The steps that leave callbacks, runs and rights alone, and move the     *)
(* status of some rows out of Open, to "failed" or between open statuses.  *)
LEMMA TableInv ==
    ASSUME Inv,
           status' \in [Confirmations -> Status],
           left' \in [Confirmations -> 0 .. TTL],
           age' \in [Confirmations -> 0 .. StuckAfter],
           stuck' \subseteq Confirmations,
           \A c \in Confirmations :
              \/ status'[c] = status[c]
              \/ status[c] \in Open /\ status'[c] \in Open /\ \A k \in Callbacks : c \notin callback[k].of
              \/ status[c] \notin Open /\ status'[c] = "failed",
           \A c \in stuck' : status'[c] \notin Open,
           UNCHANGED <<callback, isAdmin, runs, wasAdmin, crashes, demotions>>
    PROVE  Inv'
<1>1. TypeOK'
  BY DEF Inv, TypeOK
<1>2. \A k \in Callbacks : callback[k].of \subseteq Confirmations
  BY DEF Inv, TypeOK
<1>3. Claimed'
  BY <1>2 DEF Inv, Claimed, Open
<1>4. OneHolder'
  BY DEF Inv, OneHolder
<1>5. Order'
  BY <1>2 DEF Inv, Order, Open
<1>6. AtMostOnce' /\ ExecutedWasRun'
  BY DEF Inv, AtMostOnce, ExecutedWasRun, Open
<1> QED BY <1>1, <1>3, <1>4, <1>5, <1>6 DEF Inv

LEMMA StepInv ==
    ASSUME Inv, [Next]_vars
    PROVE  Inv'
<1>0. /\ status \in [Confirmations -> Status]
      /\ left \in [Confirmations -> 0 .. TTL]
      /\ age \in [Confirmations -> 0 .. StuckAfter]
      /\ stuck \subseteq Confirmations
      /\ \A k \in Callbacks : callback[k].of \subseteq Confirmations
      /\ \A c \in stuck : status[c] \notin Open
      /\ \A k \in Callbacks : \A c \in callback[k].of : status[c] \notin Open
  BY DEF Inv, TypeOK, Claimed
<1>1. ASSUME NEW c \in Confirmations, Create(c) PROVE Inv'
  <2>1. /\ status' \in [Confirmations -> Status]
        /\ left' \in [Confirmations -> 0 .. TTL]
        /\ status[c] \in Open /\ status'[c] \in Open
        /\ \A d \in Confirmations \ {c} : status'[d] = status[d]
    BY <1>0, <1>1, ConfirmationAssumption DEF Create, Status, Open
  <2> QED BY <1>0, <1>1, <2>1, TableInv DEF Create
<1>2. ASSUME NEW c \in Confirmations, Cancel(c) PROVE Inv'
  <2>1. /\ status' \in [Confirmations -> Status]
        /\ status[c] \in Open /\ status'[c] \in Open
        /\ \A d \in Confirmations \ {c} : status'[d] = status[d]
    BY <1>0, <1>2 DEF Cancel, SetStatus, Status, Open
  <2> QED BY <1>0, <1>2, <2>1, TableInv DEF Cancel, SetStatus
<1>3. ASSUME NEW k \in Callbacks, NEW c \in Confirmations, CallbackStep(k, c) PROVE Inv'
  BY <1>3, CallbackInv
<1>4. CASE BotCrash
  <2>1. callback' \in [Callbacks -> [pc: CallbackPc, of: SUBSET Confirmations, seen: Seen]]
    BY <1>4 DEF BotCrash, Idle, CallbackPc, Seen
  <2>2. \A k \in Callbacks : callback'[k].of = {}
    BY <1>4 DEF BotCrash, Idle
  <2>3. crashes' \in 0 .. MaxCrashes
    BY <1>4, ConfirmationAssumption DEF BotCrash, Inv, TypeOK
  <2>4. UNCHANGED <<status, left, age, stuck, isAdmin, runs, wasAdmin, demotions>>
    BY <1>4 DEF BotCrash, row
  <2>5. TypeOK' BY <2>1, <2>3, <2>4 DEF Inv, TypeOK
  <2>6. Claimed' /\ OneHolder' /\ Order'
    BY <2>2, <2>4 DEF Inv, Claimed, OneHolder, Order
  <2> QED BY <2>4, <2>5, <2>6 DEF Inv, AtMostOnce, ExecutedWasRun
<1>5. CASE RecoverList
  <2>1. \A c \in stuck' : c \in Confirmations /\ status[c] \notin Open
    BY <1>5 DEF RecoverList, Open
  <2> QED BY <1>0, <1>5, <2>1, TableInv DEF RecoverList, row
<1>6. CASE RecoverUpdate
  <2>1. status' \in [Confirmations -> Status]
    BY <1>0, <1>6 DEF RecoverUpdate, Status
  <2>2. \A c \in Confirmations :
            \/ status'[c] = status[c]
            \/ status[c] \notin Open /\ status'[c] = "failed"
    BY <1>0, <1>6 DEF RecoverUpdate
  <2> QED BY <1>0, <1>6, <2>1, <2>2, TableInv DEF RecoverUpdate
<1>7. CASE Tick
  <2>1. /\ left' \in [Confirmations -> 0 .. TTL]
        /\ age' \in [Confirmations -> 0 .. StuckAfter]
    BY <1>0, <1>7, ConfirmationAssumption DEF Tick
  <2> QED BY <1>0, <1>7, <2>1, TableInv DEF Tick
<1>8. CASE Demote \/ Promote
  <2>1. UNCHANGED <<status, left, age, callback, stuck, runs, crashes>>
    BY <1>8 DEF Demote, Promote, row
  <2>2. /\ isAdmin' \in BOOLEAN
        /\ wasAdmin' \in [Confirmations -> BOOLEAN]
    BY <1>8 DEF Demote, Promote, Inv, TypeOK
  <2>4. demotions' \in 0 .. MaxDemotions
    BY <1>8, ConfirmationAssumption DEF Demote, Promote, Inv, TypeOK
  <2>3. TypeOK' BY <2>1, <2>2, <2>4 DEF Inv, TypeOK
  <2> QED BY <2>1, <2>3 DEF Inv, Claimed, OneHolder, Order, AtMostOnce, ExecutedWasRun
<1>9. CASE UNCHANGED vars
  BY <1>9 DEF vars, row, Inv, TypeOK, Claimed, OneHolder, Order, AtMostOnce, ExecutedWasRun
<1> QED BY <1>1, <1>2, <1>3, <1>4, <1>5, <1>6, <1>7, <1>8, <1>9 DEF Next

LEMMA Invariance == Spec => []Inv
<1>1. Inv /\ [Next]_vars => Inv'
  BY StepInv
<1> QED BY <1>1, InitInv, PTL DEF Spec

(* Every variable keeps its type. *)
THEOREM TypeCorrect == Spec => []TypeOK
<1>1. Inv => TypeOK BY DEF Inv
<1> QED BY <1>1, Invariance, PTL

(* However many callbacks race for a confirmation, through crashes and     *)
(* recoveries, its operation is started at most once.                      *)
THEOREM StartedAtMostOnce == Spec => []AtMostOnce
<1>1. Inv => AtMostOnce BY DEF Inv
<1> QED BY <1>1, Invariance, PTL

(* A row that says "executed" stands for an operation that was started.    *)
THEOREM ExecutedOperationsRan == Spec => []ExecutedWasRun
<1>1. Inv => ExecutedWasRun BY DEF Inv
<1> QED BY <1>1, Invariance, PTL

(* An accepted cancellation is final: no callback holds the row, and its   *)
(* operation is never started.                                             *)
THEOREM CancellationHolds == Spec => []CancelledNeverRuns
<1>1. Inv => CancelledNeverRuns
  BY DEF Inv, Claimed, Order, Open, CancelledNeverRuns
<1> QED BY <1>1, Invariance, PTL

(***************************************************************************)
(* The requester's rights.  A callback past the check has seen them held   *)
(* since the claim, and one that finds them held now may say so.           *)
(***************************************************************************)

Rights ==
    /\ \A k \in Callbacks : \A c \in callback[k].of :
        /\ isAdmin => wasAdmin[c]
        /\ callback[k].pc \in {"target", "handler"} => wasAdmin[c]
    /\ DemotedNeverRuns

LEMMA StepRights ==
    ASSUME Inv, Rights, [Next]_vars
    PROVE  Rights'
<1>0. /\ \A k \in Callbacks : callback[k].of \subseteq Confirmations
      /\ callback \in [Callbacks -> [pc: CallbackPc, of: SUBSET Confirmations, seen: Seen]]
      /\ wasAdmin \in [Confirmations -> BOOLEAN]
  BY DEF Inv, TypeOK
<1>1. ASSUME NEW c \in Confirmations, Create(c) \/ Cancel(c) PROVE Rights'
  BY <1>1 DEF Create, Cancel, Rights, DemotedNeverRuns
<1>2. ASSUME NEW k \in Callbacks, NEW c \in Confirmations, CallbackStep(k, c) PROVE Rights'
  <2>1. CASE Claim(k, c)
    <3>1. /\ callback'[k] = At("check", c, "executing")
          /\ \A l \in Callbacks \ {k} : callback'[l] = callback[l]
          /\ wasAdmin'[c] = isAdmin
          /\ \A d \in Confirmations \ {c} : wasAdmin'[d] = wasAdmin[d]
          /\ isAdmin' = isAdmin /\ runs' = runs
      BY <1>0, <2>1 DEF Claim
    <3>2. status[c] = "pending"
      BY <2>1 DEF Claim
    <3>3. runs[c] = 0 /\ \A l \in Callbacks : c \notin callback[l].of
      BY <3>2 DEF Inv, Order, Claimed, Open
    <3>4. \A l \in Callbacks : \A d \in callback'[l].of :
            /\ isAdmin' => wasAdmin'[d]
            /\ callback'[l].pc \in {"target", "handler"} => wasAdmin'[d]
      BY <1>0, <3>1, <3>3 DEF Rights, At
    <3>5. \A d \in Confirmations : runs'[d] > 0 => wasAdmin'[d]
      BY <3>1, <3>3 DEF Rights, DemotedNeverRuns
    <3> QED BY <3>4, <3>5 DEF Rights, DemotedNeverRuns
  <2>2. CASE Check(k, c)
    BY <1>0, <2>2 DEF Check, Holds, Go, Rights, DemotedNeverRuns
  <2>3. CASE CheckTarget(k, c) \/ Refuse(k, c)
    BY <1>0, <2>3 DEF CheckTarget, Refuse, Holds, Go, Rights, DemotedNeverRuns
  <2>4. CASE Handle(k, c)
    <3>1. wasAdmin[c]
      BY <2>4 DEF Handle, Holds, Rights
    <3>2. \A d \in Confirmations \ {c} : runs'[d] = runs[d]
      BY <2>4 DEF Handle, Inv, TypeOK
    <3>3. DemotedNeverRuns'
      BY <2>4, <3>1, <3>2 DEF Handle, Rights, DemotedNeverRuns
    <3>4. PICK pc \in {"mark", "failing"} : Go(k, pc)
      BY <2>4 DEF Handle
    <3>5. \A l \in Callbacks : \A d \in callback'[l].of :
            /\ d \in callback[l].of
            /\ callback'[l].pc \in {"target", "handler"} => callback[l].pc \in {"target", "handler"}
      BY <1>0, <3>4 DEF Go
    <3> QED BY <2>4, <3>3, <3>5 DEF Handle, Rights
  <2>5. CASE Mark(k, c) \/ MarkFailed(k, c)
    <3>1. \A l \in Callbacks : \A d \in callback'[l].of :
            /\ d \in callback[l].of
            /\ callback'[l].pc \in {"target", "handler"} => callback[l].pc \in {"target", "handler"}
      BY <1>0, <2>5 DEF Mark, MarkFailed, Holds, Idle, At
    <3> QED BY <2>5, <3>1 DEF Mark, MarkFailed, Rights, DemotedNeverRuns
  <2> QED BY <1>2, <2>1, <2>2, <2>3, <2>4, <2>5 DEF CallbackStep
<1>3. CASE BotCrash
  BY <1>3 DEF BotCrash, Idle, Rights, DemotedNeverRuns
<1>4. CASE RecoverList \/ RecoverUpdate \/ Tick \/ UNCHANGED vars
  BY <1>4 DEF RecoverList, RecoverUpdate, Tick, vars, Rights, DemotedNeverRuns
<1>5. CASE Demote
  BY <1>5 DEF Demote, Rights, DemotedNeverRuns
<1>6. CASE Promote
  <2>1. \A c \in Confirmations : status[c] \notin Open => wasAdmin'[c]
    BY <1>6 DEF Promote, Open
  <2>2. \A k \in Callbacks : \A c \in callback[k].of : wasAdmin'[c]
    BY <1>0, <2>1 DEF Inv, Claimed
  <2>3. \A c \in Confirmations : runs[c] > 0 => status[c] \notin Open
    BY DEF Inv, Order
  <2> QED BY <1>6, <2>1, <2>2, <2>3 DEF Promote, Rights, DemotedNeverRuns
<1> QED BY <1>1, <1>2, <1>3, <1>4, <1>5, <1>6 DEF Next

(* Nothing is started for a requester who did not hold the admin rights at *)
(* any moment since the claim, however late the rights were lost.          *)
THEOREM DemotedRequesterRunsNothing == Spec => []DemotedNeverRuns
<1>1. Init => Rights
  BY DEF Init, Rights, DemotedNeverRuns, Idle
<1>2. Inv /\ Rights /\ [Next]_vars => Rights'
  BY StepRights
<1>3. Rights => DemotedNeverRuns
  BY DEF Rights
<1> QED BY <1>1, <1>2, <1>3, Invariance, PTL DEF Spec

(***************************************************************************)
(* The refinement: a step of the table and the callbacks decides an open   *)
(* confirmation, starts a claimed one for the first time, or changes       *)
(* nothing that SingleUse sees.                                            *)
(***************************************************************************)

Decisions == [c \in Confirmations |-> DecisionOf(status[c])]

LEMMA InitPromise == Init => Promise!Init
BY DEF Init, Promise!Init, DecisionOf

LEMMA DecidePromise ==
    ASSUME Inv, NEW c \in Confirmations, NEW new \in {"executing", "cancelled"},
           status[c] = "pending", SetStatus(c, new), UNCHANGED runs
    PROVE  Promise!Next
<1>1. /\ status'[c] = new
      /\ \A d \in Confirmations \ {c} : status'[d] = status[d]
  BY DEF SetStatus, Inv, TypeOK
<1> DEFINE d == DecisionOf(new)
<1>2. d \in {"claimed", "cancelled"} /\ DecisionOf(status[c]) = "open" /\ DecisionOf(status'[c]) = d
  BY <1>1 DEF DecisionOf
<1> HIDE DEF d
<1>3. Promise!Decide(c, d)
  BY <1>1, <1>2 DEF Promise!Decide
<1> QED BY <1>2, <1>3 DEF Promise!Next

(* A step that starts nothing and moves no row across a decision.          *)
LEMMA SameDecisions ==
    ASSUME UNCHANGED runs,
           \A c \in Confirmations : DecisionOf(status'[c]) = DecisionOf(status[c])
    PROVE  UNCHANGED <<Decisions, runs>>
BY DEF Decisions

LEMMA StepPromise ==
    ASSUME Inv, [Next]_vars
    PROVE  Promise!Next \/ UNCHANGED <<Decisions, runs>>
<1>0. \A k \in Callbacks : callback[k].of \subseteq Confirmations
  BY DEF Inv, TypeOK
<1>1. ASSUME NEW c \in Confirmations, Create(c) PROVE UNCHANGED <<Decisions, runs>>
  BY <1>1, SameDecisions DEF Create, DecisionOf, Inv, TypeOK
<1>2. ASSUME NEW c \in Confirmations, Cancel(c) PROVE Promise!Next
  BY <1>2, DecidePromise DEF Cancel
<1>3. ASSUME NEW k \in Callbacks, NEW c \in Confirmations, CallbackStep(k, c)
      PROVE  Promise!Next \/ UNCHANGED <<Decisions, runs>>
  <2>1. CASE Claim(k, c)
    BY <2>1, DecidePromise DEF Claim
  <2>2. CASE Check(k, c) \/ CheckTarget(k, c) \/ Refuse(k, c)
    BY <2>2, SameDecisions DEF Check, CheckTarget, Refuse, row
  <2>3. CASE Handle(k, c)
    <3>1. runs[c] = 0
      BY <2>3, HandleInv
    <3>2. DecisionOf(status[c]) = "claimed"
      BY <2>3 DEF Handle, Holds, Inv, Claimed, Open, DecisionOf
    <3>3. Promise!Run(c)
      BY <2>3, <3>1, <3>2 DEF Promise!Run, Handle, row, Inv, TypeOK
    <3> QED BY <3>3 DEF Promise!Next
  <2>4. CASE Mark(k, c) \/ MarkFailed(k, c)
    <3>1. status[c] \notin Open
      BY <2>4 DEF Mark, MarkFailed, Holds, Inv, Claimed
    <3>2. /\ UNCHANGED runs
          /\ status' = status \/ (\E new \in {"executed", "failed"} : status' = [status EXCEPT ![c] = new])
      BY <2>4 DEF Mark, MarkFailed, SetStatus, row
    <3>3. \A d \in Confirmations : DecisionOf(status'[d]) = DecisionOf(status[d])
      BY <3>1, <3>2 DEF DecisionOf, Open, Inv, TypeOK
    <3> QED BY <3>2, <3>3, SameDecisions
  <2> QED BY <1>3, <2>1, <2>2, <2>3, <2>4 DEF CallbackStep
<1>4. CASE RecoverUpdate
  <2>1. \A c \in Confirmations : DecisionOf(status'[c]) = DecisionOf(status[c])
    BY <1>4 DEF RecoverUpdate, DecisionOf, Inv, Claimed, Open
  <2> QED BY <1>4, <2>1, SameDecisions DEF RecoverUpdate
<1>5. CASE BotCrash \/ RecoverList \/ Tick \/ Demote \/ Promote \/ UNCHANGED vars
  BY <1>5, SameDecisions DEF BotCrash, RecoverList, Tick, Demote, Promote, vars, row
<1> QED BY <1>1, <1>2, <1>3, <1>4, <1>5 DEF Next

(* AgentConfirmation implements SingleUse: a confirmation is claimed or    *)
(* cancelled once, and only a claimed one is started, once.                *)
THEOREM ImplementsSingleUse == Spec => KeepsPromise
<1>1. Inv /\ [Next]_vars => [Promise!Next]_<<Decisions, runs>>
  BY StepPromise
<1> QED BY <1>1, InitPromise, Invariance, PTL DEF Spec, KeepsPromise, Promise!Spec, Decisions

===============================================================================
