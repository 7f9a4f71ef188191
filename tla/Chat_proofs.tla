----------------------------- MODULE Chat_proofs -----------------------------
(***************************************************************************)
(* Proofs about Chat, for any handlers, messages, kinds, limit and bounds. *)
(***************************************************************************)
EXTENDS Chat, FiniteSetTheorems, TLAPS

-----------------------------------------------------------------------------
(* The functions on the ledger.                                            *)

\* Scores that are whole points, as the columns of the row are.
IsWhole(x) == \E k \in Nat : x = 100 * k

\* A ledger as the functions pass it on: no more is repaired than was hurt.
Proper(s) == s \in Ledger /\ s.repair <= s.hurt

\* Its scores are those of a row.
WholeScores(s) == IsWhole(s.hurt) /\ IsWhole(s.repair)

\* A row as the table holds it.
Row(s) == Proper(s) /\ WholeScores(s) /\ s.status = Derived(s)

\* The phases that count as a conflict are those with hurt left.
Consistent(s) == InConflict(s) <=> Remaining(s) > 0

LEMMA Scores == MaxScore = 10000 /\ Point = 100 /\ Point - 1 = 99
BY DEF MaxScore, Point

LEMMA IsScore ==
  ASSUME NEW x \in Nat, x <= 10000
  PROVE  x \in 0 .. MaxScore
BY Scores

LEMMA ScoreIs ==
  ASSUME NEW x \in 0 .. MaxScore
  PROVE  x \in Nat /\ x <= 10000
BY Scores

LEMMA LeastIs ==
  ASSUME NEW a \in Nat, NEW b \in Nat
  PROVE  \/ Least(a, b) = a /\ a <= b
         \/ Least(a, b) = b /\ b <= a
BY DEF Least

LEMMA FractionIs ==
  /\ \A x \in Nat : x <= 99 => x \in 0 .. Point - 1
  /\ \A x \in 0 .. Point - 1 : x \in Nat /\ x <= 99
<1>1. ASSUME NEW x \in Nat, x <= 99 PROVE x \in 0 .. Point - 1
  BY <1>1, Scores
<1>2. ASSUME NEW x \in 0 .. Point - 1 PROVE x \in Nat /\ x <= 99
  BY Scores
<1> QED BY <1>1, <1>2

LEMMA ProperFields ==
  ASSUME NEW s, Proper(s)
  PROVE  /\ s.hurt \in Nat /\ s.hurt <= 10000
         /\ s.repair \in Nat /\ s.repair <= s.hurt
         /\ s.fraction \in Nat /\ s.fraction <= 99
         /\ s.count \in Nat /\ s.at \in Nat /\ s.active \in BOOLEAN
         /\ Remaining(s) \in Nat
<1>1. s \in Ledger /\ s.repair <= s.hurt
  BY DEF Proper
<1>2. s.hurt \in 0 .. MaxScore /\ s.repair \in 0 .. MaxScore
  BY <1>1 DEF Ledger
<1>3. s.fraction \in 0 .. Point - 1 /\ s.count \in Nat /\ s.at \in Nat
  BY <1>1 DEF Ledger
<1>4. s.active \in BOOLEAN
  BY <1>1 DEF Ledger
<1>5. /\ s.hurt \in Nat /\ s.hurt <= 10000 /\ s.repair \in Nat
      /\ s.fraction \in Nat /\ s.fraction <= 99
  BY <1>2, <1>3, ScoreIs, FractionIs
<1>6. Remaining(s) \in Nat
  BY <1>1, <1>5 DEF Remaining
<1> QED BY <1>1, <1>3, <1>4, <1>5, <1>6

\* Rounding gives whole points, half a point away at most.
LEMMA WholeIsNear ==
  ASSUME NEW x \in Nat
  PROVE  \E k \in Nat : /\ Whole(x) = 100 * k
                        /\ 100 * k <= x + 50
                        /\ x <= 100 * k + 50
<1> DEFINE q == x \div 100
           r == x % 100
<1>1. q \in Nat /\ r \in 0 .. 99 /\ x = 100 * q + r
  BY SMT
<1>2. Point \div 2 = 50
  BY SMT DEF Point
<1>3. CASE Whole(x) = 100 * (q + 1) /\ r >= 50
  BY <1>1, <1>3
<1>4. CASE Whole(x) = 100 * q /\ r <= 50
  BY <1>1, <1>4
<1>5. \/ Whole(x) = 100 * (q + 1) /\ r >= 50
      \/ Whole(x) = 100 * q /\ r <= 50
  BY <1>1, <1>2 DEF Whole, Point
<1> QED BY <1>3, <1>4, <1>5

\* _finalize changes nothing but the status and the open conflict.
LEMMA FinalizedFacts ==
  ASSUME NEW s, Proper(s)
  PROVE  LET f == Finalized(s) IN
         /\ Proper(f) /\ Consistent(f)
         /\ f.hurt = s.hurt /\ f.repair = s.repair
         /\ f.count = s.count /\ f.at = s.at
<1> DEFINE f == Finalized(s)
<1>1. Derived(s) \in Statuses
  BY DEF Derived, Statuses
<1>2. Derived(s) \in {"hurt", "repairing"} <=> Remaining(s) > 0
  BY ProperFields DEF Derived
<1>3. f = [s EXCEPT !.status = Derived(s),
                    !.active = @ /\ Derived(s) # "reconciled"]
  BY DEF Finalized
<1>4. (s.active /\ Derived(s) # "reconciled") \in BOOLEAN
  OBVIOUS
<1>5. f \in Ledger /\ f.status = Derived(s) /\ f.hurt = s.hurt
      /\ f.repair = s.repair /\ f.count = s.count /\ f.at = s.at
  <2> HIDE DEF f
  <2> QED BY <1>1, <1>3, <1>4 DEF Proper, Ledger
<1>6. Remaining(f) = Remaining(s)
  BY <1>5 DEF Remaining
<1> QED BY <1>2, <1>5, <1>6 DEF Proper, Consistent, InConflict

\* Decay takes whole points, never adds to what is open, and closes a conflict
\* only when it takes the last of it.
LEMMA DecayedFacts ==
  ASSUME NEW s, Row(s), NEW now \in Nat, s.at <= now
  PROVE  LET d == Decayed(s, now) IN
         /\ Proper(d) /\ WholeScores(d) /\ Consistent(d)
         /\ d.at = now
         /\ Remaining(d) <= Remaining(s)
         /\ \/ d.count = s.count
            \/ /\ d.count = s.count + 1
               /\ Remaining(s) > 0 /\ Remaining(d) = 0
<1> DEFINE rate == IF s.hurt > SulkyMax THEN SeriousDecay ELSE MinorDecay
           accrued == (now - s.at) * rate + s.fraction
           gone == Least(s.hurt, Point * (accrued \div Point))
           hurt == s.hurt - gone
           repair == Least(s.repair, hurt)
           fraction == IF hurt = 0 THEN 0 ELSE accrued % Point
           fades == hurt = 0 /\ Remaining(s) > 0 /\ InConflict(s)
           count == IF fades THEN s.count + 1 ELSE s.count
           still == [s EXCEPT !.at = now, !.fraction = 0]
           faded == [s EXCEPT !.hurt = hurt, !.repair = repair,
                              !.fraction = fraction,
                              !.active = @ /\ hurt > 0,
                              !.count = count, !.at = now]
<1>1. Proper(s) /\ WholeScores(s)
  BY DEF Row
<1>2. /\ s.hurt \in Nat /\ s.hurt <= 10000
      /\ s.repair \in Nat /\ s.repair <= s.hurt
      /\ s.fraction \in Nat /\ s.count \in Nat /\ s.at \in Nat
  BY <1>1, ProperFields
<1>3. CASE s.hurt = 0
  <2>1. Decayed(s, now) = Finalized(still)
    BY <1>3 DEF Decayed
  <2>2. 0 \in 0 .. Point - 1
    BY FractionIs
  <2>3. /\ still \in Ledger /\ still.at = now /\ still.count = s.count
        /\ still.hurt = s.hurt /\ still.repair = s.repair
    BY <1>1, <2>2 DEF Proper, Ledger
  <2> HIDE DEF still
  <2>4. /\ Proper(still) /\ WholeScores(still)
        /\ Remaining(still) = Remaining(s)
    BY <1>1, <2>3 DEF Proper, WholeScores, Remaining
  <2> QED BY <1>1, <2>1, <2>3, <2>4, FinalizedFacts, ProperFields
             DEF WholeScores, Remaining
<1>4. CASE s.hurt # 0 /\ now = s.at
  <2>1. Decayed(s, now) = Finalized(s)
    BY <1>4 DEF Decayed
  <2> QED BY <1>1, <1>4, <2>1, FinalizedFacts, ProperFields
             DEF WholeScores, Remaining
<1>5. CASE s.hurt # 0 /\ now # s.at
  <2>1. Decayed(s, now) = Finalized(faded)
    BY <1>5, Zenon DEF Decayed
  <2>2. rate \in {50, 200}
    BY DEF SeriousDecay, MinorDecay, Point
  <2>3. accrued \in Nat
    BY <1>2, <2>2
  <2>4. accrued \div Point \in Nat /\ accrued % Point \in 0 .. Point - 1
    <3> HIDE DEF accrued
    <3> QED BY <2>3 DEF Point
  <2>5. IsWhole(gone) /\ gone \in Nat /\ gone <= s.hurt
    <3> HIDE DEF accrued
    <3> QED BY <1>1, <1>2, <2>4 DEF Least, Point, IsWhole, WholeScores
  <2>6. IsWhole(hurt) /\ hurt \in Nat /\ hurt <= s.hurt
    <3> HIDE DEF gone
    <3> QED BY <1>1, <1>2, <2>5 DEF IsWhole, WholeScores
  <2>7. /\ IsWhole(repair) /\ repair \in Nat /\ repair <= hurt
        /\ hurt - repair <= s.hurt - s.repair
    <3>1. \/ repair = s.repair /\ s.repair <= hurt
          \/ repair = hurt /\ hurt <= s.repair
      <4> HIDE DEF hurt
      <4> QED BY <1>2, <2>6, LeastIs
    <3> HIDE DEF hurt, repair
    <3> QED BY <1>1, <1>2, <2>6, <3>1 DEF WholeScores
  <2>8. hurt \in 0 .. MaxScore /\ repair \in 0 .. MaxScore
    <3> HIDE DEF hurt, repair
    <3>1. hurt <= 10000 /\ repair <= 10000
      BY <1>2, <2>6, <2>7
    <3> QED BY <2>6, <2>7, <3>1, IsScore
  <2>9. fraction \in 0 .. Point - 1
    <3> HIDE DEF accrued, hurt
    <3> QED BY <2>4, FractionIs
  <2>10. /\ count \in Nat
         /\ \/ count = s.count
            \/ count = s.count + 1 /\ Remaining(s) > 0 /\ hurt = 0
    <3>1. fades => Remaining(s) > 0 /\ hurt = 0
      OBVIOUS
    <3> HIDE DEF fades, hurt
    <3> QED BY <1>2, <3>1
  <2>11. (s.active /\ hurt > 0) \in BOOLEAN
    OBVIOUS
  <2>12. /\ faded \in Ledger
         /\ faded.hurt = hurt /\ faded.repair = repair
         /\ faded.count = count /\ faded.at = now
    <3> HIDE DEF hurt, repair, fraction, count
    <3> QED BY <1>1, <2>8, <2>9, <2>10, <2>11 DEF Proper, Ledger
  <2> HIDE DEF hurt, repair, count, faded
  <2>13. Proper(faded) /\ WholeScores(faded)
    BY <2>6, <2>7, <2>12 DEF Proper, WholeScores
  <2>14. /\ Remaining(faded) <= Remaining(s)
         /\ hurt = 0 => Remaining(faded) = 0
    BY <2>6, <2>7, <2>12 DEF Remaining
  <2>15. Remaining(Finalized(faded)) = Remaining(faded)
    BY <2>13, FinalizedFacts DEF Remaining
  <2> QED BY <2>1, <2>10, <2>12, <2>13, <2>14, <2>15, FinalizedFacts
             DEF WholeScores
<1> QED BY <1>3, <1>4, <1>5

LEMMA SeverityIs ==
  ASSUME NEW kind \in Negative
  PROVE  Severity[kind] \in {1020, 2550, 3825}
BY DEF Negative, Severity

LEMMA RepairIs ==
  ASSUME NEW kind \in Repairing
  PROVE  Repair[kind] \in {2250, 1800, 1875}
BY DEF Repairing, Repair

\* A new conflict carries what was open, and nothing is repaired yet.
LEMMA HurtFacts ==
  ASSUME NEW s, Proper(s), NEW kind \in Negative
  PROVE  LET a == Hurt(s, kind) IN
         /\ Proper(a)
         /\ a.hurt <= Remaining(s) + Severity[kind] /\ a.repair = 0
         /\ a.count = s.count /\ a.at = s.at
<1> DEFINE open == Remaining(s) + Severity[kind]
           hurt == Least(MaxScore, open)
           a == Hurt(s, kind)
<1>1. open \in Nat /\ MaxScore \in Nat
  BY SeverityIs, ProperFields, Scores
<1>2. hurt \in Nat /\ hurt <= open /\ hurt <= 10000
  <2> HIDE DEF open
  <2> QED BY <1>1, LeastIs, Scores
<1>3. hurt \in 0 .. MaxScore /\ 0 \in 0 .. MaxScore /\ 0 \in 0 .. Point - 1
  <2> HIDE DEF hurt
  <2> QED BY <1>2, IsScore, FractionIs
<1>4. a = [s EXCEPT !.hurt = hurt, !.repair = 0, !.fraction = 0,
                    !.active = TRUE, !.credits = {}]
  BY DEF Hurt, Carried
<1> HIDE DEF hurt, a
<1>5. /\ a \in Ledger /\ a.hurt = hurt /\ a.repair = 0
      /\ a.count = s.count /\ a.at = s.at
  BY <1>3, <1>4 DEF Proper, Ledger
<1> QED BY <1>2, <1>5 DEF Proper, a

\* A repair event counts at most once and closes at most one conflict, which
\* has hurt left.
LEMMA RepairedFacts ==
  ASSUME NEW s, Proper(s), NEW kind \in Repairing
  PROVE  LET a == Repaired(s, kind) IN
         /\ Proper(a)
         /\ a.hurt = s.hurt /\ s.repair <= a.repair
         /\ a.at = s.at
         /\ \/ a.count = s.count
            \/ a.count = s.count + 1 /\ a.repair = a.hurt
<1> DEFINE credit == <<s.active, kind>>
           offered == s.repair + Repair[kind]
           repair == Least(offered, s.hurt)
           full == repair = s.hurt
           count == IF full THEN s.count + 1 ELSE s.count
           a == [s EXCEPT !.repair = repair, !.credits = @ \union {credit},
                          !.active = @ /\ ~full, !.count = count]
<1>1. /\ s.hurt \in Nat /\ s.hurt <= 10000
      /\ s.repair \in Nat /\ s.repair <= s.hurt
      /\ s.count \in Nat /\ s.active \in BOOLEAN
  BY ProperFields
<1>2. offered \in Nat /\ s.repair <= offered
  BY <1>1, RepairIs
<1>3. repair \in Nat /\ s.repair <= repair /\ repair <= s.hurt
  <2> HIDE DEF offered
  <2> QED BY <1>1, <1>2, LeastIs
<1>4. repair \in 0 .. MaxScore
  <2> HIDE DEF repair
  <2> QED BY <1>1, <1>3, IsScore
<1>5. count \in Nat /\ (s.active /\ ~full) \in BOOLEAN
  BY <1>1
<1>6. count = s.count \/ (count = s.count + 1 /\ repair = s.hurt)
  BY <1>1
<1>7. credit \in Credits
  BY <1>1 DEF Credits
<1>8. /\ a \in Ledger /\ a.hurt = s.hurt /\ a.repair = repair
      /\ a.count = count /\ a.at = s.at
  <2> HIDE DEF repair, count, full, credit
  <2>1. s \in Ledger
    BY DEF Proper
  <2>2. s.credits \union {credit} \in SUBSET Credits
    BY <1>7, <2>1 DEF Ledger
  <2> QED BY <1>4, <1>5, <2>1, <2>2 DEF Ledger
<1>9. Repaired(s, kind) = IF credit \in s.credits THEN s ELSE a
  BY DEF Repaired
<1> HIDE DEF repair, count, a, credit
<1>10. CASE credit \in s.credits
  BY <1>1, <1>9, <1>10
<1>11. CASE credit \notin s.credits
  BY <1>3, <1>6, <1>8, <1>9, <1>11 DEF Proper
<1> QED BY <1>10, <1>11

\* What one event does.
LEMMA AppliedFacts ==
  ASSUME NEW s, Proper(s), Consistent(s), NEW kind
  PROVE  LET a == Applied(s, kind) IN
         /\ Proper(a) /\ a.at = s.at
         /\ kind \in Negative =>
              /\ a.hurt <= Remaining(s) + Severity[kind] /\ a.repair = 0
              /\ a.count = s.count
         /\ kind \notin Negative =>
              /\ a.hurt = s.hurt /\ s.repair <= a.repair
              /\ \/ a.count = s.count
                 \/ /\ a.count = s.count + 1
                    /\ Remaining(s) > 0 /\ a.repair = a.hurt
<1>1. CASE kind \in Negative
  <2>1. Applied(s, kind) = Finalized(Hurt(s, kind))
    BY <1>1 DEF Applied
  <2> QED BY <1>1, <2>1, HurtFacts, FinalizedFacts
<1>2. CASE kind \notin Negative /\ MayRepair(s, kind)
  <2>1. Applied(s, kind) = Finalized(Repaired(s, kind))
    BY <1>2 DEF Applied
  <2>2. kind \in Repairing /\ Remaining(s) > 0
    BY <1>2 DEF MayRepair
  <2> QED BY <1>2, <2>1, <2>2, RepairedFacts, FinalizedFacts
<1>3. CASE kind \notin Negative /\ ~MayRepair(s, kind)
  <2>1. Applied(s, kind) = Finalized(s)
    BY <1>3 DEF Applied
  <2> QED BY <1>3, <2>1, FinalizedFacts, ProperFields
<1> QED BY <1>1, <1>2, <1>3

\* What lands in the row: whole points, a status that fits them.
LEMMA SavedFacts ==
  ASSUME NEW s, Proper(s)
  PROVE  LET v == Saved(s) IN
         /\ Row(v)
         /\ v.hurt = Whole(s.hurt) /\ v.repair = Least(Whole(s.repair), v.hurt)
         /\ v.count = s.count /\ v.at = s.at
<1> DEFINE hurt == Whole(s.hurt)
           repair == Least(Whole(s.repair), hurt)
           c == Columns(s)
           v == Saved(s)
<1>1. s.hurt \in Nat /\ s.hurt <= 10000 /\ s.repair \in Nat
  BY ProperFields
<1>2. PICK k \in Nat : hurt = 100 * k /\ 100 * k <= s.hurt + 50
  BY <1>1, WholeIsNear
<1>3. PICK m \in Nat : Whole(s.repair) = 100 * m
  BY <1>1, WholeIsNear
<1>4. hurt \in Nat /\ hurt <= 10000
  BY <1>1, <1>2
<1>5. repair \in Nat /\ repair <= hurt /\ IsWhole(hurt) /\ IsWhole(repair)
  <2> HIDE DEF hurt
  <2> QED BY <1>2, <1>3, <1>4, LeastIs DEF IsWhole
<1>6. hurt \in 0 .. MaxScore /\ repair \in 0 .. MaxScore
  <2> HIDE DEF hurt, repair
  <2>1. repair <= 10000
    BY <1>4, <1>5
  <2> QED BY <1>4, <1>5, <2>1, IsScore
<1>7. c = [s EXCEPT !.hurt = hurt, !.repair = repair]
  BY DEF Columns
<1>8. v = [c EXCEPT !.status = Derived(c)] /\ Derived(c) \in Statuses
  BY DEF Saved, Derived, Statuses
<1> HIDE DEF hurt, repair, c, v
<1>9. /\ c \in Ledger /\ c.hurt = hurt /\ c.repair = repair
      /\ c.count = s.count /\ c.at = s.at
  BY <1>6, <1>7 DEF Proper, Ledger
<1>10. /\ v \in Ledger /\ v.hurt = hurt /\ v.repair = repair
       /\ v.count = s.count /\ v.at = s.at /\ v.status = Derived(c)
       /\ v.active = c.active /\ v.credits = c.credits
  BY <1>8, <1>9 DEF Ledger
<1>11. Derived(v) = Derived(c)
  BY <1>9, <1>10 DEF Derived, Remaining
<1>12. Row(v)
  BY <1>5, <1>10, <1>11 DEF Row, Proper, WholeScores
<1> QED BY <1>10, <1>12 DEF v, hurt, repair

\* Rounding does not open what an event has repaired.
LEMMA RepairStays ==
  ASSUME NEW d, Proper(d), WholeScores(d),
         NEW a, Proper(a), a.hurt = d.hurt, d.repair <= a.repair
  PROVE  /\ Remaining(Saved(a)) <= Remaining(d)
         /\ a.repair = a.hurt => Remaining(Saved(a)) = 0
<1> DEFINE v == Saved(a)
<1>1. /\ d.hurt \in Nat /\ d.repair \in Nat /\ d.repair <= d.hurt
      /\ a.repair \in Nat /\ a.repair <= a.hurt
  BY ProperFields
<1>2. v.hurt = Whole(a.hurt) /\ v.repair = Least(Whole(a.repair), v.hurt)
  BY SavedFacts
<1>3. PICK m \in Nat : d.hurt = 100 * m
  BY DEF WholeScores, IsWhole
<1>4. PICK n \in Nat : d.repair = 100 * n
  BY DEF WholeScores, IsWhole
<1>5. PICK j \in Nat : Whole(d.hurt) = 100 * j
                      /\ 100 * j <= d.hurt + 50 /\ d.hurt <= 100 * j + 50
  BY <1>1, WholeIsNear
<1>6. v.hurt = d.hurt
  BY <1>2, <1>3, <1>5
<1>7. PICK k \in Nat : Whole(a.repair) = 100 * k
                      /\ 100 * k <= a.repair + 50 /\ a.repair <= 100 * k + 50
  BY <1>1, WholeIsNear
<1>8. d.repair <= Whole(a.repair) /\ Whole(a.repair) \in Nat
  BY <1>1, <1>4, <1>7
<1>9. v.repair \in Nat /\ d.repair <= v.repair
  BY <1>1, <1>2, <1>6, <1>8, LeastIs
<1>10. Remaining(v) <= Remaining(d)
  <2> HIDE DEF v
  <2> QED BY <1>1, <1>6, <1>9 DEF Remaining
<1>11. ASSUME a.repair = a.hurt PROVE Remaining(v) = 0
  <2>1. Whole(a.repair) = v.hurt
    BY <1>2, <1>11
  <2>2. v.repair = v.hurt
    <3> HIDE DEF v
    <3> QED BY <1>1, <1>2, <1>6, <2>1, LeastIs
  <2> HIDE DEF v
  <2> QED BY <1>1, <1>6, <2>2 DEF Remaining
<1> QED BY <1>10, <1>11

-----------------------------------------------------------------------------
(* The transaction on the row.                                             *)

Insults(set) == {e \in set : e[2] \in Negative}

\* Hurt that is open belongs to an insult that was not forgiven yet.
Forgiven ==
  /\ ledger.count <= Cardinality(Insults(events))
  /\ Remaining(ledger) > 0 => ledger.count < Cardinality(Insults(events))

LedgerInv ==
  /\ Row(ledger)
  /\ ledger.at <= time
  /\ IsFiniteSet(events)
  /\ events \subseteq Messages \X Kinds
  /\ grudge \in Nat
  /\ NoOldGrudge
  /\ Forgiven

LEMMA InsultsAre ==
  ASSUME NEW set, IsFiniteSet(set), NEW event, event \notin set
  PROVE  /\ IsFiniteSet(set \union {event})
         /\ IsFiniteSet(Insults(set)) /\ Cardinality(Insults(set)) \in Nat
         /\ event[2] \in Negative =>
              Cardinality(Insults(set \union {event}))
                = Cardinality(Insults(set)) + 1
         /\ event[2] \notin Negative =>
              Insults(set \union {event}) = Insults(set)
<1>1. IsFiniteSet(set \union {event})
  BY FS_AddElement
<1>2. Insults(set) \subseteq set /\ event \notin Insults(set)
  BY DEF Insults
<1>3. IsFiniteSet(Insults(set)) /\ Cardinality(Insults(set)) \in Nat
  BY <1>2, FS_Subset, FS_CardinalityType
<1>4. ASSUME event[2] \in Negative
      PROVE  Insults(set \union {event}) = Insults(set) \union {event}
  BY <1>4 DEF Insults
<1>5. ASSUME event[2] \notin Negative
      PROVE  Insults(set \union {event}) = Insults(set)
  BY <1>5 DEF Insults
<1> QED BY <1>1, <1>2, <1>3, <1>4, <1>5, FS_AddElement

LEMMA UpdateLedgerInv ==
  ASSUME LedgerInv, time \in Nat, time' = time,
         NEW event \in Messages \X Kinds, UpdateLedger(event)
  PROVE  LedgerInv'
<1> DEFINE kind == event[2]
           d == Decayed(ledger, time)
           fresh == kind # "none" /\ IsNew(event)
           a == IF fresh THEN Applied(d, kind) ELSE d
           row == Saved(a)
           before == IF Remaining(d) = 0 THEN 0 ELSE grudge
           added == IF fresh /\ kind \in Negative
                    THEN Point * ((Severity[kind] + Point - 1) \div Point)
                    ELSE 0
           n == Cardinality(Insults(events))
<1>1. /\ ledger' = row
      /\ events' = IF fresh THEN events \union {event} ELSE events
      /\ grudge' = IF Remaining(row) = 0 THEN 0 ELSE before + added
  BY DEF UpdateLedger
<1>2. /\ Row(ledger) /\ ledger.at <= time /\ IsFiniteSet(events)
      /\ events \subseteq Messages \X Kinds /\ grudge \in Nat
      /\ Remaining(ledger) <= grudge
      /\ ledger.count <= n
      /\ Remaining(ledger) > 0 => ledger.count < n
  BY DEF LedgerInv, NoOldGrudge, Forgiven
<1>3. Remaining(ledger) \in Nat /\ ledger.count \in Nat
  BY <1>2, ProperFields DEF Row
<1>4. /\ Proper(d) /\ WholeScores(d) /\ Consistent(d)
      /\ d.at = time
      /\ Remaining(d) <= Remaining(ledger)
      /\ \/ d.count = ledger.count
         \/ /\ d.count = ledger.count + 1
            /\ Remaining(ledger) > 0 /\ Remaining(d) = 0
  BY <1>2, DecayedFacts
<1>5. Remaining(d) \in Nat /\ d.count \in Nat
  BY <1>4, ProperFields
<1>6. Remaining(d) <= before /\ before \in Nat
  <2> HIDE DEF d
  <2> QED BY <1>2, <1>3, <1>4, <1>5
<1>7. IsFiniteSet(Insults(events)) /\ n \in Nat
  BY <1>2, FS_Subset, FS_CardinalityType DEF Insults
<1>8. d.count <= n
  <2> HIDE DEF d, n
  <2> QED BY <1>2, <1>3, <1>4, <1>5, <1>7
<1>9. IsFiniteSet(events') /\ events' \subseteq Messages \X Kinds
  BY <1>1, <1>2, FS_AddElement
<1> HIDE DEF d, before
<1>10. CASE fresh /\ kind \in Negative
  <2>1. a = Applied(d, kind)
    BY <1>10
  <2>2. /\ Proper(a) /\ a.at = time
        /\ a.hurt <= Remaining(d) + Severity[kind] /\ a.repair = 0
        /\ a.count = d.count
    BY <1>4, <1>10, <2>1, AppliedFacts
  <2> HIDE DEF a
  <2>3. /\ Row(row) /\ row.hurt = Whole(a.hurt)
        /\ row.repair = Least(Whole(a.repair), row.hurt)
        /\ row.count = d.count /\ row.at = time
    BY <2>2, SavedFacts
  <2>4. PICK j \in Nat : d.hurt = 100 * j
    BY <1>4 DEF WholeScores, IsWhole
  <2>5. PICK m \in Nat : d.repair = 100 * m
    BY <1>4 DEF WholeScores, IsWhole
  <2>6. a.hurt \in Nat
    BY <2>2, ProperFields
  <2>7. PICK k \in Nat : Whole(a.hurt) = 100 * k /\ 100 * k <= a.hurt + 50
    BY <2>6, WholeIsNear
  <2>8. row.hurt \in Nat /\ row.repair \in Nat /\ Remaining(row) \in Nat
    BY <2>3, ProperFields DEF Row
  <2>9. row.hurt <= Remaining(d) + added
    <3>1. Remaining(d) = 100 * (j - m)
      BY <2>4, <2>5 DEF Remaining
    <3>2. 100 * k <= 100 * (j - m) + Severity[kind] + 50
      <4>1. Severity[kind] \in Nat
        BY <1>10, SeverityIs
      <4> HIDE DEF kind
      <4> QED BY <2>2, <2>6, <2>7, <3>1, <4>1
    <3>3. added = Point * ((Severity[kind] + Point - 1) \div Point)
      BY <1>10
    <3> HIDE DEF added, row
    <3>4. CASE Severity[kind] = 1020
      <4>1. added = 1100
        BY <3>3, <3>4 DEF Point
      <4> QED BY <2>3, <2>7, <3>1, <3>2, <3>4, <4>1
    <3>5. CASE Severity[kind] = 2550
      <4>1. added = 2600
        BY <3>3, <3>5 DEF Point
      <4> QED BY <2>3, <2>7, <3>1, <3>2, <3>5, <4>1
    <3>6. CASE Severity[kind] = 3825
      <4>1. added = 3900
        BY <3>3, <3>6 DEF Point
      <4> QED BY <2>3, <2>7, <3>1, <3>2, <3>6, <4>1
    <3> QED BY <1>10, <3>4, <3>5, <3>6, SeverityIs
  <2>10. added \in Nat
    <3>1. added = Point * ((Severity[kind] + Point - 1) \div Point)
      BY <1>10
    <3>2. Severity[kind] \in {1020, 2550, 3825}
      BY <1>10, SeverityIs
    <3> HIDE DEF kind, added
    <3> QED BY <3>1, <3>2 DEF Point
  <2>11. Remaining(row) <= before + added
    <3> HIDE DEF row, added
    <3> QED BY <1>5, <1>6, <2>8, <2>9, <2>10 DEF Remaining
  <2>12. grudge' \in Nat /\ Remaining(row) <= grudge'
    <3> HIDE DEF row, added
    <3> QED BY <1>1, <1>6, <2>8, <2>10, <2>11
  <2>13. Cardinality(Insults(events')) = n + 1
    BY <1>1, <1>2, <1>10, InsultsAre DEF IsNew
  <2>14. row.count < Cardinality(Insults(events'))
    <3> HIDE DEF row, n
    <3> QED BY <1>5, <1>7, <1>8, <2>3, <2>13
  <2> HIDE DEF row, n
  <2> QED BY <1>1, <1>5, <1>7, <1>9, <2>3, <2>12, <2>13, <2>14
          DEF LedgerInv, NoOldGrudge, Forgiven
<1>11. CASE ~(fresh /\ kind \in Negative)
  <2>1. /\ Proper(a) /\ a.at = time /\ a.hurt = d.hurt /\ d.repair <= a.repair
        /\ \/ a.count = d.count
           \/ /\ a.count = d.count + 1
              /\ Remaining(d) > 0 /\ a.repair = a.hurt
    <3>1. CASE fresh
      BY <1>4, <1>11, <3>1, AppliedFacts
    <3>2. CASE ~fresh
      BY <1>4, <3>2, ProperFields
    <3> QED BY <3>1, <3>2
  <2> HIDE DEF a
  <2>2. /\ Row(row) /\ row.count = a.count /\ row.at = time
    BY <2>1, SavedFacts
  <2>3. /\ Remaining(row) <= Remaining(d)
        /\ a.repair = a.hurt => Remaining(row) = 0
    BY <1>4, <2>1, RepairStays
  <2>4. Remaining(row) \in Nat
    BY <2>2, ProperFields DEF Row
  <2>5. added = 0
    BY <1>11
  <2> HIDE DEF row, added
  <2>6. grudge' \in Nat /\ Remaining(row) <= grudge'
    BY <1>1, <1>5, <1>6, <2>3, <2>4, <2>5
  <2>7. Cardinality(Insults(events')) = n
    BY <1>1, <1>2, <1>11, InsultsAre DEF IsNew
  <2> HIDE DEF n
  <2>8. row.count <= n /\ (Remaining(row) > 0 => row.count < n)
    BY <1>2, <1>3, <1>4, <1>5, <1>7, <1>8, <2>1, <2>2, <2>3, <2>4
  <2> QED BY <1>1, <1>9, <2>2, <2>6, <2>7, <2>8
          DEF LedgerInv, NoOldGrudge, Forgiven
<1> QED BY <1>10, <1>11

-----------------------------------------------------------------------------
(* The steps of the turns.                                                 *)

\* Everything but the ledger holds values of its kind, and a turn that is
\* under way has a message.
Typed ==
  /\ turn \in [Handlers -> Turn]
  /\ \A h \in Handlers : turn[h].phase # "idle" => turn[h].msg \in Messages
  /\ begun \in 0 .. MaxTurns
  /\ latest \in Messages \union {0}
  /\ heard \subseteq Messages
  /\ quota \in [used : Nat, reset : Days]
  /\ granted \in [Days -> Nat]
  /\ threads \subseteq Messages \X Kinds
  /\ time \in 0 .. MaxTime

\* _latest holds the newest of the ids it was told.
LatestInv == \A n \in heard : n <= latest

\* The row counts every grant of its day; no later day was granted anything.
QuotaInv ==
  Limit > 0 =>
    /\ quota.used <= Limit
    /\ granted[quota.reset] <= quota.used
    /\ \A d \in Days : /\ granted[d] <= Limit
                       /\ d > quota.reset => granted[d] = 0

Inv == Typed /\ LatestInv /\ QuotaInv /\ LedgerInv

LEMMA TodayIsADay ==
  ASSUME time \in 0 .. MaxTime
  PROVE  Today \in Days
<1>1. TicksPerDay \in Nat \ {0} /\ MaxTime \in Nat /\ time \in Nat
      /\ time <= MaxTime
  BY ChatAssumption
<1>2. time \div TicksPerDay \in Nat /\ MaxTime \div TicksPerDay \in Nat
  BY <1>1
<1>3. time \div TicksPerDay <= MaxTime \div TicksPerDay
  BY <1>1
<1> QED BY <1>2, <1>3 DEF Today, Days

LEMMA DaysAreNat == Days \subseteq Nat
BY DEF Days

LEMMA IdleIsATurn == Idle \in Turn
<1>1. 0 \in Days
  <2>1. MaxTime \in Nat /\ TicksPerDay \in Nat \ {0}
    BY ChatAssumption
  <2>2. MaxTime \div TicksPerDay \in Nat
    BY <2>1
  <2> QED BY <2>2 DEF Days
<1> QED BY <1>1, ChatAssumption DEF Idle, Turn

LEMMA EmptyLedger ==
  /\ Row(NoLedger) /\ Remaining(NoLedger) = 0
  /\ NoLedger.count = 0 /\ NoLedger.at = 0
  /\ IsFiniteSet({}) /\ Cardinality(Insults({})) = 0
<1>1. Insults({}) = {} /\ Cardinality({}) = 0 /\ IsFiniteSet({})
  BY FS_EmptySet DEF Insults
<1>2. 0 \in 0 .. MaxScore /\ 0 \in 0 .. Point - 1
  BY Scores
<1>3. NoLedger \in Ledger
  BY <1>2 DEF NoLedger, Ledger, Statuses
<1>4. Remaining(NoLedger) = 0
  BY DEF Remaining, NoLedger
<1>5. IsWhole(0)
  BY DEF IsWhole
<1>6. Row(NoLedger)
  BY <1>3, <1>4, <1>5 DEF Row, Proper, WholeScores, Derived, NoLedger
<1> QED BY <1>1, <1>4, <1>6 DEF NoLedger

LEMMA InitInv == Init => Inv
<1> SUFFICES ASSUME Init PROVE Inv
  OBVIOUS
<1>1. 0 \in Days /\ time \in 0 .. MaxTime /\ time = 0
  BY ChatAssumption, TodayIsADay, IdleIsATurn DEF Init, Idle, Turn
<1>2. Typed
  BY <1>1, ChatAssumption, IdleIsATurn DEF Init, Typed, Idle
<1>3. LatestInv
  BY DEF Init, LatestInv
<1>4. QuotaInv
  BY <1>1, ChatAssumption, DaysAreNat DEF Init, QuotaInv
<1>5. LedgerInv
  BY <1>1, EmptyLedger DEF Init, LedgerInv, NoOldGrudge, Forgiven
<1> QED BY <1>2, <1>3, <1>4, <1>5 DEF Inv

\* A step that moves one turn on, or ends it, leaves turns of their kind.
LEMMA TurnMoves ==
  ASSUME turn \in [Handlers -> Turn],
         \A g \in Handlers : turn[g].phase # "idle" => turn[g].msg \in Messages,
         NEW h \in Handlers, NEW t \in Turn,
         t.phase = "idle" \/ t.msg \in Messages,
         turn' = [turn EXCEPT ![h] = t]
  PROVE  /\ turn' \in [Handlers -> Turn]
         /\ \A g \in Handlers :
              turn'[g].phase # "idle" => turn'[g].msg \in Messages
OBVIOUS

LEMMA TypedStep == Typed /\ [Next]_vars => Typed'
<1> SUFFICES ASSUME Typed, [Next]_vars PROVE Typed'
  OBVIOUS
<1>1. /\ turn \in [Handlers -> Turn]
      /\ \A g \in Handlers : turn[g].phase # "idle" => turn[g].msg \in Messages
  BY DEF Typed
<1>2. Idle \in Turn /\ Idle.phase = "idle" /\ "none" \in Kinds /\ 0 \in Days
  BY IdleIsATurn, ChatAssumption DEF Idle, Turn
<1>3. ASSUME NEW h \in Handlers, NEW m \in Messages, NEW k \in Kinds,
             Begin(h, m, k)
      PROVE  Typed'
  <2>1. begun' \in 0 .. MaxTurns
    BY <1>3, ChatAssumption DEF Begin, Typed
  <2>2. latest' \in Messages \union {0} /\ heard' \subseteq Messages
    BY <1>3 DEF Begin, Newest, Typed
  <2>3. CASE UNCHANGED turn
    BY <1>3, <2>1, <2>2, <2>3 DEF Begin, Typed
  <2>4. CASE turn' = [turn EXCEPT ![h] = [phase |-> "counting", msg |-> m,
                                          kind |-> k, today |-> Today]]
    <3> DEFINE t == [phase |-> "counting", msg |-> m, kind |-> k,
                     today |-> Today]
    <3>1. t \in Turn /\ t.msg \in Messages
      BY TodayIsADay DEF Turn, Typed
    <3>2. turn' = [turn EXCEPT ![h] = t]
      BY <2>4
    <3> HIDE DEF t
    <3> QED BY <1>1, <1>3, <2>1, <2>2, <3>1, <3>2, TurnMoves
            DEF Begin, Typed
  <2> QED BY <1>3, <2>3, <2>4 DEF Begin
<1>4. ASSUME NEW h \in Handlers, Done(h)
      PROVE  /\ turn' \in [Handlers -> Turn]
             /\ \A g \in Handlers :
                  turn'[g].phase # "idle" => turn'[g].msg \in Messages
  BY <1>1, <1>2, <1>4, TurnMoves DEF Done
<1>5. ASSUME NEW h \in Handlers, ConsumeQuota(h)
      PROVE  Typed'
  <2> DEFINE q == Renewed(quota, turn[h].today)
  <2>1. /\ turn[h] \in Turn /\ turn[h].msg \in Messages
        /\ turn[h].today \in Days
    BY <1>1, <1>5 DEF ConsumeQuota, Turn
  <2>2. q \in [used : Nat, reset : Days] /\ q.reset \in Days /\ q.used \in Nat
    BY <2>1 DEF Renewed, Typed
  <2> HIDE DEF q
  <2>3. CASE /\ Limit = 0 \/ q.used < Limit
             /\ quota' = [q EXCEPT !.used = IF Limit = 0 THEN @ ELSE @ + 1]
             /\ granted' = [granted EXCEPT ![q.reset] = @ + 1]
             /\ turn' = [turn EXCEPT ![h].phase = "social", ![h].today = 0]
    <3> DEFINE t == [turn[h] EXCEPT !.phase = "social", !.today = 0]
    <3>1. t \in Turn /\ t.msg \in Messages
      BY <1>2, <2>1 DEF Turn
    <3>2. turn' = [turn EXCEPT ![h] = t]
      BY <1>1, <2>3
    <3> HIDE DEF t
    <3>3. /\ turn' \in [Handlers -> Turn]
          /\ \A g \in Handlers :
               turn'[g].phase # "idle" => turn'[g].msg \in Messages
      BY <1>1, <3>1, <3>2, TurnMoves
    <3>4. quota' \in [used : Nat, reset : Days]
      BY <2>2, <2>3
    <3>5. granted' \in [Days -> Nat]
      BY <2>2, <2>3 DEF Typed
    <3> QED BY <1>5, <3>3, <3>4, <3>5 DEF ConsumeQuota, Typed
  <2>4. CASE quota' = q /\ Done(h) /\ UNCHANGED granted
    BY <1>4, <1>5, <2>2, <2>4 DEF ConsumeQuota, Typed
  <2> QED BY <1>5, <2>3, <2>4 DEF ConsumeQuota, q
<1>6. ASSUME NEW h \in Handlers, AnswerElsewhere(h)
      PROVE  Typed'
  BY <1>4, <1>6 DEF AnswerElsewhere, Typed
<1>7. ASSUME NEW h \in Handlers, LookAtRelation(h)
      PROVE  Typed'
  <2> DEFINE t == [turn[h] EXCEPT !.phase = "asking", !.kind = "none"]
  <2>1. t \in Turn /\ t.msg \in Messages
    BY <1>1, <1>2, <1>7 DEF LookAtRelation, Turn
  <2>2. turn' = [turn EXCEPT ![h] = t]
    BY <1>1, <1>7 DEF LookAtRelation
  <2> HIDE DEF t
  <2> QED BY <1>1, <1>7, <2>1, <2>2, TurnMoves DEF LookAtRelation, Typed
<1>8. ASSUME NEW h \in Handlers, Ends(h)
      PROVE  Typed'
  BY <1>4, <1>8 DEF Ends, Typed
<1>9. ASSUME NEW h \in Handlers, TimesOut(h)
      PROVE  Typed'
  <2>1. turn[h] \in Turn /\ turn[h].msg \in Messages
    BY <1>1, <1>9 DEF TimesOut
  <2>2. threads' \subseteq Messages \X Kinds
    BY <1>9, <2>1 DEF TimesOut, Typed, Turn
  <2>3. CASE Done(h)
    BY <1>4, <1>9, <2>2, <2>3 DEF TimesOut, Typed
  <2>4. CASE turn' = [turn EXCEPT ![h].phase = "telling", ![h].kind = "none"]
    <3> DEFINE t == [turn[h] EXCEPT !.phase = "telling", !.kind = "none"]
    <3>1. t \in Turn /\ t.msg \in Messages
      BY <1>2, <2>1 DEF Turn
    <3>2. turn' = [turn EXCEPT ![h] = t]
      BY <1>1, <2>4
    <3> HIDE DEF t
    <3> QED BY <1>1, <1>9, <2>2, <3>1, <3>2, TurnMoves DEF TimesOut, Typed
  <2> QED BY <1>9, <2>3, <2>4 DEF TimesOut
<1>10. ASSUME NEW h \in Handlers, Tell(h)
       PROVE  Typed'
  BY <1>4, <1>10 DEF Tell, Typed
<1>16. ASSUME NEW h \in Handlers, MakeMedia(h)
       PROVE  Typed'
  <2> DEFINE t == [turn[h] EXCEPT !.phase = "making", !.kind = "none"]
  <2>1. t \in Turn /\ t.msg \in Messages
    BY <1>1, <1>2, <1>16 DEF MakeMedia, Turn
  <2>2. turn' = [turn EXCEPT ![h] = t]
    BY <1>1, <1>16 DEF MakeMedia
  <2> HIDE DEF t
  <2> QED BY <1>1, <1>16, <2>1, <2>2, TurnMoves DEF MakeMedia, Typed
<1>17. ASSUME NEW h \in Handlers, MediaTimesOut(h)
       PROVE  Typed'
  <2> DEFINE t == [turn[h] EXCEPT !.phase = "excusing"]
  <2>1. t \in Turn /\ t.msg \in Messages
    BY <1>1, <1>17 DEF MediaTimesOut, Turn
  <2>2. turn' = [turn EXCEPT ![h] = t]
    BY <1>1, <1>17 DEF MediaTimesOut
  <2> HIDE DEF t
  <2> QED BY <1>1, <1>17, <2>1, <2>2, TurnMoves DEF MediaTimesOut, Typed
<1>11. ASSUME NEW event \in threads, LateLedger(event)
       PROVE  Typed'
  BY <1>11 DEF LateLedger, Typed
<1>12. CASE ForgetAll
  BY <1>12 DEF ForgetAll, Typed
<1>13. CASE Evict
  BY <1>13 DEF Evict, Typed
<1>14. ASSUME NEW ticks \in {1, LongPause}, Pass(ticks)
       PROVE  Typed'
  <2>1. time' \in 0 .. MaxTime
    BY <1>14, ChatAssumption DEF Pass, Typed
  <2> QED BY <1>14, <2>1 DEF Pass, Typed
<1>15. CASE UNCHANGED vars
  BY <1>15 DEF vars, Typed
<1> QED BY <1>3, <1>5, <1>6, <1>7, <1>8, <1>9, <1>10, <1>11, <1>12, <1>13,
           <1>14, <1>15, <1>16, <1>17 DEF Next

LEMMA LatestStep == Typed /\ LatestInv /\ [Next]_vars => LatestInv'
<1> SUFFICES ASSUME Typed, LatestInv, [Next]_vars PROVE LatestInv'
  OBVIOUS
<1>1. latest \in Nat /\ heard \subseteq Nat
  BY ChatAssumption DEF Typed
<1>2. ASSUME NEW h \in Handlers, NEW m \in Messages, NEW k \in Kinds,
             Begin(h, m, k)
      PROVE  LatestInv'
  <2>1. m \in Nat /\ latest' = Newest(m) /\ heard' = heard \union {m}
    BY <1>2, ChatAssumption DEF Begin
  <2>2. /\ m <= latest' /\ latest <= latest' /\ latest' \in Nat
    BY <1>1, <2>1 DEF Newest
  <2> QED BY <1>1, <2>1, <2>2 DEF LatestInv
<1>3. CASE Evict
  BY <1>3 DEF Evict, LatestInv
<1>4. CASE latest' = latest /\ heard' = heard
  BY <1>4 DEF LatestInv
<1> QED BY <1>2, <1>3, <1>4 DEF Next, ConsumeQuota, AnswerElsewhere,
           LookAtRelation, MakeMedia, Ends, TimesOut, MediaTimesOut, Tell,
           LateLedger, ForgetAll, Pass, vars

LEMMA QuotaStep == Typed /\ QuotaInv /\ [Next]_vars => QuotaInv'
<1> SUFFICES ASSUME Typed, QuotaInv, Limit > 0, [Next]_vars PROVE QuotaInv'
  BY DEF QuotaInv
<1>1. /\ quota.used \in Nat /\ quota.reset \in Days
      /\ granted \in [Days -> Nat] /\ Limit \in Nat /\ Days \subseteq Nat
  BY ChatAssumption, DaysAreNat DEF Typed
<1>2. ASSUME NEW h \in Handlers, ConsumeQuota(h)
      PROVE  QuotaInv'
  <2> DEFINE q == Renewed(quota, turn[h].today)
  <2>1. turn[h].today \in Days
    BY DEF Typed, Turn
  <2>2. /\ q \in [used : Nat, reset : Days]
        /\ q.used \in Nat /\ q.reset \in Days
        /\ q.used <= Limit /\ granted[q.reset] <= q.used
        /\ \A d \in Days : /\ granted[d] <= Limit
                           /\ d > q.reset => granted[d] = 0
    <3>1. CASE quota.reset < turn[h].today
      <4>1. q = [used |-> 0, reset |-> turn[h].today]
        BY <3>1 DEF Renewed
      <4>2. q.used = 0 /\ q.reset = turn[h].today
        BY <4>1
      <4>3. /\ granted[turn[h].today] = 0
            /\ \A d \in Days : /\ granted[d] <= Limit
                               /\ d > quota.reset => granted[d] = 0
        BY <1>1, <2>1, <3>1 DEF QuotaInv
      <4>4. \A d \in Days : d > turn[h].today => d > quota.reset
        <5>1. quota.reset \in Nat /\ turn[h].today \in Nat
          BY <1>1, <2>1
        <5>2. ASSUME NEW d \in Days, d > turn[h].today
              PROVE  d > quota.reset
          <6>1. d \in Nat
            BY <1>1
          <6> QED BY <3>1, <5>1, <5>2, <6>1
        <5> QED BY <5>2
      <4>5. q \in [used : Nat, reset : Days]
        BY <2>1, <4>1
      <4> HIDE DEF q
      <4> QED BY <1>1, <2>1, <4>2, <4>3, <4>4, <4>5
    <3>2. CASE ~(quota.reset < turn[h].today)
      <4>1. q = quota
        BY <3>2 DEF Renewed
      <4> HIDE DEF q
      <4> QED BY <1>1, <4>1 DEF QuotaInv, Typed
    <3> QED BY <3>1, <3>2
  <2> HIDE DEF q
  <2>3. CASE /\ Limit = 0 \/ q.used < Limit
             /\ quota' = [q EXCEPT !.used = IF Limit = 0 THEN @ ELSE @ + 1]
             /\ granted' = [granted EXCEPT ![q.reset] = @ + 1]
    <3>1. quota'.used = q.used + 1 /\ quota'.reset = q.reset
      BY <1>1, <2>2, <2>3
    <3>2. \A d \in Days :
            granted'[d] = IF d = q.reset THEN granted[d] + 1 ELSE granted[d]
      BY <1>1, <2>3
    <3>3. q.used + 1 <= Limit
      BY <1>1, <2>2, <2>3
    <3>4. granted'[q.reset] <= q.used + 1 /\ granted'[q.reset] <= Limit
      <4>1. granted[q.reset] \in Nat /\ granted[q.reset] <= q.used
        BY <1>1, <2>2
      <4>2. granted'[q.reset] = granted[q.reset] + 1
        BY <2>2, <3>2
      <4> QED BY <1>1, <2>2, <3>3, <4>1, <4>2
    <3>5. \A d \in Days : /\ granted'[d] <= Limit
                          /\ d > q.reset => granted'[d] = 0
      BY <1>1, <2>2, <3>2, <3>4
    <3> QED BY <3>1, <3>3, <3>4, <3>5 DEF QuotaInv
  <2>4. CASE quota' = q /\ UNCHANGED granted
    BY <2>2, <2>4 DEF QuotaInv
  <2> QED BY <1>2, <2>3, <2>4 DEF ConsumeQuota, q
<1>3. CASE quota' = quota /\ granted' = granted
  BY <1>3 DEF QuotaInv
<1> QED BY <1>2, <1>3 DEF Next, Begin, AnswerElsewhere, LookAtRelation,
           MakeMedia, Ends, TimesOut, MediaTimesOut, Tell, LateLedger,
           ForgetAll, Evict, Pass, vars

LEMMA LedgerStep == Typed /\ LedgerInv /\ [Next]_vars => LedgerInv'
<1> SUFFICES ASSUME Typed, LedgerInv, [Next]_vars PROVE LedgerInv'
  OBVIOUS
<1>1. time \in Nat
  BY DEF Typed
<1>2. ASSUME NEW h \in Handlers, LookAtRelation(h)
      PROVE  LedgerInv'
  <2>1. <<turn[h].msg, turn[h].kind>> \in Messages \X Kinds
    BY <1>2 DEF LookAtRelation, Typed, Turn
  <2>2. CASE UpdateLedger(<<turn[h].msg, turn[h].kind>>)
    BY <1>1, <1>2, <2>1, <2>2, UpdateLedgerInv DEF LookAtRelation
  <2>3. CASE UNCHANGED <<ledger, events, grudge>>
    BY <1>2, <2>3 DEF LookAtRelation, LedgerInv, NoOldGrudge, Forgiven
  <2> QED BY <1>2, <2>2, <2>3 DEF LookAtRelation
<1>3. ASSUME NEW event \in threads, LateLedger(event)
      PROVE  LedgerInv'
  BY <1>1, <1>3, UpdateLedgerInv DEF LateLedger, Typed
<1>4. CASE ForgetAll
  BY <1>1, <1>4, EmptyLedger
     DEF ForgetAll, LedgerInv, NoOldGrudge, Forgiven
<1>5. ASSUME NEW ticks \in {1, LongPause}, Pass(ticks)
      PROVE  LedgerInv'
  <2>1. time <= time'
    BY <1>1, <1>5, ChatAssumption DEF Pass
  <2>2. time' \in Nat
    BY <1>1, <1>5, ChatAssumption DEF Pass
  <2>3. ledger.at <= time'
    BY <1>1, <2>1, <2>2, ProperFields DEF LedgerInv, Row
  <2> QED BY <1>5, <2>3 DEF Pass, LedgerInv, NoOldGrudge, Forgiven
<1>6. CASE UNCHANGED <<ledger, events, grudge, time>>
  BY <1>6 DEF LedgerInv, NoOldGrudge, Forgiven
<1> QED BY <1>2, <1>3, <1>4, <1>5, <1>6 DEF Next, Begin, ConsumeQuota,
           AnswerElsewhere, MakeMedia, Ends, TimesOut, MediaTimesOut, Tell,
           Evict, vars

LEMMA Invariance == Spec => []Inv
<1>1. Inv /\ [Next]_vars => Inv'
  BY TypedStep, LatestStep, QuotaStep, LedgerStep DEF Inv
<1> QED BY <1>1, InitInv, PTL DEF Spec

-----------------------------------------------------------------------------
(* What the chat promises.                                                 *)

\* Every reachable state is of its kind, and the row of the ledger keeps the
\* bounds of its columns and the status they imply.
THEOREM TypeCorrect == Spec => []TypeOK
<1>1. Inv => TypeOK
  BY DEF Inv, Typed, LedgerInv, Row, Proper, TypeOK
<1> QED BY <1>1, Invariance, PTL

\* No day's row ever grants more than the limit of the group, even if turns
\* before and after midnight count in any order.
THEOREM QuotaIsKept == Spec => []QuotaHolds
<1>1. Inv => QuotaHolds
  BY DEF Inv, QuotaInv, QuotaHolds
<1> QED BY <1>1, Invariance, PTL

\* However often messages are handled again, no more conflicts are closed than
\* insults were recorded.
THEOREM ForgivenOnce == Spec => []OneForgivenessPerConflict
<1>1. Inv => OneForgivenessPerConflict
  BY DEF Inv, LedgerInv, Forgiven, Insults, OneForgivenessPerConflict
<1> QED BY <1>1, Invariance, PTL

\* What is open never exceeds the insults since it was last zero.
THEOREM OldHurtIsGone == Spec => []NoOldGrudge
<1>1. Inv => NoOldGrudge
  BY DEF Inv, LedgerInv
<1> QED BY <1>1, Invariance, PTL

\* A member who went on talking is never told that the answer to an older turn
\* timed out; pictures and voice messages are left out, as in the code.
THEOREM NoticesAreFresh == Spec => NoStaleAnswerNotice
<1>1. ASSUME Inv, Next, NEW h \in Handlers,
             turn[h].phase # "telling", turn'[h].phase = "telling"
      PROVE  \A n \in heard : n <= turn[h].msg
  <2>1. turn \in [Handlers -> Turn]
    BY <1>1 DEF Inv, Typed
  <2>2. TimesOut(h) /\ ~Superseded(h)
    <3>1. ASSUME NEW g \in Handlers, Done(g)
          PROVE  FALSE
      BY <1>1, <2>1, <3>1 DEF Done, Idle
    <3>2. UNCHANGED turn => FALSE
      BY <1>1
    <3>3. ASSUME NEW g \in Handlers, TimesOut(g)
          PROVE  TimesOut(h) /\ ~Superseded(h)
      BY <1>1, <2>1, <3>1, <3>3 DEF TimesOut
    <3>4. ASSUME NEW g \in Handlers, NEW m \in Messages, NEW k \in Kinds,
                 Begin(g, m, k)
          PROVE  FALSE
      BY <1>1, <2>1, <3>4 DEF Begin
    <3>5. ASSUME NEW g \in Handlers, ConsumeQuota(g)
          PROVE  FALSE
      <4>1. turn' = [turn EXCEPT ![g].phase = "social", ![g].today = 0]
        BY <3>1, <3>5 DEF ConsumeQuota
      <4>2. CASE g = h
        <5>1. turn'[h].phase = "social"
          BY <2>1, <4>1, <4>2
        <5> QED BY <1>1, <5>1
      <4>3. CASE g # h
        BY <1>1, <2>1, <4>1, <4>3
      <4> QED BY <4>2, <4>3
    <3>6. ASSUME NEW g \in Handlers, LookAtRelation(g)
          PROVE  FALSE
      BY <1>1, <2>1, <3>6 DEF LookAtRelation
    <3>7. ASSUME NEW g \in Handlers, MakeMedia(g)
          PROVE  FALSE
      BY <1>1, <2>1, <3>7 DEF MakeMedia
    <3>8. ASSUME NEW g \in Handlers, MediaTimesOut(g)
          PROVE  FALSE
      BY <1>1, <2>1, <3>8 DEF MediaTimesOut
    <3> QED BY <1>1, <3>1, <3>2, <3>3, <3>4, <3>5, <3>6, <3>7, <3>8
            DEF Next, AnswerElsewhere, Ends, Tell, LateLedger, ForgetAll,
                Evict, Pass
  <2>3. turn[h].msg \in Messages
    BY <1>1, <2>2 DEF Inv, Typed, TimesOut
  <2>4. latest \in Nat /\ heard \subseteq Nat /\ turn[h].msg \in Nat
    <3>1. latest \in Messages \union {0} /\ heard \subseteq Messages
      BY <1>1 DEF Inv, Typed
    <3>2. Messages \subseteq Nat
      BY ChatAssumption
    <3>3. turn[h].msg \in Nat
      BY <2>3, <3>2
    <3>4. heard \subseteq Nat
      BY <3>1, <3>2
    <3>5. latest \in Nat
      BY <3>1, <3>2
    <3> QED BY <3>3, <3>4, <3>5
  <2>5. latest <= turn[h].msg
    BY <2>2, <2>4 DEF Superseded
  <2> QED BY <1>1, <2>4, <2>5 DEF Inv, LatestInv
<1>2. Inv /\ [Next]_vars =>
        [\A h \in Handlers :
           turn[h].phase # "telling" /\ turn'[h].phase = "telling"
             => \A n \in heard : n <= turn[h].msg]_vars
  BY <1>1
<1> QED BY <1>2, Invariance, PTL DEF Spec, NoStaleAnswerNotice
=============================================================================
