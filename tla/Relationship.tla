---------------------------- MODULE Relationship ----------------------------
(***************************************************************************)
(* The ledger of one speaker's relation to the bot, as the pure functions  *)
(* of botapp/emotions.py that memory/relationship.py applies to a row of   *)
(* NoyaRelationshipState.  Chat keeps the row and says when they run.      *)
(*                                                                         *)
(* Points are counted in hundredths, so that 2550 is 25.5 points; the row  *)
(* holds whole points only (the columns are integers) and the part of a    *)
(* point that decay has not taken yet.  Time is counted in ticks of half a *)
(* day.  Warmth, playfulness, trust and the mood's name are left out: they *)
(* do not decide any transition.                                           *)
(***************************************************************************)
EXTENDS Integers

Point == 100
MaxScore == 100 * Point

\* The severities of relationship_events.py times its confidence of 0.85.
Severity == [mild |-> 1020, serious |-> 2550, repeated |-> 3825]

\* REPAIR_DEFAULTS times the confidence; the kinds are also the classes of
\* credit, each of which counts once in a conflict.
Repair == [apology |-> 2250, acknowledgement |-> 1800, behavior |-> 1875]

SulkyMax == 34 * Point
SeriousDecay == Point \div 2          \* one point a day
MinorDecay == 2 * Point               \* four points a day

Negative == DOMAIN Severity
Repairing == DOMAIN Repair
Statuses == {"neutral", "hurt", "repairing", "reconciled"}

Credits == BOOLEAN \X Repairing

Ledger == [hurt : 0 .. MaxScore, repair : 0 .. MaxScore,
           fraction : 0 .. Point - 1, status : Statuses, active : BOOLEAN,
           count : Nat, credits : SUBSET Credits, at : Nat]

\* The defaults of the model's columns.
NoLedger == [hurt |-> 0, repair |-> 0, fraction |-> 0, status |-> "neutral",
             active |-> FALSE, count |-> 0, credits |-> {}, at |-> 0]

Least(a, b) == IF a < b THEN a ELSE b

Remaining(s) == s.hurt - s.repair

\* derive_relationship_status: the one table of the four phases.
Derived(s) ==
  IF Remaining(s) = 0
  THEN IF s.count > 0 \/ s.active THEN "reconciled" ELSE "neutral"
  ELSE IF s.credits # {} THEN "repairing" ELSE "hurt"

\* _finalize: a reconciled ledger has no active conflict.
Finalized(s) ==
  [s EXCEPT !.status = Derived(s),
            !.active = @ /\ Derived(s) # "reconciled"]

\* Python's round(): to the nearest point, a half to the even one.
Whole(x) ==
  LET points == x \div Point
      rest == x % Point
      up == rest > Point \div 2 \/ (rest = Point \div 2 /\ points % 2 = 1)
  IN Point * (IF up THEN points + 1 ELSE points)

\* _save_state: what lands in the row, with the status its columns imply.
Columns(s) ==
  [s EXCEPT !.hurt = Whole(@), !.repair = Least(Whole(@), Whole(s.hurt))]
FaultySaved(s) == Columns(s)
Saved(s) == [Columns(s) EXCEPT !.status = Derived(Columns(s))]

InConflict(s) == s.status \in {"hurt", "repairing"}

\* decay_state: hurt fades with the time since the last look at the ledger,
\* more slowly when it is serious.  (A ledger that never saw a negative event
\* has no hurt, so the early return for it is the first case here.)
Decayed(s, now) ==
  LET rate == IF s.hurt > SulkyMax THEN SeriousDecay ELSE MinorDecay
      accrued == (now - s.at) * rate + s.fraction
      gone == Least(s.hurt, Point * (accrued \div Point))
      hurt == s.hurt - gone
      fades == hurt = 0 /\ Remaining(s) > 0 /\ InConflict(s)
  IN IF s.hurt = 0 THEN Finalized([s EXCEPT !.at = now, !.fraction = 0])
     ELSE IF now = s.at THEN Finalized(s)
     ELSE Finalized([s EXCEPT
            !.hurt = hurt,
            !.repair = Least(@, hurt),
            !.fraction = IF hurt = 0 THEN 0 ELSE accrued % Point,
            !.active = @ /\ hurt > 0,
            !.count = IF fades THEN @ + 1 ELSE @,
            !.at = now])

\* apply_event, the first branch: a new conflict, which inherits no more than
\* the hurt that is still open.
FaultyCarried(s) == s.hurt
Carried(s) == Remaining(s)

Hurt(s, kind) ==
  [s EXCEPT !.hurt = Least(MaxScore, Carried(s) + Severity[kind]),
            !.repair = 0, !.fraction = 0, !.active = TRUE, !.credits = {}]

\* apply_event, the second branch: what is offered counts once in a conflict,
\* and closes it when it covers the hurt.  A credit is kept under the id of
\* the conflict, or under "none".
FaultyMayRepair(s, kind) == kind \in Repairing /\ s.hurt > 0
MayRepair(s, kind) ==
  kind \in Repairing /\ InConflict(s) /\ Remaining(s) > 0

Repaired(s, kind) ==
  LET credit == <<s.active, kind>>
      repair == Least(s.repair + Repair[kind], s.hurt)
      full == repair = s.hurt
  IN IF credit \in s.credits THEN s
     ELSE [s EXCEPT !.repair = repair, !.credits = @ \union {credit},
                    !.active = @ /\ ~full,
                    !.count = IF full THEN @ + 1 ELSE @]

\* apply_event: any other kind leaves the ledger as it is.
Applied(s, kind) ==
  Finalized(IF kind \in Negative THEN Hurt(s, kind)
            ELSE IF MayRepair(s, kind) THEN Repaired(s, kind)
            ELSE s)
=============================================================================
