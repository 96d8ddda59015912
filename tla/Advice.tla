-------------------------------- MODULE Advice --------------------------------
(***************************************************************************)
(* The recommendation stored with a case: what a case costs to try         *)
(* (cost-engine), what it settles for, and which of the two the answer of  *)
(* the model speaks for (decision-arith).                                  *)
(*                                                                         *)
(* Money is in dollars, and exact as in the code: the factors are whole    *)
(* percents of whole thousands.  Probabilities are in hundredths.  The     *)
(* gateway keeps them as f32 and compares them as f64, which moves a       *)
(* hundredth by less than 1e-7: GridAssumption of MCGateway keeps answers  *)
(* off the thresholds, where that would decide.  The bullets and the       *)
(* wording of the note are left out.                                       *)
(***************************************************************************)
EXTENDS Integers

CONSTANT U32   \* 2^32: the motion count is a u32

ASSUME WordAssumption == U32 \in Nat /\ U32 > 62

Damages == 100000   \* expected_damages, a placeholder of the gateway

-----------------------------------------------------------------------------
(* cost_engine::estimate_cost_v2 *)

\* Variant: the federal base is the state's.
OneBaseCost(jurisdiction) == IF jurisdiction \in {"us-federal", "us-state"} THEN 35000 ELSE 50000

\* The state slugs of the intake form, ca-state and nj-state, are neither key.
BaseCost(jurisdiction) ==
  IF jurisdiction = "us-federal" THEN 75000
  ELSE IF jurisdiction = "us-state" THEN 35000
  ELSE 50000

MotionPercent == 8
DurationPercent == 5
PartyPercent == 15
BaselineMonths == 12
BaselineParties == 2

\* Variant: an input beyond its cap is ignored, not clamped.
ExtraInRange(input, cap, baseline) ==
  IF input \in baseline..cap THEN input - baseline ELSE 0

\* A factor counts what an input has above its baseline, up to its cap.
Extra(input, cap, baseline) ==
  IF input > cap THEN cap - baseline
  ELSE IF input > baseline THEN input - baseline
  ELSE 0

Premium(cost, percent, extra) == (cost * (100 + percent * extra)) \div 100

\* A month per motion.  The sum is a u32: in a release build it wraps.
DurationMonths(motions) ==
  LET months == (BaselineMonths + motions) % U32
  IN  IF months > 60 THEN 60 ELSE months

Cost(jurisdiction, motions, months, parties) ==
  Premium(Premium(Premium(BaseCost(jurisdiction),
                          MotionPercent, Extra(motions, 50, 0)),
                  DurationPercent, Extra(months, 60, BaselineMonths)),
          PartyPercent, Extra(parties, 20, BaselineParties))

-----------------------------------------------------------------------------
(* decision_arith::recommend *)

SettleAnchor(jurisdiction) ==
  IF jurisdiction = "us-federal" THEN 45
  ELSE IF jurisdiction = "us-state" THEN 35
  ELSE 40

ValueOfSettling(jurisdiction) == (Damages * SettleAnchor(jurisdiction)) \div 100

ValueOfTrying(p, cost) == (Damages * p) \div 100 - cost

Kind(lower, try, settle) ==
  IF settle > try /\ lower < 40 THEN "Settle"
  ELSE IF try > settle /\ lower > 55 THEN "Try"
  ELSE "Borderline"

\* The width of the interval, its ends clamped to [0, 1].
Confidence(answer) ==
  LET Clamped(x) == IF x < 0 THEN 0 ELSE IF x > 100 THEN 100 ELSE x
      difference == Clamped(answer.upper) - Clamped(answer.lower)
      width == IF difference < 0 THEN -difference ELSE difference
  IN  IF width < 10 THEN "High" ELSE IF width < 20 THEN "Medium" ELSE "Low"

NoCounter == [shown |-> FALSE, atLower |-> "Borderline", atUpper |-> "Borderline"]

\* Variant: the bounds are swapped.
SwappedCounter(answer, cost, settle) ==
  IF Confidence(answer) # "Low" THEN NoCounter
  ELSE [shown |-> TRUE,
        atLower |-> Kind(answer.upper, ValueOfTrying(answer.upper, cost), settle),
        atUpper |-> Kind(answer.lower, ValueOfTrying(answer.lower, cost), settle)]

\* What the advice would be if the true probability were at either bound.
Counter(answer, cost, settle) ==
  IF Confidence(answer) # "Low" THEN NoCounter
  ELSE [shown |-> TRUE,
        atLower |-> Kind(answer.lower, ValueOfTrying(answer.lower, cost), settle),
        atUpper |-> Kind(answer.upper, ValueOfTrying(answer.upper, cost), settle)]

Recommend(answer, cost, jurisdiction) ==
  LET settle == ValueOfSettling(jurisdiction)
      try == ValueOfTrying(answer.p, cost)
  IN  [kind |-> Kind(answer.lower, try, settle),
       confidence |-> Confidence(answer),
       counter |-> Counter(answer, cost, settle),
       try |-> try, settle |-> settle]

\* The arguments the gateway gives the two: the filer's jurisdiction and motions,
\* and the baseline number of parties.
AdviceOn(input, answer) ==
  Recommend(answer,
            Cost(input.jurisdiction, input.motions, DurationMonths(input.motions),
                 BaselineParties),
            input.jurisdiction)

\* From the most cautious advice to the boldest.
Boldness(kind) == IF kind = "Settle" THEN 0 ELSE IF kind = "Borderline" THEN 1 ELSE 2
=============================================================================
