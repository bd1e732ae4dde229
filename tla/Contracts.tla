------------------------------ MODULE Contracts ------------------------------
(***************************************************************************)
(* market_data/contract.py: when the contract specifications of two        *)
(* brokers describe one instrument, and what a price difference between    *)
(* them is worth.                                                          *)
(*                                                                         *)
(* A specification is a record.  Its numbers are integers: `point` is the  *)
(* number of decimals it stands for, volumes are in steps fine enough that *)
(* every division below is exact, and the tolerances, which the code       *)
(* states as relative ones, are compared by cross-multiplying.             *)
(***************************************************************************)
EXTENDS Integers

CONSTANT Unset   \* None: no specification, or a field the broker left out

ASSUME UnsetIsNoNumber == Unset \notin Int

Greater(m, n) == IF m < n THEN n ELSE m

Magnitude(m) == IF m < 0 THEN -m ELSE m

\* isclose(m, n, rel_tol=1/percent'th), on non-negative numbers.
Within(m, n, parts) == parts * Magnitude(m - n) <= Greater(m, n)

ValueTolerance == 100  \* VALUE_PER_UNIT_TOLERANCE = 0.01
LegTolerance   == 20   \* LEG_AGREEMENT_TOLERANCE = 0.05

\* ContractSpecification.__post_init__.
Malformed(c) ==
    \/ c.size <= 0 \/ c.step <= 0 \/ c.min <= 0
    \/ c.tickSize <= 0 \/ c.tickValue <= 0
    \/ c.margin < 0
    \/ c.max < c.min

-----------------------------------------------------------------------------
(* ContractSpecificationAnalyzer.compare                                   *)

\* The issues no normalization can reconcile, whichever broker is A.
Irreconcilable(a, b) ==
    \/ a.base # b.base
    \/ a.profit # b.profit
    \/ a.point # b.point
    \/ a.tickSize # b.tickSize
    \/ a.digits # a.point
    \/ b.digits # b.point
    \/ a.min # b.min
    \/ a.step # b.step
    \/ Unset \notin {a.mode, b.mode} /\ a.mode # b.mode

\* What one unit of the underlying earns per unit of price at each broker,
\* over a common denominator.
WorthA(a, b) == a.tickValue * b.tickSize * b.size
WorthB(a, b) == b.tickValue * a.tickSize * a.size

ValuesTheSameInstrument(a, b) == Within(WorthA(a, b), WorthB(a, b), ValueTolerance)

\* Mutant of Compatibility: contract size and tick value need not scale together.
CompatibilityOfSizes(a, b) ==
    IF a = Unset /\ b = Unset THEN "unverified"
    ELSE IF Unset \in {a, b} THEN "review_required"
    ELSE IF Irreconcilable(a, b) THEN "incompatible"
    ELSE IF Unset \in {a.mode, b.mode} THEN "review_required"
    ELSE IF a.size # b.size \/ a.tickValue # b.tickValue THEN "normalization_required"
    ELSE "compatible"

Compatibility(a, b) ==
    IF a = Unset /\ b = Unset THEN "unverified"
    ELSE IF Unset \in {a, b} THEN "review_required"
    ELSE IF Irreconcilable(a, b) THEN "incompatible"
    ELSE IF Unset \in {a.mode, b.mode} THEN "review_required"
    ELSE IF ~ValuesTheSameInstrument(a, b) THEN "incompatible"
    ELSE IF a.size # b.size \/ a.tickValue # b.tickValue THEN "normalization_required"
    ELSE "compatible"

Blocks(status) == status \in {"incompatible", "review_required"}

Normalizes(status) == status \in {"compatible", "normalization_required"}

-----------------------------------------------------------------------------
(* ContractEdgeNormalizer.normalize                                        *)

\* The volume at B that covers the underlying of `volume` at A.
VolumeB(volume, a, b) == (volume * a.size) \div b.size

\* The profit of one lot at A as each leg values it, over a common denominator.
ProfitA(edge, a, b) == edge * WorthA(a, b)
ProfitB(edge, a, b) == edge * WorthB(a, b)

LegsAgree(edge, a, b) ==
    LET profits == {Magnitude(ProfitA(edge, a, b)), Magnitude(ProfitB(edge, a, b))}
    IN  \/ profits = {0}
        \/ Within(Magnitude(ProfitA(edge, a, b)), Magnitude(ProfitB(edge, a, b)), LegTolerance)

=============================================================================
