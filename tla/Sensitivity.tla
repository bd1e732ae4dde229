----------------------------- MODULE Sensitivity -----------------------------
(***************************************************************************)
(* costs/sensitivity.py: the capture verdict is recomputed over a grid of  *)
(* one assumed input, and how far it travels from the configured value is  *)
(* reported as a label.                                                    *)
(*                                                                         *)
(* An order is what RoundTripAssumption holds: the latency of one leg, the *)
(* adverse-move allowance and the least capturable fraction [num, den].    *)
(* A captured episode is an entry of a persisted capture report.           *)
(***************************************************************************)
EXTENDS Episodes

Legs == 2

\* LatencyCaptureModel.assess of one episode under an order.
StatusUnder(episode, order) ==
    CaptureStatus(episode, [roundTrip |-> Legs * order.latency,
                            allowance |-> order.allowance, minimum |-> order.minimum])

Count(episodes, order, status) ==
    Cardinality({e \in DOMAIN episodes : StatusUnder(episodes[e], order) = status})

Survives(episodes, order) == Count(episodes, order, "capturable") > 0

Plus(m, n) == [num |-> m.num * n.den + n.num * m.den, den |-> m.den * n.den]

\* The sum over the episodes of the edge captured, with the allowance taken off
\* on the axis that varies it.
CapturedSum(episodes, order, axis) ==
    LET gross(e) == CapturedEdge(e.peak, e.peakOffset, Duration(e), Legs * order.latency)
        kept(e)  == IF axis = "allowance"
                    THEN [num |-> gross(e).num - order.allowance * gross(e).den,
                          den |-> gross(e).den]
                    ELSE gross(e)
    IN  FoldSeq(LAMBDA e, sum : Plus(kept(e), sum), [num |-> 0, den |-> 1], episodes)

PeakSum(episodes) == FoldSeq(LAMBDA e, sum : e.peak + sum, 0, episodes)

\* captured_share_of_peak < MATERIAL_CAPTURED_SHARE.
ShareIsNegligible(episodes, order, axis) ==
    LET captured == CapturedSum(episodes, order, axis)
    IN  5 * captured.num < PeakSum(episodes) * captured.den

\* capturable_fraction < MATERIAL_CAPTURABLE_FRACTION.
FewAreCapturable(episodes, order) ==
    4 * Count(episodes, order, "capturable") < Len(episodes)

-----------------------------------------------------------------------------

\* The order at one point of the sweep.
At(order, axis, value) ==
    IF axis = "latency" THEN [order EXCEPT !.latency = value]
    ELSE [order EXCEPT !.allowance = value]

BaselineOf(order, axis) == IF axis = "latency" THEN order.latency ELSE order.allowance

GridRefused(axis, grid) ==
    \/ grid = {}
    \/ \E value \in grid : IF axis = "latency" THEN value <= 0 ELSE value < 0

\* max and min of a non-empty set of grid values.
Highest(values) == CHOOSE v \in values : \A w \in values : w <= v
Lowest(values) == CHOOSE v \in values : \A w \in values : v <= w

\* _step: the least distance between two grid values.
GridStep(grid) ==
    LET steps == {v - w : v, w \in grid} \cap (Nat \ {0})
    IN  IF steps = {} THEN 0 ELSE Lowest(steps)

\* _fragility, of the values that survive and those that fail.
LatencyLabel(grid, surviving, baseline) ==
    LET span == Highest(surviving) - Lowest(surviving)
    IN  IF span = 0 \/ span <= GridStep(grid) THEN "knife_edge"
        ELSE IF Highest(surviving) <= baseline THEN "sensitive"
        ELSE "stable"

AllowanceLabel(surviving, failing) ==
    LET boundary == Highest(surviving)
    IN  IF boundary = Lowest(surviving) /\ 4 * (Lowest(failing) - boundary) <= boundary
        THEN "knife_edge" ELSE "sensitive"

\* A baseline that is not on the grid has captured nothing.
Immaterial(episodes, order, axis, grid) ==
    \/ BaselineOf(order, axis) \notin grid
    \/ FewAreCapturable(episodes, order)
    \/ ShareIsNegligible(episodes, order, axis)

Fragility(episodes, order, axis, grid) ==
    LET surviving == {v \in grid : Survives(episodes, At(order, axis, v))}
        failing   == grid \ surviving
    IN  IF surviving = {} THEN "always_fails"
        ELSE IF Immaterial(episodes, order, axis, grid) THEN "nominal"
        ELSE IF failing = {} THEN "always_holds"
        ELSE IF axis = "latency" THEN LatencyLabel(grid, surviving, order.latency)
        ELSE AllowanceLabel(surviving, failing)

\* sweep and sweep_adverse_move.
Sweep(episodes, order, axis, grid) ==
    LET surviving == {v \in grid : Survives(episodes, At(order, axis, v))}
    IN  [axis |-> axis,
         surviving |-> surviving,
         baselineSurvives |-> BaselineOf(order, axis) \in surviving,
         fragility |-> Fragility(episodes, order, axis, grid)]

\* Mutant of EpisodesFromReport: a peak is taken to open its episode.
PeaksFirst(captures) == [c \in DOMAIN captures |-> [captures[c] EXCEPT !.peakOffset = 0]]

\* episodes_from_report: a capture whose numbers are absent, or whose peak could
\* not lie inside it, is dropped rather than repaired.
EpisodesFromReport(captures) ==
    RowsAt(captures, {k \in DOMAIN captures :
                         /\ captures[k].peakOffset \in Nat
                         /\ captures[k].peak > 0
                         /\ captures[k].peakOffset <= Duration(captures[k])})

=============================================================================
