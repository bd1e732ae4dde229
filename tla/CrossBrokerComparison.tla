------------------------ MODULE CrossBrokerComparison ------------------------
(***************************************************************************)
(* `CrossBrokerComparisonEngine.compare` (market_data/cross_broker.py):    *)
(* two brokers' frames are prepared, aligned by event time, priced in both *)
(* directions, grouped into opportunity episodes, and every episode is     *)
(* held against the time an order takes.                                   *)
(***************************************************************************)
EXTENDS TickAlignment, Episodes

CONSTANTS
    Requests,  \* what may be asked for
    FramesA,   \* what the first broker's file may hold
    FramesB    \* and the second's

VARIABLES
    pc,        \* the next stage, or the error that ended the comparison
    request,
    rawA, rawB,
    a, b,      \* the prepared frames
    rows,      \* the aligned observations
    episodes,
    statuses,  \* the latency model's verdict on each episode
    verdict    \* the summary's classification

Quote == [at : Int, bid : Int, ask : Int]

Request ==
    [kind : {"tick", "bar"}, mode : {"symmetric", "anchor_a"}, aggregation : {"none", "last"},
     tolerance : Nat, cost : Nat, gap : Nat \cup {Cadence},
     order : [roundTrip : Nat \ {0}, allowance : Nat,
              minimum : [num : Nat, den : Nat \ {0}]]]

\* What CrossBrokerRequest and CrossBrokerCostModel accept, and what a file
\* of quotes holds.
ASSUME ComparisonConstants ==
    /\ Requests \subseteq Request
    /\ FramesA \subseteq Seq(Quote) /\ FramesB \subseteq Seq(Quote)

vars == <<pc, request, rawA, rawB, a, b, rows, episodes, statuses, verdict>>

Init ==
    /\ pc = "prepare"
    /\ request \in Requests
    /\ rawA \in FramesA
    /\ rawB \in FramesB
    /\ a = <<>> /\ b = <<>> /\ rows = <<>>
    /\ episodes = <<>> /\ statuses = <<>>
    /\ verdict = "none"

inputs == <<request, rawA, rawB>>

-----------------------------------------------------------------------------

\* Both frames are prepared, A first; either may be refused.
Prepare ==
    /\ pc = "prepare"
    /\ ~Refused(rawA, request.kind, request.aggregation)
    /\ ~Refused(rawB, request.kind, request.aggregation)
    /\ a' = Chronological(rawA)
    /\ b' = Chronological(rawB)
    /\ pc' = "align"
    /\ UNCHANGED <<inputs, rows, episodes, statuses, verdict>>

PrepareRefuses ==
    /\ pc = "prepare"
    /\ \/ Refused(rawA, request.kind, request.aggregation)
       \/ Refused(rawB, request.kind, request.aggregation)
    /\ pc' = "DataQualityError"
    /\ UNCHANGED <<inputs, a, b, rows, episodes, statuses, verdict>>

\* The quotes of a match, and when they were quoted.
Observation(m) ==
    [at |-> a[m[1]].at, bAt |-> b[m[2]].at, quoteA |-> a[m[1]], quoteB |-> b[m[2]]]

\* One observation per match, in the order of A.
Aligned ==
    LET matches == Matches(request.mode, a, b, request.tolerance)
        order == Ascending({m[1] : m \in matches})
        partner(i) == CHOOSE m \in matches : m[1] = i
    IN  [k \in DOMAIN order |-> Observation(partner(order[k]))]

Align ==
    /\ pc = "align"
    /\ Aligned # <<>>
    /\ rows' = Aligned
    /\ pc' = "assess"
    /\ UNCHANGED <<inputs, a, b, episodes, statuses, verdict>>

NothingAligned ==
    /\ pc = "align"
    /\ Aligned = <<>>
    /\ pc' = "InsufficientDataError"
    /\ UNCHANGED <<inputs, a, b, rows, episodes, statuses, verdict>>

-----------------------------------------------------------------------------

\* Bars are compared in theory only: nothing is crossable.
SummariseBars ==
    /\ pc = "assess" /\ request.kind = "bar"
    /\ verdict' = "theoretical_bar_price_comparison"
    /\ pc' = "done"
    /\ UNCHANGED <<inputs, a, b, rows, episodes, statuses>>

BuyA(row) == row.quoteB.bid - row.quoteA.ask - request.cost
BuyB(row) == row.quoteA.bid - row.quoteB.ask - request.cost

\* A row with its better net edge; a blocked comparison crosses nothing.
Priced(row, open) ==
    [at |-> row.at, bAt |-> row.bAt,
     net |-> Larger(BuyA(row), BuyB(row)),
     direction |-> IF BuyA(row) >= BuyB(row) THEN "buy_a_sell_b" ELSE "buy_b_sell_a",
     crossable |-> open /\ Larger(BuyA(row), BuyB(row)) > 0]

\* Both directions of every row are priced; the contracts and the execution
\* model may block the whole comparison.
Assess ==
    /\ pc = "assess" /\ request.kind = "tick"
    /\ \E gate \in {"open", "blocked_by_contract_specification", "blocked_by_execution_feasibility"} :
        /\ rows' = [k \in DOMAIN rows |-> Priced(rows[k], gate = "open")]
        /\ verdict' = IF gate = "open" THEN "crossable" ELSE gate
    /\ pc' = "group"
    /\ UNCHANGED <<inputs, a, b, episodes, statuses>>

Gap2 == ResolvedGap2(rows, request.gap, request.tolerance)

Group ==
    /\ pc = "group"
    /\ episodes' = EpisodesOf(rows, Gap2)
    /\ pc' = "capture"
    /\ UNCHANGED <<inputs, a, b, rows, statuses, verdict>>

\* No episode, no latency verdict; no capturable episode, no opportunity.
Capture ==
    /\ pc = "capture"
    /\ statuses' = [e \in DOMAIN episodes |-> CaptureStatus(episodes[e], request.order)]
    /\ verdict' = IF episodes # <<>> /\ \A e \in DOMAIN episodes : statuses'[e] # "capturable"
                  THEN "not_capturable_within_latency" ELSE verdict
    /\ pc' = "done"
    /\ UNCHANGED <<inputs, a, b, rows, episodes>>

Next ==
    \/ Prepare \/ PrepareRefuses
    \/ Align \/ NothingAligned
    \/ SummariseBars \/ Assess \/ Group \/ Capture

Spec == Init /\ [][Next]_vars

-----------------------------------------------------------------------------
(* Properties                                                              *)

Symmetric == request.mode = "symmetric"

\* "This produces a one-to-one comparison set and prevents duplicate reuse of a
\* quote" (docs/research/EVENT_TIME.md:7): in symmetric mode no quote of either
\* broker is used twice, and the matches never cross in time.
EachQuoteOnce ==
    Symmetric =>
        \A k, l \in DOMAIN rows : k < l => rows[k].at < rows[l].at /\ rows[k].bAt < rows[l].bAt

\* However a terminal orders its rows, a match is within the tolerance and no
\* quote of B's file is nearer to A's, nor, in symmetric mode, of A's to B's.
MatchesAreNearest ==
    \A k \in DOMAIN rows :
        /\ Distance(rows[k].at, rows[k].bAt) <= request.tolerance
        /\ \A t \in Times(rawB) : Distance(rows[k].at, rows[k].bAt) <= Distance(rows[k].at, t)
        /\ Symmetric =>
             \A t \in Times(rawA) : Distance(rows[k].at, rows[k].bAt) <= Distance(t, rows[k].bAt)

\* A symmetric match does not depend on which broker is called A: ties are
\* broken the same way from both sides.
EitherBrokerFirst ==
    pc = "assess" /\ Symmetric =>
        {<<rows[k].bAt, rows[k].at>> : k \in DOMAIN rows} =
        {<<b[m[1]].at, a[m[2]].at>> : m \in Matches(request.mode, b, a, request.tolerance)}

CrossableRows == {k \in DOMAIN rows : rows[k].crossable}

In(k, e) == rows[k].at >= episodes[e].start /\ rows[k].at <= episodes[e].end

\* No crossable row lies between these two.
Successive(k, l) == k < l /\ \A m \in CrossableRows : m <= k \/ m >= l

\* Episodes partition the crossable observations, and two successive ones are
\* in one episode exactly when no silence wider than the gap separates them;
\* the peak is the best edge of the episode, where it was observed.
EpisodesPartitionTheEdge ==
    pc = "capture" =>
        /\ \A k \in CrossableRows : \E e \in DOMAIN episodes :
              In(k, e) /\ \A f \in DOMAIN episodes : In(k, f) => f = e
        /\ \A e \in DOMAIN episodes :
              LET members == {k \in CrossableRows : In(k, e)}
              IN  /\ episodes[e].observations = Cardinality(members)
                  /\ \A k \in members : rows[k].net <= episodes[e].peak
                  /\ \E k \in members : /\ rows[k].net = episodes[e].peak
                                        /\ rows[k].at = episodes[e].start + episodes[e].peakOffset
        /\ \A k, l \in CrossableRows : Successive(k, l) =>
              ((\E e \in DOMAIN episodes : In(k, e) /\ In(l, e))
                  <=> 2 * (rows[l].at - rows[k].at) <= Gap2)

\* A discrepancy is called crossable without the latency caveat only when two
\* crossable observations, with no silence wider than the gap between them,
\* were further apart than the round trip.
CrossableWasHeldLongEnough ==
    pc = "done" /\ verdict = "crossable" /\ episodes # <<>> =>
        \E k, l \in CrossableRows :
            /\ rows[l].at - rows[k].at > request.order.roundTrip
            /\ \A m, n \in CrossableRows :
                  Successive(m, n) /\ k <= m /\ n <= l => 2 * (rows[n].at - rows[m].at) <= Gap2

\* Twice the area under a line between two heights.
Trapezoid2(width, left, right) == width * (left + right)

\* "The mean is the integral over that window divided by its width"
\* (costs/latency.py:222-223): twice the area under the tent while the position
\* is held, scaled by both flanks, summed by trapezoids between its corners.
\* The captured edge is that mean, and never exceeds the peak.
CaptureIsTheMeanOfTheTent ==
    pc = "done" =>
        \A e \in DOMAIN episodes :
            LET d == Duration(episodes[e])
                r == request.order.roundTrip
                o == episodes[e].peakOffset
                p == episodes[e].peak
                rise == Larger(o, 1)
                fall == Larger(d - o, 1)
                \* the height at t, times both flanks
                height(t) == IF t <= o /\ o > 0 THEN p * t * fall
                             ELSE p * (d - t) * rise
                area2 == IF r < o
                         THEN Trapezoid2(o - r, height(r), p * rise * fall)
                              + (IF o < d THEN Trapezoid2(d - o, p * rise * fall, 0) ELSE 0)
                         ELSE Trapezoid2(d - r, height(r), 0)
                captured == CapturedEdge(p, o, d, r)
            IN  /\ d > r => captured.num * 2 * rise * fall * (d - r) = captured.den * area2
                /\ captured.num <= p * captured.den

=============================================================================
