------------------------------- MODULE Episodes -------------------------------
(***************************************************************************)
(* Opportunity episodes and how much of them an order can capture          *)
(* (market_data/cross_broker.py: _episodes, resolved_episode_gap_ms;       *)
(* costs/latency.py).                                                      *)
(*                                                                         *)
(* A row is an aligned observation: when it was made (`at`), the better of *)
(* its two net edges (`net`), which direction that is, and whether it is   *)
(* crossable.                                                              *)
(***************************************************************************)
EXTENDS OrderedSets

CONSTANTS
    DefaultGap,       \* DEFAULT_EPISODE_GAP_MS
    SpacingMultiple,  \* EPISODE_GAP_SPACING_MULTIPLE
    Cadence           \* maximum_episode_gap_ms is None

ASSUME EpisodeConstants ==
    /\ DefaultGap \in Nat
    /\ SpacingMultiple \in Nat \ {0}
    /\ Cadence \notin Nat

Larger(m, n) == IF m < n THEN n ELSE m

-----------------------------------------------------------------------------
(* resolved_episode_gap_ms; medians are kept doubled to stay integers      *)

\* Twice the median of a non-empty sequence of numbers.
Median2(numbers) ==
    LET n == Len(numbers)
    IN  Ranked(numbers, (n + 1) \div 2) + Ranked(numbers, n \div 2 + 1)

Spacings(rows) == [k \in 1 .. (Len(rows) - 1) |-> rows[k + 1].at - rows[k].at]

\* Twice the gap that separates one episode from the next.
ResolvedGap2(rows, configured, tolerance) ==
    IF configured # Cadence THEN 2 * configured
    ELSE IF Len(rows) < 3 THEN 2 * DefaultGap
    ELSE Larger(Median2(Spacings(rows)) * SpacingMultiple, 2 * tolerance)

-----------------------------------------------------------------------------
(* _episodes                                                               *)

Crossable(rows) == RowsAt(rows, {k \in DOMAIN rows : rows[k].crossable})

\* Mutant of Starts: a gap as wide as the limit already separates.
StartsAtLimit(positive, gap2) ==
    {k \in DOMAIN positive :
        k = 1 \/ 2 * (positive[k].at - positive[k - 1].at) >= gap2}

\* Where a new group begins: the silence before it is wider than the gap.
Starts(positive, gap2) ==
    {k \in DOMAIN positive :
        k = 1 \/ 2 * (positive[k].at - positive[k - 1].at) > gap2}

\* idxmax: the first row with the largest net edge.
PeakOf(run) ==
    run[CHOOSE k \in DOMAIN run :
          /\ \A l \in DOMAIN run : run[l].net <= run[k].net
          /\ \A l \in 1 .. (k - 1) : run[l].net < run[k].net]

EpisodeOf(run) ==
    [direction |-> PeakOf(run).direction,
     start |-> run[1].at,
     end |-> run[Len(run)].at,
     peakOffset |-> PeakOf(run).at - run[1].at,
     observations |-> Len(run),
     peak |-> PeakOf(run).net]

EpisodesOf(rows, gap2) ==
    LET positive == Crossable(rows)
        starts == Ascending(Starts(positive, gap2))
        last(e) == IF e = Len(starts) THEN Len(positive) ELSE starts[e + 1] - 1
    IN  [e \in DOMAIN starts |-> EpisodeOf(SubSeq(positive, starts[e], last(e)))]

-----------------------------------------------------------------------------
(* costs/latency.py                                                        *)

Duration(episode) == episode.end - episode.start

\* Mutant of CapturedEdge: the edge held when the round trip completes is taken
\* for the whole window, as if the peak came first.
CapturedAtFirstInstant(peak, offset, duration, roundTrip) ==
    IF duration <= roundTrip THEN [num |-> 0, den |-> 1]
    ELSE [num |-> peak * (duration - roundTrip), den |-> duration]

\* _mean_edge_over_window: the mean of a tent that rises from zero to the peak
\* at its offset and decays to zero at the end, over the time the position is
\* held, as a numerator and a denominator.
CapturedEdge(peak, offset, duration, roundTrip) ==
    IF duration <= roundTrip THEN [num |-> 0, den |-> 1]
    ELSE LET width   == duration - offset
             lower   == Larger(roundTrip, offset)
             rising  == IF offset > roundTrip
                        THEN offset * offset - roundTrip * roundTrip ELSE 0
             falling == (duration - lower) * (duration - lower)
             rise    == Larger(offset, 1)
             fall    == Larger(width, 1)
         IN  [num |-> peak * (rising * fall + falling * rise),
              den |-> 2 * rise * fall * (duration - roundTrip)]

\* Mutant of CaptureStatus: the fraction of the edge, not of the time, decides.
CaptureStatusOfEdge(episode, order) ==
    IF episode.peak * order.minimum.den > order.minimum.num THEN "capturable"
    ELSE "not_capturable"

\* assess, for one episode.
CaptureStatus(episode, order) ==
    LET duration == Duration(episode)
        held     == duration - order.roundTrip
        captured == CapturedEdge(episode.peak, episode.peakOffset, duration, order.roundTrip)
    IN  IF held <= 0 \/ captured.num <= order.allowance * captured.den THEN "not_capturable"
        ELSE IF held * order.minimum.den < order.minimum.num * duration THEN "marginal"
        ELSE "capturable"

=============================================================================
