----------------------------- MODULE MCTradeGate -----------------------------
(* An instance of TradeGate for TLC: every kind of request, one concern at *)
(* a time.                                                                 *)
EXTENDS TradeGate

\* Specifications that differ in what the verdicts depend on.
Specification(size, tickValue, step, max, margin, mode) ==
    [symbol |-> "gold", base |-> "XAU", profit |-> "USD", digits |-> 2, point |-> 2,
     mode |-> mode, size |-> size, min |-> 2, max |-> max, step |-> step,
     tickSize |-> 1, tickValue |-> tickValue, margin |-> margin]

Plain == Specification(2, 200, 1, 60, 5, 4)

\* What one broker may say otherwise, each field alone.
Odd ==
    {[Plain EXCEPT !.base = "XAG"], [Plain EXCEPT !.profit = "EUR"],
     [Plain EXCEPT !.digits = 3], [Plain EXCEPT !.digits = 3, !.point = 3],
     [Plain EXCEPT !.mode = 0], [Plain EXCEPT !.mode = Unset],
     [Plain EXCEPT !.min = 3], [Plain EXCEPT !.step = 2], [Plain EXCEPT !.tickSize = 2],
     [Plain EXCEPT !.size = 0], [Plain EXCEPT !.max = 1]}

\* Sizes, tick values, steps, caps and margins in every combination.
Sized ==
    {Specification(size, tickValue, step, max, margin, 4) :
        size \in {1, 2}, tickValue \in {100, 101, 103, 200, 202},
        step \in {1, 4}, max \in {3, 9, 60}, margin \in {0, 5}}

File(specification) == [list |-> FALSE, entries |-> <<specification>>]

\* An export for two symbols.
Export(first, second) == [list |-> TRUE, entries |-> <<first, second>>]

Silver == [Plain EXCEPT !.symbol = "silver", !.tickValue = 100]

-----------------------------------------------------------------------------

\* A row at a time with a net edge.
Row(t, edge) ==
    [at |-> t, a |-> [bid |-> 10, ask |-> 12], b |-> [bid |-> 12 + edge, ask |-> 16 + edge],
     net |-> 0, direction |-> "none", crossable |-> FALSE]

RowsOf(times, edges) == [k \in 1 .. 4 |-> Row(times[k], edges[k])]

\* Observations two or four apart, or a silence before the last or in the middle.
Timetables == {<<0, 2, 4, 6>>, <<0, 4, 8, 12>>, <<0, 2, 4, 12>>, <<0, 2, 10, 12>>}

Steady == RowsOf(<<0, 2, 4, 6>>, <<2, 4, 1, 1>>)

Anything ==
    [fileA |-> Unset, fileB |-> Unset, symbolA |-> "gold", symbolB |-> "gold",
     rows |-> Steady, cost |-> 0, tolerance |-> 1,
     volume |-> 6, leverage |-> Unset, minimumFill |-> [num |-> 9, den |-> 10],
     log |-> Unset, query |-> [symbol |-> "any", broker |-> "any", any |-> "any",
                               statistic |-> "median"],
     latency |-> Unset, allowance |-> 0, minimum |-> [num |-> 1, den |-> 4],
     grid |-> {}, allowances |-> {}, saved |-> <<>>]

\* The contracts and the size.
Sizing ==
    {[Anything EXCEPT !.fileA = File(a), !.fileB = File(b),
                      !.volume = volume, !.leverage = leverage] :
        a \in {c \in Sized : c.tickValue \in {100, 200} /\ c.margin = 5}, b \in Sized,
        volume \in {2, 6, 22}, leverage \in {Unset, 2}}
    \cup {[Anything EXCEPT !.fileA = File(a), !.fileB = File(b), !.volume = 22,
                           !.minimumFill = [num |-> 0, den |-> 1], !.leverage = 2] :
            a, b \in {c \in Sized : c.tickValue = 100 * c.size}}

Contracting ==
    {[Anything EXCEPT !.fileA = a, !.fileB = b] :
        a \in {Unset, File(Plain)} \cup {File(c) : c \in Odd},
        b \in {Unset, File(Plain), Export(Plain, Silver), Export(Plain, Plain),
               Export(Silver, Silver)}}
    \cup {[Anything EXCEPT !.fileA = File(c), !.fileB = File(Plain),
                           !.rows = RowsOf(<<0, 2, 4, 6>>, <<-1, -2, -1, -1>>)] :
            c \in {Plain, Silver} \cup Odd}
    \cup {[Anything EXCEPT !.volume = 0], [Anything EXCEPT !.leverage = 0],
           [Anything EXCEPT !.cost = -1], [Anything EXCEPT !.minimumFill.num = 11]}

\* The edge, its episodes and the latency.
Holding ==
    {[Anything EXCEPT !.rows = RowsOf(times, edges), !.latency = perLeg, !.allowance = allowance,
                      !.grid = grid, !.cost = cost] :
        times \in Timetables, edges \in [1 .. 4 -> {-1, 1, 6}], perLeg \in {1, 2},
        allowance \in {0, 1}, cost \in {0, 1},
        grid \in {{}, {1, 2, 4}, {2, 3}}}
    \cup {[Anything EXCEPT !.grid = {0, 1}], [Anything EXCEPT !.latency = 0]}

Sample(roundTrip, symbol, broker) ==
    [roundTrip |-> roundTrip, symbol |-> symbol, broker |-> broker]

\* Observations four apart: the edge is held for twelve.
Measuring ==
    {[Anything EXCEPT !.rows = RowsOf(<<0, 4, 8, 12>>, <<2, 4, 1, 1>>),
                      !.log = log, !.latency = perLeg,
                      !.query = [symbol |-> symbol, broker |-> "x", any |-> "any",
                                 statistic |-> statistic]] :
        log \in {<<Sample(2, "gold", "x"), Sample(6, "gold", "x"), Sample(4, "gold", "y")>>,
                 <<Sample(4, "gold", "x"), Sample(2, "silver", "x"), Sample(8, "gold", "x")>>,
                 <<Sample(4, "gold", "x"), Sample(0, "silver", "y")>>,
                 <<Sample(4, "gold", "y")>>},
        perLeg \in {Unset, 1}, symbol \in {"any", "gold"},
        statistic \in {"mean", "median", "p95", "maximum", "minimum"}}

Captured(length, offset, edge) ==
    [direction |-> "buy_a_sell_b", start |-> 0, end |-> length, peakOffset |-> offset,
     observations |-> 2, peak |-> edge]

\* Reports of an earlier day: without offsets, with an impossible one, or whole.
Saved ==
    {<<Captured(8, Unset, 4)>>, <<Captured(8, 9, 4), Captured(8, 2, 4)>>,
     <<Captured(8, 8, 4), Captured(4, 0, 2)>>, <<Captured(8, 4, 8), Captured(2, 0, 1)>>}

Revisiting ==
    {[Anything EXCEPT !.saved = saved, !.allowances = allowances, !.latency = perLeg,
                      !.allowance = allowance] :
        saved \in Saved, perLeg \in {1, 2}, allowance \in {0, 1},
        allowances \in {{0, 1, 4}, {1, 2, 3}, {0}, {0 - 1, 1}}}
    \cup {[Anything EXCEPT !.saved = <<Captured(8, 0, 18), Captured(5, 5, 40)>>,
                           !.allowances = {4, 5}, !.latency = 2, !.allowance = 4]}

MCRequests == Sizing \cup Contracting \cup Holding \cup Measuring \cup Revisiting

\* As in the code the points are ever wider apart.
MCGrid == {1, 2, 4, 8}

-----------------------------------------------------------------------------

\* Funding has no seams: a hold is charged what its parts are charged, however
\* it is cut, and a week, whatever day it begins, nine nights
\* (execution.py:356-360 recalls a rollover that was charged a third).
ASSUME FundingIsAdditive ==
    \A weekday, start \in 0 .. 6 :
        /\ ChargedNights(start, start + 7, weekday) = 9
        /\ \A mid, end \in start .. (start + 14) : mid <= end =>
              ChargedNights(start, end, weekday)
                = ChargedNights(start, mid, weekday) + ChargedNights(mid, end, weekday)
=============================================================================
