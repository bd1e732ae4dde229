------------------------------- MODULE Backtest -------------------------------
(***************************************************************************)
(* The research backtester (backtesting/engine.py, multi_stage.py): which  *)
(* bar settles a decision, and what is reported of the settled trades.     *)
(*                                                                         *)
(* A frame is a sequence of rows in time order, so a position stands for a *)
(* timestamp.  A row has one number per signal column, a gross edge and a  *)
(* cost, each of which may be missing (NoValue).                           *)
(***************************************************************************)
EXTENDS Integers, FiniteSets, FiniteSetsExt

CONSTANT NoValue

ASSUME MissingIsNoNumber == NoValue \notin Int

Value == Int \cup {NoValue}

-----------------------------------------------------------------------------
(* Decisions and the bars that settle them                                 *)

\* _outcome_offset: bars between a decision and the bar that settles it.
Offset(convention) == IF convention = "earned_over_following_bar" THEN 1 ELSE 0

\* A signal above its threshold; a missing one is above none.
Above(frame, column, threshold) ==
    {t \in DOMAIN frame :
        frame[t].signal[column] # NoValue /\ frame[t].signal[column] > threshold}

\* A raw signal column: any number but zero.
Truthy(frame, column) ==
    {t \in DOMAIN frame : frame[t].signal[column] \notin {NoValue, 0}}

\* Mutant of Decisions: the last bars of the slice are decided on as well.
DecisionsToTheEnd(frame, window, firing, offset) ==
    {t \in firing : /\ window.first <= t /\ t <= window.last
                    /\ t + offset \in DOMAIN frame
                    /\ frame[t + offset].gross # NoValue
                    /\ frame[t + offset].cost # NoValue}

\* The decisions of run_next_observation on the rows of a slice: those that
\* fire, leave room in the slice for the bar that settles them, and find an
\* edge and a cost there.
Decisions(frame, window, firing, offset) ==
    {t \in firing : /\ window.first <= t /\ t <= window.last - offset
                    /\ frame[t + offset].gross # NoValue
                    /\ frame[t + offset].cost # NoValue}

TradeAt(frame, t, offset) ==
    [decision |-> t, execution |-> t + offset,
     gross |-> frame[t + offset].gross, cost |-> frame[t + offset].cost]

Trades(frame, window, firing, offset) ==
    {TradeAt(frame, t, offset) : t \in Decisions(frame, window, firing, offset)}

Whole(frame) == [first |-> 1, last |-> Cardinality(DOMAIN frame)]

-----------------------------------------------------------------------------
(* summarize_trades, of trades that are settled by different bars          *)

Net(trade) == trade.gross - trade.cost

Taken(trades) == {trade \in trades : trade.gross > 0}

NetEdge(trades) == MapThenSumSet(Net, trades)

\* The average over the trades taken, as a fraction; none if there is none.
AverageReturn(trades) ==
    IF Taken(trades) = {} THEN NoValue
    ELSE [num |-> NetEdge(Taken(trades)), den |-> Cardinality(Taken(trades))]

\* As MetricsUnseeded has it: the running peak is not seeded with zero.
DrawdownFromTheFirstPeak(equity) ==
    Min({0} \cup {equity[k] - Max({equity[l] : l \in 1 .. k}) : k \in DOMAIN equity})

\* The deepest fall of an equity curve below its peak, zero included.
Drawdown(equity) ==
    Min({0} \cup {equity[k] - Max({0} \cup {equity[l] : l \in 1 .. k}) : k \in DOMAIN equity})

\* The equity curve, one value per trade in the order of the settling bars.
Equity(trades) ==
    [k \in 1 .. Cardinality(trades) |->
        NetEdge({trade \in trades :
            Cardinality({u \in trades : u.execution <= trade.execution}) <= k})]

CostsAllowed(trades) == \A trade \in trades : trade.cost >= 0

\* Mutant of Metrics: the drawdown of the first fall is not counted.
MetricsUnseeded(trades) ==
    [observations |-> Cardinality(trades), opportunities |-> Cardinality(Taken(trades)),
     net |-> NetEdge(trades), average |-> AverageReturn(trades),
     drawdown |-> DrawdownFromTheFirstPeak(Equity(trades))]

Metrics(trades) ==
    [observations |-> Cardinality(trades), opportunities |-> Cardinality(Taken(trades)),
     net |-> NetEdge(trades), average |-> AverageReturn(trades),
     drawdown |-> Drawdown(Equity(trades))]

-----------------------------------------------------------------------------
(* MultiStageBacktester                                                    *)

\* A stage is a signal column with a weight and an activation threshold.
Combined(frame, stages, t) ==
    MapThenSumSet(LAMBDA stage : stage.weight * frame[t].signal[stage.column], stages)

\* The bars whose weighted sum is above the ensemble's threshold; one missing
\* signal makes the sum missing.
Ensemble(frame, stages, threshold) ==
    {t \in DOMAIN frame :
        /\ \A stage \in stages : frame[t].signal[stage.column] # NoValue
        /\ Combined(frame, stages, t) > threshold}

\* Refused before anything is run: no stage, two stages of a name (a stage is
\* named for its column), or a negative cost anywhere in the column.
StagesRefused(frame, stages) ==
    \/ stages = {}
    \/ \E s, u \in stages : s # u /\ s.column = u.column
    \/ \E t \in DOMAIN frame : frame[t].cost # NoValue /\ frame[t].cost < 0

\* Every stage alone, and the ensemble, settled on the same bars.
StageTrades(frame, stages, threshold, offset) ==
    [name \in {stage.column : stage \in stages} \cup {"ensemble"} |->
        Trades(frame, Whole(frame),
               IF name = "ensemble" THEN Ensemble(frame, stages, threshold)
               ELSE UNION {Above(frame, name, stage.threshold) :
                             stage \in {s \in stages : s.column = name}},
               offset)]
=============================================================================
