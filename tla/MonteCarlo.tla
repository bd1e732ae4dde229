------------------------------ MODULE MonteCarlo ------------------------------
(***************************************************************************)
(* The block-bootstrap stress test (backtesting/monte_carlo.py): trades    *)
(* resampled in circular blocks, and what each stress scenario makes of    *)
(* one and the same draw.                                                  *)
(*                                                                         *)
(* Money is counted in quarters, so that the cost multipliers 1, 1.25, 1.5 *)
(* and 2 are whole numbers; chances are counted in twentieths.  No return  *)
(* shock is applied (return_shock_std = 0, the default).                   *)
(***************************************************************************)
EXTENDS Backtest, OrderedSets

STRESS_SCENARIOS ==
    [baseline        |-> [cost |-> 4, missed |-> 0],
     wider_spread    |-> [cost |-> 6, missed |-> 0],
     slippage        |-> [cost |-> 5, missed |-> 0],
     latency         |-> [cost |-> 4, missed |-> 1],
     combined_stress |-> [cost |-> 8, missed |-> 2]]

\* build_stress_scenarios: no name means all of them.
ScenariosRefused(names) ==
    \/ ~IsInjective(names)
    \/ Range(names) \ DOMAIN STRESS_SCENARIOS # {}

Scenarios(names) == IF names = <<>> THEN DOMAIN STRESS_SCENARIOS ELSE Range(names)

InOrder(trades) ==
    LET decided == Ascending({trade.decision : trade \in trades})
    IN  [k \in DOMAIN decided |-> CHOOSE trade \in trades : trade.decision = decided[k]]

\* _sample_indices: blocks of consecutive trades, from starts drawn at random,
\* running on from the last trade to the first, cut to as many as there were.
Sampled(trades, starts, block) ==
    [k \in DOMAIN trades |->
        trades[1 + ((starts[1 + (k - 1) \div block] - 1 + ((k - 1) % block)) % Len(trades))]]

BlockCount(n, block) == (n + block - 1) \div block

\* Mutant of NetUnder: an order that misses its fill is charged nothing.
NetUnderFreeMiss(scenario, trade, draw) ==
    IF draw >= scenario.missed THEN 4 * trade.gross - scenario.cost * trade.cost ELSE 0

\* A trade kept earns its edge less the scenario's cost; one that was missed
\* pays the cost alone.
NetUnder(scenario, trade, draw) ==
    IF draw >= scenario.missed THEN 4 * trade.gross - scenario.cost * trade.cost
    ELSE - scenario.cost * trade.cost

\* The equity curve of a path under a scenario.
PathEquity(scenario, path, draws) ==
    LET equity[k \in 0 .. Len(path)] ==
            IF k = 0 THEN 0 ELSE equity[k - 1] + NetUnder(scenario, path[k], draws[k])
    IN  [k \in DOMAIN path |-> equity[k]]

\* What one simulation records of a scenario.
Outcome(scenario, path, draws) ==
    LET equity == PathEquity(scenario, path, draws)
    IN  [total |-> Last(equity), drawdown |-> Drawdown(equity),
         kept |-> Cardinality({k \in DOMAIN path : draws[k] >= scenario.missed})]
=============================================================================
