------------------------ MODULE MCResearchExperiment ------------------------
(* Instances of ResearchExperiment for TLC.                                *)
EXTENDS ResearchExperiment

CONSTANT Bars

Bar(t, a, gross, cost) ==
    [at |-> t, signal |-> [a |-> a, b |-> 2 - a], gross |-> gross, cost |-> cost]

\* Every file of n rows, each with one of these signals and edges.
EveryFile(n, rows) ==
    {[t \in 1 .. n |-> Bar(t, f[t][1], f[t][2], 1)] : f \in [1 .. n -> rows]}

\* Rows out of order, a timestamp twice, a missing edge, a missing signal, a
\* negative cost, too few rows, and none.
OddFiles ==
    {<<Bar(3, 1, 3, 1), Bar(1, 2, -2, 1), Bar(4, 2, 3, 1), Bar(2, 1, 3, 1),
       Bar(6, 1, -2, 1), Bar(5, 2, 3, 1)>>,
     <<Bar(1, 1, 3, 1), Bar(1, 2, 3, 1)>>,
     [t \in 1 .. 6 |-> Bar(t, 2, IF t = 2 THEN NoValue ELSE 3, 1)],
     [t \in 1 .. 6 |-> [Bar(t, 1, 3, 1) EXCEPT !.signal.a = IF t = 5 THEN NoValue ELSE 2]],
     [t \in 1 .. 6 |-> Bar(t, 2, 3, IF t = 5 THEN -1 ELSE 1)],
     [t \in 1 .. 2 |-> Bar(t, 2, 3, 1)],
     <<>>}

MCFiles ==
    [walk_forward_validation |->
        EveryFile(Bars, {<<1, 1>>, <<1, -2>>, <<2, 1>>, <<2, 3>>}) \cup OddFiles,
     no_lookahead_backtest |-> EveryFile(2, {0, 1} \X {-2, 3}) \cup OddFiles,
     multi_stage_backtest |-> EveryFile(2, {0, 1} \X {-2, 3}) \cup OddFiles,
     monte_carlo_robustness |-> EveryFile(4, {<<0, 3>>, <<1, -2>>, <<1, 0>>, <<1, 3>>}) \cup {<<>>}]

Folding(train, validation, test, step, convention) ==
    [kind |-> "walk_forward_validation", column |-> "a", convention |-> convention,
     train |-> train, validation |-> validation, test |-> test, step |-> step,
     thresholds |-> {0, 1}, minimum |-> 1, write |-> FALSE]

Backtest(convention) ==
    [kind |-> "no_lookahead_backtest", column |-> "a", convention |-> convention, write |-> TRUE]

Staged(stages) ==
    [kind |-> "multi_stage_backtest", stages |-> stages, threshold |-> 2, write |-> FALSE]

Simulation(names) ==
    [kind |-> "monte_carlo_robustness", column |-> "a", names |-> names, block |-> 2,
     write |-> FALSE]

MCRequests ==
    {Folding(2, 1, 2, 1, "realised_at_bar"),
     Folding(2, 1, 2, 1, "earned_over_following_bar"),
     Folding(2, 1, 3, 1, "earned_over_following_bar"),
     Folding(1, 1, 1, NoValue, "realised_at_bar"),
     Folding(2, 1, 1, 0, "realised_at_bar"),
     Backtest("realised_at_bar"), Backtest("earned_over_following_bar"),
     Staged({[column |-> "a", weight |-> 1, threshold |-> 1],
             [column |-> "b", weight |-> 2, threshold |-> 0]}),
     Staged({}),
     Simulation(<<>>), Simulation(<<"latency">>), Simulation(<<"latency", "latency">>)}
=============================================================================
