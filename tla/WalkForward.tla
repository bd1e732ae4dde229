------------------------------ MODULE WalkForward ------------------------------
(***************************************************************************)
(* Walk-forward validation (backtesting/walk_forward.py): the windows of a *)
(* fold, the choice of a threshold on its training rows, and the aggregate *)
(* of the folds' test trades.                                              *)
(*                                                                         *)
(* A configuration has the sizes train, validation, test and step, a set   *)
(* of thresholds, the minimum of training trades and the convention.       *)
(***************************************************************************)
EXTENDS Backtest

\* WalkForwardSplitter.__init__.  The step given may be missing: the size of
\* the test window then.
SizesRefused(config) ==
    \/ config.train < 1 \/ config.validation < 1 \/ config.test < 1
    \/ config.step # NoValue /\ config.step < 1

Step(config) == IF config.step = NoValue THEN config.test ELSE config.step

WindowsOverlap(config) == Step(config) < config.test

Required(config) == config.train + config.validation + config.test

\* split: the rows of the fold that starts after `start` rows.
Window(config, start) ==
    [train |-> [first |-> start + 1, last |-> start + config.train],
     validation |-> [first |-> start + config.train + 1,
                     last |-> start + config.train + config.validation],
     test |-> [first |-> start + config.train + config.validation + 1,
               last |-> start + Required(config)]]

-----------------------------------------------------------------------------
(* _run_fold                                                               *)

TrainTrades(frame, window, config, threshold) ==
    Trades(frame, window.train, Above(frame, config.column, threshold), Offset(config.convention))

\* A threshold is a candidate if enough trades were made with it on the
\* training rows and one of them was taken.
Candidates(frame, window, config) ==
    {threshold \in config.thresholds :
        LET trades == TrainTrades(frame, window, config, threshold)
        IN  Cardinality(trades) >= config.minimum /\ AverageReturn(trades) # NoValue}

Lower(f, g) == f.num * g.den < g.num * f.den

Score(frame, window, config, threshold) ==
    AverageReturn(TrainTrades(frame, window, config, threshold))

\* Mutant of Best: the scores are those of the test rows.
BestOnTest(frame, window, config) ==
    LET seen == [window EXCEPT !.train = [first |-> window.train.first, last |-> window.test.last]]
    IN  CHOOSE best \in Candidates(frame, window, config) :
            \A other \in Candidates(frame, window, config) \ {best} :
                \/ Lower(Score(frame, seen, config, other), Score(frame, seen, config, best))
                \/ ~Lower(Score(frame, seen, config, best), Score(frame, seen, config, other))
                   /\ best < other

\* min(candidates): the highest score, of equal scores the lowest threshold.
Best(frame, window, config) ==
    CHOOSE best \in Candidates(frame, window, config) :
        \A other \in Candidates(frame, window, config) \ {best} :
            \/ Lower(Score(frame, window, config, other), Score(frame, window, config, best))
            \/ /\ ~Lower(Score(frame, window, config, best), Score(frame, window, config, other))
               /\ best < other

TestTrades(frame, window, config, threshold) ==
    Trades(frame, window.test, Above(frame, config.column, threshold), Offset(config.convention))

ValidationTrades(frame, window, config, threshold) ==
    Trades(frame, window.validation, Above(frame, config.column, threshold),
           Offset(config.convention))

\* A fold without a candidate is reported as such, with no trades.
Fold(frame, config, start) ==
    LET window == Window(config, start) IN
    IF Candidates(frame, window, config) = {}
    THEN [window |-> window, threshold |-> NoValue,
          train |-> {}, validation |-> {}, test |-> {}]
    ELSE LET threshold == Best(frame, window, config) IN
         [window |-> window, threshold |-> threshold,
          train |-> TrainTrades(frame, window, config, threshold),
          validation |-> ValidationTrades(frame, window, config, threshold),
          test |-> TestTrades(frame, window, config, threshold)]

-----------------------------------------------------------------------------
(* The aggregate of the folds                                              *)

\* Every test trade with the number of its fold: a trade two folds made is
\* here twice.
Entries(folds) ==
    UNION {[fold : {k}, trade : folds[k].test] : k \in DOMAIN folds}

\* Mutant of Deduplicated: the trades of the overlap are concatenated.
Concatenated(entries, overlap) == entries

\* _deduplicate_overlaps: the trades are in the order of their settling bars,
\* those of one bar in the order of the folds, and the first of a bar is kept.
Deduplicated(entries, overlap) ==
    IF ~overlap THEN entries
    ELSE {e \in entries : \A f \in entries : f.trade.execution = e.trade.execution
                                                => e.fold <= f.fold}
=============================================================================
