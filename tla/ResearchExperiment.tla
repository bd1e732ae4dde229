-------------------------- MODULE ResearchExperiment --------------------------
(***************************************************************************)
(* One research experiment (application/experiments.py): a CSV file is     *)
(* loaded, backtested in one of four ways, and reported as a JSON file     *)
(* (reporting/experiment.py) that the dashboard lists.                     *)
(*                                                                         *)
(* A request is a record: its `kind` says which service was called, the    *)
(* other fields are what that service is given.                            *)
(***************************************************************************)
EXTENDS WalkForward, MonteCarlo

CONSTANTS
    Columns,  \* the signal columns of a file
    Requests,
    Files,    \* by the kind of request, CSV files: rows with a timestamp `at`
    Draw      \* random numbers in [0, 1), in twentieths

VARIABLES
    file, request,
    pc,         \* the next step, "done", or the exception that ended the call
    frame,      \* ResearchDataset.frame
    start,      \* rows before the next fold
    folds,      \* the folds run so far
    results,    \* sets of trades, by the name they are reported under
    simulated,  \* scenario -> what the simulation recorded
    sample,     \* the path and the draws of the simulation
    directory   \* the temporary file and the report, as a reader finds them

Row == [at : Int, signal : [Columns -> Value], gross : Value, cost : Value]

\* WalkForwardConfig is checked when it is used, MonteCarloConfig when it is
\* made; a simulation's scenarios are names, checked when they are looked up.
Request ==
    [kind : {"no_lookahead_backtest"}, column : Columns,
     convention : {"realised_at_bar", "earned_over_following_bar"}, write : BOOLEAN]
    \cup [kind : {"multi_stage_backtest"},
          stages : SUBSET [column : Columns, weight : Int, threshold : Int],
          threshold : Int, write : BOOLEAN]
    \cup [kind : {"walk_forward_validation"}, column : Columns,
          convention : {"realised_at_bar", "earned_over_following_bar"},
          train : Int, validation : Int, test : Int, step : Value,
          thresholds : SUBSET Int, minimum : Int, write : BOOLEAN]
    \cup [kind : {"monte_carlo_robustness"}, column : Columns, names : Seq(STRING),
          block : Nat \ {0}, write : BOOLEAN]

ASSUME ExperimentConstants ==
    /\ Requests \subseteq Request
    /\ \A q \in Requests : Files[q.kind] \subseteq Seq(Row)
    /\ Draw \subseteq 0 .. 19

vars == <<file, request, pc, frame, start, folds, results, simulated, sample, directory>>

Init ==
    /\ request \in Requests /\ file \in Files[request.kind]
    /\ pc = "load"
    /\ frame = <<>> /\ start = 0 /\ folds = <<>>
    /\ results = <<>> /\ simulated = <<>> /\ sample = <<>>
    /\ directory = [temporary |-> "absent", target |-> "absent"]

Answer(verdict) ==
    /\ pc' = verdict
    /\ UNCHANGED <<file, request, frame, start, folds, results, simulated, sample, directory>>

-----------------------------------------------------------------------------
(* ResearchDataset.load                                                    *)

TimesOf(rows) == {rows[k].at : k \in DOMAIN rows}

\* set_index and sort_index, of rows whose timestamps are distinct.
Indexed(rows) ==
    LET times == Ascending(TimesOf(rows))
    IN  [k \in DOMAIN times |-> rows[CHOOSE i \in DOMAIN rows : rows[i].at = times[k]]]

LoadRefused ==
    /\ pc = "load"
    /\ Cardinality(TimesOf(file)) # Len(file)
    /\ Answer("ValueError")

Load ==
    /\ pc = "load"
    /\ Cardinality(TimesOf(file)) = Len(file)
    /\ frame' = Indexed(file)
    /\ pc' = request.kind
    /\ UNCHANGED <<file, request, start, folds, results, simulated, sample, directory>>

-----------------------------------------------------------------------------
(* The four experiments                                                    *)

\* The trades are reported if none of them has a negative cost.
Report(named) ==
    IF \A name \in DOMAIN named : CostsAllowed(named[name])
    THEN /\ results' = named
         /\ pc' = "finalize"
         /\ UNCHANGED <<file, request, frame, start, folds, simulated, sample, directory>>
    ELSE Answer("ValueError")

\* run_no_lookahead: the signal column is used as it is.
RunNoLookahead ==
    /\ pc = "no_lookahead_backtest"
    /\ Report([all |-> Trades(frame, Whole(frame), Truthy(frame, request.column),
                              Offset(request.convention))])

RunMultiStage ==
    /\ pc = "multi_stage_backtest"
    /\ IF StagesRefused(frame, request.stages) THEN Answer("ValueError")
       ELSE Report(StageTrades(frame, request.stages, request.threshold,
                               Offset("earned_over_following_bar")))

\* Every threshold is tried on the training rows, so a negative cost is met in
\* the trades of a threshold that is not chosen, too.
CostsMet(fold) ==
    fold.test \cup fold.validation
    \cup UNION {TrainTrades(frame, fold.window, request, h) : h \in request.thresholds}

FoldFits == ~SizesRefused(request) /\ start + Required(request) <= Len(frame)

\* One turn of split's loop and the fold it makes.
RunFold ==
    /\ pc = "walk_forward_validation" /\ FoldFits
    /\ LET fold == Fold(frame, request, start) IN
       IF CostsAllowed(CostsMet(fold))
       THEN /\ folds' = Append(folds, fold)
            /\ start' = start + Step(request)
            /\ UNCHANGED <<file, request, pc, frame, results, simulated, sample, directory>>
       ELSE Answer("ValueError")

\* No fold fits any more: the test trades of all of them are put together.
Aggregate ==
    /\ pc = "walk_forward_validation" /\ ~FoldFits
    /\ IF SizesRefused(request) THEN Answer("ValueError")
       ELSE IF folds = <<>> THEN Answer("InsufficientDataError")
       ELSE /\ results' = [aggregate |-> Deduplicated(Entries(folds), WindowsOverlap(request))]
            /\ pc' = "finalize"
            /\ UNCHANGED <<file, request, frame, start, folds, simulated, sample, directory>>

Baseline ==
    Trades(frame, Whole(frame), Truthy(frame, request.column), Offset("earned_over_following_bar"))

\* run_robustness: one simulation stands for every one of config.simulations;
\* all scenarios of a simulation see the same sample and the same draws.
Simulate ==
    /\ pc = "monte_carlo_robustness"
    /\ IF ~CostsAllowed(Baseline) \/ ScenariosRefused(request.names) THEN Answer("ValueError")
       ELSE IF Baseline = {} THEN Answer("InsufficientDataError")
       ELSE LET trades == InOrder(Baseline) IN
            \E starts \in [1 .. BlockCount(Len(trades), request.block) -> DOMAIN trades],
               draws \in [DOMAIN trades -> Draw] :
               LET path == Sampled(trades, starts, request.block) IN
               /\ results' = [baseline |-> Baseline]
               /\ sample' = [starts |-> starts, path |-> path, draws |-> draws]
               /\ simulated' = [name \in Scenarios(request.names) |->
                                    Outcome(STRESS_SCENARIOS[name], path, draws)]
               /\ pc' = "finalize"
               /\ UNCHANGED <<file, request, frame, start, folds, directory>>

-----------------------------------------------------------------------------
(* _finalize and ExperimentReportWriter                                    *)

\* period() refuses an empty dataset, after the experiment has been run on it;
\* without an output directory nothing is written.
Finalize ==
    /\ pc = "finalize"
    /\ Answer(IF frame = <<>> THEN "ValueError" ELSE IF request.write THEN "stage" ELSE "done")

Leave(temporary, target) == directory' = [temporary |-> temporary, target |-> target]

\* Mutant of Stage: the report is written to its own name.
StageInPlace ==
    /\ pc = "stage"
    /\ \/ directory' = [directory EXCEPT !.target = "partial"] /\ pc' = "publish"
       \/ directory' = [directory EXCEPT !.target = "partial"] /\ pc' = "OSError"
    /\ UNCHANGED <<file, request, frame, start, folds, results, simulated, sample>>

\* json.dump into a NamedTemporaryFile: a failure leaves the file behind.
Stage ==
    /\ pc = "stage"
    /\ \/ Leave("whole", "absent") /\ pc' = "publish"
       \/ Leave("partial", "absent") /\ pc' = "OSError"
    /\ UNCHANGED <<file, request, frame, start, folds, results, simulated, sample>>

\* replace, and unlink in any case.
Publish ==
    /\ pc = "publish"
    /\ \/ Leave("absent", directory.temporary) /\ pc' = "done"
       \/ Leave("absent", "absent") /\ pc' = "OSError"
    /\ UNCHANGED <<file, request, frame, start, folds, results, simulated, sample>>

Next ==
    \/ LoadRefused \/ Load
    \/ RunNoLookahead \/ RunMultiStage \/ RunFold \/ Aggregate \/ Simulate
    \/ Finalize \/ Stage \/ Publish

Spec == Init /\ [][Next]_vars

-----------------------------------------------------------------------------
(* Properties                                                              *)

\* When the value a trade was settled by is known: a bar labelled with the
\* return that follows it is known when the next bar opens.
KnownAt(trade, convention) == trade.execution + Offset(convention)

\* Nothing a fold learnt from before its test is known later than the moment
\* the test window opens, what its threshold was selected on is known before
\* the validation rows end, and its test trades are decided and settled inside
\* the test window, by a later bar than they were decided on if outcomes are
\* earned over the following bar (walk_forward.py:161-288, engine.py:207-217).
TestIsUnseen ==
    \A k \in DOMAIN folds :
        LET fold == folds[k] IN
        /\ \A trade \in fold.train :
              KnownAt(trade, request.convention) <= fold.window.validation.last
        /\ \A trade \in fold.validation :
              KnownAt(trade, request.convention) <= fold.window.test.first
        /\ \A trade \in fold.test :
              /\ fold.window.test.first <= trade.decision
              /\ trade.execution <= fold.window.test.last
              /\ trade.decision <= trade.execution
              /\ request.convention = "earned_over_following_bar" => trade.decision < trade.execution

\* The rows after a bar, replaced.
Tampered(last) ==
    [t \in DOMAIN frame |-> IF t <= last THEN frame[t] ELSE [frame[t] EXCEPT !.gross = 999]]

\* Selection looks at the training rows alone: had every later edge been
\* another, each fold would have chosen the same threshold
\* (walk_forward.py:240-266).
SelectionIgnoresTheFuture ==
    \A k \in DOMAIN folds :
        LET window == folds[k].window
            later  == Tampered(window.train.last)
            again  == Candidates(later, window, request)
        IN  folds[k].threshold
              = IF again = {} THEN NoValue ELSE Best(later, window, request)

\* The aggregate counts every bar once, the test windows overlapping or not,
\* and loses none of the bars the folds scored (walk_forward.py:206-227).
EachBarCountsOnce ==
    request.kind = "walk_forward_validation" /\ results # <<>> =>
        /\ \A d, e \in results["aggregate"] : d.trade.execution = e.trade.execution => d = e
        /\ {d.trade.execution : d \in results["aggregate"]}
             = UNION {{trade.execution : trade \in folds[k].test} : k \in DOMAIN folds}

\* The four stress scenarios "cannot improve on the baseline" (README.md) on
\* the same draw, in total or in drawdown, provided that no trade that was
\* made lost money before costs.
StressOnlyHurts ==
    "baseline" \in DOMAIN simulated /\ (\A trade \in results["baseline"] : trade.gross >= 0) =>
        \A name \in DOMAIN simulated :
            /\ simulated[name].total <= simulated["baseline"].total
            /\ simulated[name].drawdown <= simulated["baseline"].drawdown

\* Drawdown and edge are "consistent between the backtester and the simulator"
\* (README.md): a sample that is every trade once, in order, under the baseline
\* gives what the backtester reports, and any sample has as many trades
\* (monte_carlo.py:118-132, engine.py:132-144).
SimulatorAgreesWithTheBacktest ==
    "baseline" \in DOMAIN simulated =>
        /\ Len(sample.path) = Cardinality(results["baseline"])
        /\ sample.path = InOrder(results["baseline"]) =>
              /\ simulated["baseline"].total = 4 * Metrics(results["baseline"]).net
              /\ simulated["baseline"].drawdown = 4 * Metrics(results["baseline"]).drawdown

\* A report found under its own name is whole, and a call that was asked for
\* one returns only when it is there (reporting/experiment.py:22-36).
ReportedIsWhole ==
    /\ directory.target \in {"absent", "whole"}
    /\ pc = "done" /\ request.write => directory.target = "whole"
=============================================================================
