# Verification of market-relationship-discovery

A TLA+ development kept beside `market_relationship_discovery`, a research
platform that collects quotes from MetaTrader 5 terminals of several brokers,
stores them as datasets and looks for relationships between them. It models the
parts whose correctness depends on order, failure or concurrency, checks them
with TLC on small instances, and proves the results that matter most with TLAPS
for every value of the constants. Paths below are relative to
`src/market_relationship_discovery/` unless they start with `docs/`, `tests/` or
`README.md`, which are the repository's own.

## 1. The system

| Component | State it keeps | Operations | Where it is hard |
|---|---|---|---|
| MT5 session (`infrastructure/mt5/adapter.py`) | the attached module, the cached account and when it was verified | connect with the demo check, `account_info` behind a TTL, reading bars, ticks, quotes and contracts and labelling them, disconnect | the terminal is another process that an operator can log into another account between any two calls |
| Historical collector (`application/collector.py`) | none of its own | resolve, fetch, label, validate, write | a value, its broker and its manifest are read at different times |
| Dataset storage (`infrastructure/storage/quotes.py`) | two files per dataset | `write`: stage, publish the manifest, move the data, withdraw and clean up | any file operation can fail, a process can be killed between two |
| Broker job (`application/parallel_collection.py`) | symbols pending and collected, attempts, errors | one attempt, per-symbol retry, the final check | what is retried and what is not |
| Parallel collection (same file) | a process pool, its futures, failures in completion order | submit, collect as completed, drain, raise or return | workers race, queue, fail and die |
| Sequential collection (`application/commands.py`) | the profile whose turn it is | profiles in turn in one process | the MetaTrader5 module holds one connection per process |
| Cross-broker comparison (`market_data/cross_broker.py`, `application/comparison.py`) | frames of two brokers on their way through a pipeline | prepare, align, price, ask contracts, execution and latency, group, classify, sweep | duplicate, unsorted and tied timestamps, boundaries of tolerances and gaps; gates that open and shut after counts were taken |
| Contracts and execution (`market_data/contract.py`, `costs/execution.py`) | specifications | reconcile two contracts, fill and fund both legs | two checks of one thing with different tolerances, rounding to volume steps |
| Latency and its sweep (`costs/latency.py`, `measurement.py`, `sensitivity.py`) | captured episodes | assess a round trip, measure it from a log, sweep an assumption | the point of a sweep that is meant to be the assessment |
| Backtesting (`backtesting/*.py`, `application/experiments.py`) | frames, folds, trades | next-bar, staged and walk-forward backtests, stress simulation, the report | look-ahead, overlapping windows, two implementations of one metric |
| Panel and discovery (`market_data/panel.py`, `validation/coverage.py`, `relationships/*.py`, `discovery/*.py`, `statistics/*.py`, `application/advanced_research.py`) | a panel, a catalog, candidates and their tests | shared window, graph expansion, deduplication, evaluation, ranking, correction | greedy search, identity of hypotheses, what belongs to a family of tests |
| Historical study (`research/service.py`, `application/commands.py`, `market_data/symbols.py`) | a terminal session and the series read | resolve names, read each series, align | the market moves between the reads; aliases inside other names |
| Configuration, diagnostics, dashboard, CLI | settings and files read | validation, read-only views | stale views |

How they interact. A command resolves the requested profiles and runs the
broker jobs, one after another in the calling process or, with `--parallel`, one
per worker process (`ParallelCollectionCoordinator.run`). Each job opens one
`MT5Adapter` session per attempt and calls the collector for each pending
symbol; the collector reads through the adapter, asks `account_info` twice (the
broker column of the frame, the server of the manifest), validates, and hands
frame and manifest to `ParquetQuoteRepository.write`. The analysis services read
the stored files later and write one report each; the study of one relationship
reads a live terminal itself. The only shared mutable state between processes is
the file system and the terminals.

What makes each part correct:

- *session*: with `demo_only`, nothing is stored under an account that was not
  proved to be a demo account; a label is stale by less than the TTL plus one
  call; after a refusal no data can come from that session.
- *storage*: a dataset is the pair of its files; the pair appears in one step
  and stays; what is not a pair is repaired or withdrawn.
- *collection*: no symbol is published twice however often a job is retried;
  only connection failures are retried; batches are returned only when complete;
  the answer comes once, after the last write, and a safety refusal is never
  reported as an ordinary failure.
- *comparison*: in symmetric mode no quote is used twice, matches are really
  nearest and are missing only when nothing aligns; episodes partition the
  crossable observations; what is called crossable was held longer than the round
  trip, between contracts that value it alike, and can be filled and funded.
- *research*: nothing is decided by what comes later; nothing is counted twice; a
  hypothesis is tested once, in its whole family; what is read while a bar forms
  does not change what was settled before.

The hazards are listed one by one, with the line where each bites and the
properties that cover it, in `PROJECT.json`.

## 2. Modules

| Module | Models | State and actions |
|---|---|---|
| `MT5Session` | `MT5Adapter`, its terminal and the caller that keeps what it reads | `account`, `verifiedAt`, `attached` are the adapter's fields; `live` is the terminal's real account, `seen` the history of what was live when. `Initialize`/`OpenAccount`/`StampOpened` are `connect`; `Fetch`, `NameBroker`/`StampBroker`, `NameServer`/`StampServer`, `Keep` are one read, its two `account_info` calls and its storing; `Relogin` is the operator |
| `DatasetStore` | `ParquetQuoteRepository.write`, one file operation per step, several writers | `data`, `manifest` are the two final paths, `dataTemp`, `jsonTemp` the temporary ones; `Fault` chooses which faults happen |
| `AtomicDataset` | what a store promises: a pair appears in one step and stays | abstract specification of `DatasetStore` |
| `BrokerJob` | `collect_broker_job` | one variable per local of the function; `disk` is the job's datasets at the grain `DatasetStore` shows a reader (staged, announced, published) |
| `ParallelCollection` | the coordinator over `BrokerJob` in a process pool | `future`, `handled` (completion order), `broken`, `outcome` |
| `SequentialCollection` | `collect_historical_data` over `BrokerJob` without `--parallel` | `turn`, `reply` |
| `CollectionPromise` | what either way of collecting promises its caller | abstract specification of both |
| `OrderedSets` | what the libraries do with rows: sort them, select some, rank values | operators, each defined by what it returns (`Ascending` lists a finite set of numbers, `RowsAt` takes the rows at a set of places); external |
| `TickAlignment` | `_prepare`, `_nearest_indices`, `_symmetric_align` and the `anchor_a` join of `cross_broker.py` | operators on frames (sequences of quotes); pandas' `merge_asof` is external |
| `Episodes` | `resolved_episode_gap_ms`, `_episodes`, and the verdict of `costs/latency.py` on an episode | operators on rows; medians doubled and captured edges as fractions, to stay in the integers |
| `CrossBrokerComparison` | `CrossBrokerComparisonEngine.compare` | one action per stage of the pipeline, `pc` the next stage or the error that ended it; the gates open or shut at will |
| `Contracts` | `market_data/contract.py`: what makes a specification unusable, `Compatibility` of two, the normalised legs | operators on specifications; relative tolerances by cross-multiplying |
| `Execution` | `costs/execution.py`: margin, fills, `Assessment`, rollover nights | operators |
| `Measurement` | `costs/measurement.py`: a log's statistic per leg | operators; `numpy.quantile` is external |
| `Sensitivity` | `costs/sensitivity.py`: a sweep and its label | operators over `Episodes` |
| `TradeGate` | the comparison again, from priced rows to the classified report and its sweep, with the gates computed | one action per stage: `Baseline`, `LoadContracts`, `Price`, `CompareContracts`, `AssessExecution`, `Group`, `Capture`, `Classify`, `SweepLatency`, `SweepSaved` |
| `Backtest`, `WalkForward`, `MonteCarlo` | `backtesting/*.py`: settling a decision, folds and selection, resampling and stress | operators on frames; money in quarters and chances in twentieths, so that the stress scenarios are exact |
| `ResearchExperiment` | `application/experiments.py` and `reporting/experiment.py` | load, run one of four experiments fold by fold, stage and rename the report, any file operation of which may fail |
| `PanelCoverage` | `market_data/panel.py`, `validation/coverage.py` | loading of wide and long files, runs, crowded rows, the greedy subset and its window |
| `Formulas` | `relationships/formula.py`, `discovery/deduplicate.py`, the values in `discovery/evaluator.py` | an expression is the sequence of the nodes of its tree; values (exact fractions in place of floats, none where there is a division by zero), exponents and the two keys of a hypothesis are recursive functions of its positions |
| `FormulaParser` | the parser of `relationships/formula.py` | recursive descent over tokens; gives `Formulas` its constants in the run |
| `RelationshipGraph` | `relationships/graph.py` | layered expansion as a recursive function of the number of layers |
| `CandidateEvaluation` | the loop of `discovery/deduplicate.py`, `discovery/evaluator.py`, the gates of `statistics/analyzer.py`, `discovery/ranker.py` | which candidates are kept; which statistic is unavailable and why; which rows are learnt from |
| `Multiplicity` | `statistics/multiplicity.py` | the five corrections over a family |
| `AdvancedDiscovery` | `application/advanced_research.py` | one action per stage, one step per candidate evaluated |
| `SymbolMapping` | `SymbolMapper.resolve` of `market_data/symbols.py` | names by their normal form and the aliases they contain |
| `HistoricalResearch` | `run_historical_research` and `research/service.py` | `Tick` is the market closing a bar, `ReadSeries` one read, `AlignSeries` the backward join |
| `ResearchCommands` | the two research commands beside each other | a process runs one of them |
| `CollectionProofs` | theorems about a job, the parallel and the sequential collection | one section each |
| `OrderedSetsProofs` | induction and lemmas about ordered sets, selections, sums, products and trees | cited by the next four rows' modules |
| `EpisodesProofs` | what `_episodes` returns of any rows | cited by the next two |
| `CrossBrokerComparisonProofs`, `TradeGateProofs`, `ResearchProofs` | theorems about the comparison, its gates, and the experiments with the study | |
| `DiscoveryProofs` | theorems about the discovery | the corrections, the graph, the panel and its window, formulas and their keys, then the pipeline |
| `InfrastructureProofs` | theorems about a session and the store | one section each |
| `MC*` | instances for TLC | |

`ParallelCollection` and `SequentialCollection` extend `BrokerJob`: both
compose the same job with a different scheduler. A job's terminal calls fail
nondeterministically there; how a session behaves between two of its calls is
`MT5Session`. A job's writes are the three states of a dataset that `DatasetStore`
shows a reader; the file operations themselves are checked in `DatasetStore`.
Both collections implement `CollectionPromise`.

The comparison is modelled twice, from its two ends. `CrossBrokerComparison` takes
files of quotes and asks what becomes of them; whether contracts and execution let
a row through is a free choice there, so what it shows holds whichever way they
decide. `TradeGate` takes rows that are aligned and asks how the gates decide.
Both use `Episodes`. `ResearchCommands` composes the discovery (`AdvancedDiscovery`
over `CandidateEvaluation`, `PanelCoverage`, `RelationshipGraph` and `Multiplicity`)
with the study (`HistoricalResearch` over `SymbolMapping`). The parser is a parameter of
`Formulas`: the expression it makes of a formula (`Expression`) and whether it refuses
it (`Refused`). `FormulaParser` defines both, and the run gives the parameters its
definitions; the theorems hold for any parser that makes expressions of what it does
not refuse (`FormulasAreParsed`, which TLC evaluates on the catalogs of the run).

An operator named as a "mutant of" a definition is a plausible bug in the code
it models, kept so that each property can be shown to depend on the code: with
the definition replaced by its mutant the property fails.

## 3. Runs

| Run | Question | Instance |
|---|---|---|
| `session` | can anything be stored under an account that is not demo, or under a name that is too old? | two demo accounts and a real one, an operator who may re-log the terminal between any two steps |
| `manifest_mode` (violated) | does the manifest record the mode at the time it was written? | the same |
| `dataset_io` | is a dataset always a pair, and does it appear in one step? | two writes with fresh ids, any file operation may fail |
| `dataset_kill` | is a write that returned whole, and what can it mean that half a dataset is there? | the same with failing removals, interrupts and kills |
| `parallel` | what do retries and failing writes leave behind, and what is returned? | three profiles, two workers, three attempts |
| `parallel_dying` | does the run answer once, in order and truthfully when workers die? | two profiles with two symbols each, two workers, two attempts |
| `sequential` | does the one-connection path keep the same promise, stopping at the first failure? | two profiles, two symbols, two attempts |
| `comparison` | are matches nearest and one-to-one, do episodes partition the edge, is "crossable" earned? | files of up to three quotes against files of the other broker |
| `experiments` | does any backtest look ahead, count a bar twice or publish half a report? | files of up to six bars, plain, staged, walk-forward and simulated |
| `research` | is the window shared, the expansion exact, a hypothesis tested once; does a study repeat itself, and when are two symbols read as one? | small panels, catalogs and p-values; a terminal whose market moves |
| `gate` | is an executable trade comparable, filled and funded, and does the report describe one set of rows? | pairs of contracts, prices, volumes, depths, accounts and latencies |
| `sweep_disagrees` (violated) | does the sweep agree with the assessment it sweeps around? | the same |

The bounds, and why they are enough.

- *session*: `TTL = 2` and `CallBound = 1` (the longest time from a terminal's answer to its timestamp)
  with `MaxTime = 3` let a snapshot be fresh, exactly at the TTL and expired within
  one behaviour, and leave time to switch account away and back. `MaxSeen = 5`
  bounds the history of what was live, `MaxRecords = 1` what is kept: no property
  relates two records. The demo accounts are interchangeable, so TLC may permute them.
- *dataset*: writers interact only through the paths they share, so two writers
  give every pairing of two concurrent operations. Ids are fresh, as collection
  mints one per write, so the two share none: what is shown of one write is
  shown with another beside it and against every order of the faults of its own.
- *collection*: two workers and three profiles put a job in the queue while two
  run; one profile wants two symbols, so a retry can follow a partial success;
  three attempts have a first, a middle and a last. The dying instance is smaller
  because it also checks liveness, which rules out symmetry; there two profiles on
  two workers are enough for one death to break the other's future; that the promise
  is kept of jobs that queue as well is what `Refinement` (§4) proves for any numbers.
- *comparison*: the files of A are all sequences of up to three quotes, in any
  order and with repeats, over five instants and three prices (below, at and above
  B's); those of B all chronological ones up to five quotes, and one file each for
  a repeated timestamp, an impossible price, the same superseded, and rows out of
  order. Six requests cover both modes, aggregations `last` and `none`, bars and
  ticks, configured and measured gaps, tolerances 0 to 2 and round trips that fit
  and do not fit into an episode. `DefaultGap = 2` and `SpacingMultiple = 1` scale
  60 s and 50 down to an axis of five instants; both stay parameters of the module.
- *experiments*: `Columns` names two signals; every file of six bars drawn from four kinds of row, so that two
  files may agree up to any bar and differ after it, and odd files (empty, short,
  repeated times, missing values); folds whose step is smaller than their test
  window, so that windows overlap; both conventions on what a bar's outcome is;
  random numbers of 0, 1 and 2 twentieths, on either side of the one
  chance in twenty of the latency scenario, for every trade of the simulation. Returns are
  whole, costs and penalties in quarters.
- *research*: panels with every pattern of holes over four rows and three symbols
  and over three rows and four; catalogs that repeat a formula, layer one on
  another and do not close; expansion depths from −1 to 5; the five corrections
  over p-values in `{1, 2, 3, 5}` twentieths, hence ties at the threshold. Windows
  are shortened (`ZWindow` 20 to 2, `ExpandingRows` 10 to 2, `StationarityRows` 30 to 3): what
  matters is whether enough rows remain. The study reads at most three symbols, in
  every combination of which bars each market traded, asking for
  two bars (`Limit = 2`) of a market that may open its next bar between any two reads;
  and from catalogues in which a name is missing, published twice or found by an alias
  alone, with nothing configured, a right name and the name of another instrument. In
  two of them the gold price is read from the instrument it is to be compared with.
- *gate*: five families of requests, each varying one part (sizes, contracts, the
  episodes held, the measured log, the repeated look at a gate) and holding the
  others at a value where the gates open. `DefaultGap` and `SpacingMultiple` are
  scaled as above. The default grid has four points, ever wider apart as the code's
  are: an assumed latency is on it, and the logs measure latencies on points of it and
  between two. The instance also evaluates
  `FundingIsAdditive`: the nights charged over a stay are the sum of those of its
  parts, wherever it is cut.

`CHECK_DEADLOCK FALSE` is set where the system stops: writes end, a run answers, a
comparison, an experiment or a study is done. A session never stops, and its runs
check for deadlock.

Fairness. `ParallelCollection` assumes weak fairness of starting, running,
delivering, terminating, handling and reporting: file operations return, the
connection attempt is given a timeout, and a pool with a free worker starts the
next job. Nothing is assumed of a worker dying. `DatasetStore` assumes weak
fairness of a writer's next file operation, and nothing of faults. The session,
the sequential path and the analyses have no liveness property: nothing in them
waits for another party.

## 4. What is proved

The `*Proofs` modules hold proofs, checked by TLAPS, for every value of the
constants allowed by the named assumptions of the modules.

**Session** (`InfrastructureProofs`, under `SessionConstants`; the model's clock does not
advance more than `CallBound` between a terminal's answer and its timestamp). The properties speak of
records; the invariant must speak of what a record is made of. `IInv` adds that
the live account is the last one seen (`LiveIsSeen`), that the cached account was
live when it was verified and, under `demo_only`, is a demo account
(`CacheIsHonest`), that what has been read and labelled so far was honest when it
was taken (`ReadingIsHonest`), hence so is what was kept (`RecordsAreHonest`), and
that the program counter and the attached module agree (`SessionIsTracked`). From
it: `DemoSafety`, `BoundedStaleness`, `Attribution`, `RefusalEnds`, `TypeCorrect`.

**Storage** (the same module). Where ids are not reused (`Unrepeated`) every write owns
its two paths, and `Placed` says, for each program counter, which of the two files
exist, whatever fails, is interrupted or is killed. From it: `OutcomeIsTold`:
a write that returned left the pair, data without its manifest is what a write that
raised leaves, and a manifest without its data awaits the move, or its writer was killed
or raised. Under
`Fresh` (in addition no interrupt arrives between two operations) a pair never
disappears again: `Owned` adds that data stands only with its manifest. From it:
`DataDescribed`, and `StoreRefinement`, that the step-by-step write
implements `AtomicDataset`. Failing removals and kills are allowed. `WholeAtRest`
allows neither (`Fault \subseteq {"io"}`), because a manifest that cannot be removed,
or whose writer is dead, does stay; it strengthens the invariant by `AllClean`, that
a write that has failed has withdrawn what it published. `Fresh` holds of
collection, which mints a UUID per write; §5 says what the code does without it.

**A job** (`CollectionProofs`). `DiskAgrees` and `LoopAgrees` relate a job's locals to
what it has on disk, `ErrorsAgree` the list of its errors to the attempts it made.
Each is a property of one job and kept by each of its steps, so both collections
use them.

**Parallel collection** (the same module). `FuturesAgree` relates the pool's
futures to the jobs; `AnswerAgrees` the answer to the futures. From them and the
job's come all the safety properties of the two runs, and `Refinement`: the run
implements `CollectionPromise`. `CleanDisk` assumes that no worker is killed,
because a kill between two renames does leave half a dataset.

**Sequential collection** (the same module, under `ProfilesConstants`: each
profile has one place in the list). `TurnAgrees` says that the jobs before the turn
have returned and those after it have not begun, `OutcomeAgrees` that the answer is
the one the last job gave. From them: `FirstFailure` and `RequestRefinement`, the same
promise.

**Data of any size** (`OrderedSetsProofs`). The library's induction theorems take an
operator as a parameter, which the provers cannot instantiate. `Induction` states the
principle of a *set* of naturals (the numbers that have the property), which is an
ordinary value, and rests on the well-foundedness of their order. From it: every
finite set of numbers is listed by `Ascending` once and in order (`AscendingLists`),
a selection keeps its rows in order (`RowsAtSelects`), a ranking is one
(`RankedIsOne`), and a running sum does not depend on the order of its terms
(`TotalAdds`, `TotalsAgree`). For formulas there is the same of products: in a commutative
monoid a product over finitely many factors, each to some power, exists and turns sums
of exponents into products (`MonoidProducts`); and a function of the nodes of
a tree may be defined from its values at their operands, and a property of every node
shown from theirs (`TreeRecursion`, `TreeInduction`). The modules whose results are
proved are written with these operators and with recursive functions, not with folds
or sorts.

**Comparison** (`CrossBrokerComparisonProofs` over `EpisodesProofs`, under
`ComparisonConstants`: a file is a sequence of quotes, a request has its fields; and
`EpisodeConstants`). `FramesAgree`: past the preparation both frames are the
chronological ones of the files, so strictly increasing in time and with the last
of the quotes that shared one. `RowsAgree`: the rows keep the times of the
alignment while they are priced. `EpisodesAgree`: the episodes are those of the
priced rows, and the verdict is what their statuses say. From them all the
properties of the run, for files of any length:
`QuotesOnce`, `NearestArePaired`, `NoBrokerIsFirst` (exchanging the brokers turns the
matches round, ties included), `EpisodesPartition`, `HeldLongEnough` and `TentMean`.
The alignment's part rests on the insertion point being monotone, a fact about the
cardinalities of nested sets; the episodes' on `RunsPartition`, that cutting at every
gap gives maximal runs. `SymmetricIsOneToOne` and `SymmetricHasNoAnchor` state the
alignment's part of any two prepared frames, without the pipeline.

**The gates** (`TradeGateProofs`, under `FilesAreNumeric`, `RowsArePriced`,
`SizesAreNumeric`, `LatenciesAreNumeric`, `SweepsAreNumeric` and `VolumesDivide`: the
files hold numbers, rows are at increasing times, and amounts are integers of a unit
fine enough for the matching volume). `LegsAgreeWhenComparable`: contracts that agree
on size and tick value within one tolerance yield legs that agree within the
other, whatever the sizes and prices, and the verdict does not depend on which
broker is A; the arithmetic is that of relative tolerances (`Within`) at every scale.
`FilledAndFunded`: of a pair
reported as executable neither leg holds less than the required fraction, nor as
little as half, of what the other holds, and a verdict without the caveat rests on
capital that is known and not free. `IInv` carries the four stages of the pipeline: the contracts are those of
the files (`Loaded`), the rows those of the request (`Rowed`), the verdict on them that
of the contracts (`Judged`), and what is reported was assessed (`Reported`).
`SummaryDescribesOnePopulation`: every count of the report is of one set of rows: the
episodes' observations add up to it, and a gate that shuts leaves none;
`Populated` says at each stage which rows are crossable and that episodes and captures
are theirs. `SweepIsOfTheDistance`: a sweep says at which of its points the assessment
survives. A larger allowance never adds a capturable episode, nor without an
allowance does a slower round trip, so what survives lies below what does not, and
the label means what it says; `Sweeping` says
over which captures and under which order the sweep was made.

**Experiments** (`ResearchProofs`, under `ExperimentConstants`: a file is a sequence of
rows, a request has its fields, draws are chances in twentieths; and
`MissingIsNoNumber`). `CallAgrees` says that the call runs what was asked on the frame
that was loaded; `FoldsAgree` that the k-th fold run is a function of `k` and of the
frame, whatever the folds before it gave; `AggregateAgrees` that the report's trades
are those of all the folds, deduplicated; `SimulationAgrees` that the scenarios ran on
one sample of the trades; `ReportAgrees` that a report is staged whole before it is
published. From them, for files of any length: `NothingUnseen` (what a fold learnt
from is known before its test window opens, and its test trades are decided and settled inside it,
by a later bar where outcomes are earned over the following one),
`FutureIgnored` (with every gross edge after a fold's training rows replaced, it would have
selected the same threshold), `BarsCountOnce`, `StressHurts` and `SimulatorAgrees` (sums over trades,
compared term by term), and `WholeReport`.

**The study** (`ResearchProofs`, under `BarsAreCounted`, `StudiesAreReadable`
and `TerminalsAreListed`). `Repeatable`: a row whose bar was closed when the
session opened holds, for each symbol, the final bar that was the latest by then,
and no such row is missing where the limit reaches back far enough, so studies that
start later agree on it. `CollisionsAreByFallback`: two required symbols are read as one
series only where one of them was configured to it, or is not published and has an alias
in the other's name; the argument is what a symbol is resolved to (`ResolvedIsListed`)
and that no two required symbols normalise alike. `StudyIInv`
says that names were resolved once (`IsNamed`), that each series is a read of its
market at some time of the session (`ReadFrom`), and that the rows are those of the
backward join (`AlignedRows`).

**Discovery** (`DiscoveryProofs`, under `NamesAreListed`, `NoValueIsNoRun`: the absent
value is not a run of rows or a window; `UnitIsPositive`, `PValuesAreProportions`, and `InputsAreReadable`: a file's
times are integers, its symbols are among the names, a wide file has the same columns
in each row, and a request has its fields; and `FormulasAreParsed`). `DiscoveryInv` says that what was loaded is
a table of known symbols (`IsPanel`), that the window is the best one of it, that what
was found is the expansion of the catalog from that window's symbols, no formula of
which was refused, that the deduplication is of what was found, and that the
evaluations so far are those of the first candidates kept (`EvaluationsInOrder`). What
it says of the results rests on four arguments about the operators.
`WindowIsSound`: every interval of rows lies in a maximal run, so the longest run
bounds any choice of symbols; the symbols of the greedy pass always share a row of the
run, which is crowded, so another of its symbols can join until there are enough.
`ExpansionFindsAll`: each layer adds what the targets before it make computable, the
same set whatever the order of the catalog; a layer that adds nothing is followed by
none that does, and with as many layers as definitions one must add nothing.
`TestedSurvive`: a family is indexed by name, so with distinct names it is the tests
that were made; each correction rejects with a test all smaller p-values, and without
a test that is not rejected every bound is as generous as before (for `fdr_by` because
the harmonic factor falls with the number of tests, for `sidak` because a factor of at
most 1 goes).
`MergedCandidatesAgree` and `HypothesesDistinct`: a candidate that is merged into
another has its value, or has none where the other has none, at all positive
prices; of two products and quotients of prices that are both kept for one target, some
positive prices give different values. The value of
such a formula at positive prices is the quotient of two products of prices whose powers
differ, for each symbol, by its exponent. So equal exponents give equal values; and where
a symbol has different exponents, the prices that are two for it and one for the others
tell the formulas apart. The canonical form of any formula determines its value, because
the operands of a chain of sums or of products are a bag and both operations on
fractions are commutative monoids. That the deduplication merges exactly the candidates
whose key some kept one has (`DeduplicationIsExact`) is an induction over its loop.
The theorems are about `AdvancedDiscovery`'s `Spec`; the run checks the same properties of
`CommandSpec`, in which the study may run in its place.

**Only model-checked.** Liveness (`RunAnswers`, `ManifestResolves`), which needs
fairness; and what the parser makes of tokens (`FormulaParser`), which is recursive over
them. TLC checks `FormulasAreParsed` on the catalogs of the run.

## 5. Findings

Two are runs that state what the repository says and find it violated.

- `manifest_mode`: the manifest certifies what a snapshot up to one TTL old said;
  `README.md:160` promises the mode "as it was at the time it was written".
- `sweep_disagrees`: the default grid is fixed, so a latency measured from a log
  falls between two of its points, and the sweep reports that the baseline does not
  survive while the assessment it sweeps around does. In the trace the
  log gives 3 a leg, between the points 2 and 4.

Other places where the code and what is said of it part, met while modelling. The
modules follow the code there; no run is spent on refuting the words.

Storage and collection:
- A failing write removes the manifest at its path, whoever published it
  (`infrastructure/storage/quotes.py:45`): a dataset id used twice can lose its first
  manifest. Collection mints an id per write, so it does not happen there.
- "Resolves in the dataset's favour" (`quotes.py:35-37`) does not survive a process
  killed between publishing and moving; no reader or restart repairs the manifest.
- With a safety refusal among the failures the error names the first refusal alone
  (`parallel_collection.py:101`); `:69-70` promises "every profile that failed".
- `check_profiles_are_distinct_terminals` (`config/settings.py:247-278`) compares the
  named profiles with each other and not with the default one, and a profile named
  twice in a request is collected twice (`commands.py:138,156`).

Comparison:
- `docs/research/CROSS_BROKER.md:20` calls episodes contiguous; an aligned
  observation without an edge inside the gap does not end one (`cross_broker.py:703`).
- "A slower round trip can only remove capturable episodes" (`sensitivity.py:400-402`)
  holds of each episode's capture with no allowance, or with an early peak; with an
  allowance and a late peak a slower round trip can capture more.
- `docs/architecture/DATA_FLOW.md:23` lists funding among what is charged on the
  cross-broker path; `FundingModel` (`execution.py:314`) is called by nothing there.
- A contract file holding one object is used for whatever symbol is asked.

Research:
- Under `realised_at_bar`, `backtesting/engine.py:26-28` and `:176-179` say that a decision
  at `t` cannot be settled by `edge[t]`, which had closed before it; the offset of that
  convention is 0 (`engine.py:119-120`, `:207-208`), so it is settled by exactly that value.
  `TestIsUnseen` asks for a later bar under the other convention alone.
- `README.md:114` says that stress scenarios cannot improve on the baseline. A missed
  trade that would have lost more than its costs improves the scenario
  (`monte_carlo.py:127`); `StressOnlyHurts` is stated of the others.
- The ranking label `next_abs_zscore` is the next bar's, and the last training row
  has the first row after the training portion for a label (`evaluator.py:164`),
  where `docs/research/ADVANCED_DISCOVERY.md:25` says the training portion only.
- `build_family` is keyed by name (`advanced_research.py:82`): of two candidates with
  one name the family tests one. The shipped catalog repeats no name.
- "The longest contiguous span" (`validation/coverage.py:59`) is the longest the
  greedy search meets, as `docs/research/PANEL_COVERAGE.md:166` admits.
- The shipped `GOLD_SILVER_RATIO` has itself for a target, which no broker
  publishes; its study ends in `SymbolNotFoundError`.
- Of two broker names that normalise alike the last listed is taken, even over the
  exact one (`symbols.py:39`); and an alias may name another instrument when the
  symbol itself is not published (`gold` in `GOLD/EUR`). Nothing refuses a study whose
  target and source are then one series (`XAUUSD` and `XAUEUR` from `XAU/EUR` alone),
  which compares it with itself; `SharedSeriesAreByFallback` says when that can happen.
- The last rows of a study may pair bars that were still forming when one was read
  and closed when the other was.

## 6. Not modelled

- *A wall clock set back* between two checks of the TTL: the model's clock is
  monotonic.
- *Names.* `_safe` may map two symbols or brokers to one directory; fresh ids keep
  the files apart, and no property is stated of directories.
- *Temporary files left by a crash*: no reader looks at them.
- *Floating-point numerics*: regressions, p-values, ridge weights, correlation and
  margin amounts. Where control depends on one (a p-value against a threshold, a
  z-score that exists or not), the model has a small set of values or the condition
  under which it is unavailable. `Contracts` and `Execution` compute in integers of a
  unit, so rounding of floats at a boundary is not seen. The values of formulas are
  exact fractions: floats of two groupings of one product may differ in the last bit.
- *What nothing calls*: `market_data/alignment.py`, `synthetic/engine.py`,
  `discovery/engine.py`'s `generate` and `FundingModel` beyond its nights.
- *Search and ranking of symbols* for a human, and the per-symbol figures of a
  coverage report: they are shown, and nothing is decided by them.
- *The data hash of an experiment* is computed by a second reading of the file
  (`experiments.py:35`); files are taken not to change during a command.
- *Views*: dashboard, doctor, charts, CLI and logging read and format.
- *Configuration* is validated once at start, by the library and by two validators.
- *Refusals a study cannot meet as modelled*: a duplicate timestamp of the terminal, a
  zero denominator of the formula and a limit below one.
- *Means of a report*: the normalised profit over all aligned rows
  (`market_data/cross_broker.py:545-550`), from which nothing is decided.
- *Validation of frames* (`validation/quality.py`) is a nondeterministic outcome where
  it is called.

## 7. Plan

What is left, in order of what is worth most:

1. `Profiles` (`config/settings.py:247-295`): distinct terminals and servers, what
   parallel collection takes for granted; with `doctor.py:25-87` and
   `dashboard/brokers.py:154-197`, which must not show a refusal as an outage.
2. `validation/quality.py` as a function of the frame, composed with the collector in
   place of the free outcome.
