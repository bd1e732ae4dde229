----------------------------- MODULE ResearchProofs -----------------------------
(***************************************************************************)
(* Proofs about the research services, for files and histories of any      *)
(* length.                                                                 *)
(*                                                                         *)
(* ResearchExperiment: no fold looks ahead, no bar is counted twice, no    *)
(* report is half written, no stress scenario improves on the baseline,    *)
(* and the simulator reports what the backtester does.                     *)
(* HistoricalResearch: whatever the catalogue, the market and the timing   *)
(* of the reads, a study's settled rows are the market's own, and it never *)
(* reads one series twice under two published names.                       *)
(***************************************************************************)
EXTENDS ResearchExperiment, HistoricalResearch, OrderedSetsProofs

-----------------------------------------------------------------------------
(* Frames and trades                                                       *)

\* The positions of a frame and the rows there.
LEMMA FrameRows ==
    ASSUME NEW f \in Seq(Row)
    PROVE  /\ Len(f) \in Nat /\ DOMAIN f = 1 .. Len(f)
           /\ \A t \in DOMAIN f : /\ f[t] \in Row
                                  /\ f[t].gross \in Value /\ f[t].cost \in Value
<1>1. Len(f) \in Nat /\ DOMAIN f = 1 .. Len(f) /\ \A t \in DOMAIN f : f[t] \in Row
  BY ElementOfSeq, LenProperties
<1>2. QED
  BY <1>1 DEF Row

\* A trade is decided and settled inside the slice it was made on, by numbers.
LEMMA TradesAreSettled ==
    ASSUME NEW f \in Seq(Row), NEW window, window.first \in Int, window.last \in Int,
           1 <= window.first, window.last <= Len(f),
           NEW firing \in SUBSET (DOMAIN f), NEW offset \in {0, 1},
           NEW trade \in Trades(f, window, firing, offset)
    PROVE  /\ trade.decision \in firing /\ trade.decision \in Nat
           /\ trade.execution = trade.decision + offset
           /\ window.first <= trade.decision /\ trade.execution <= window.last
           /\ trade.execution \in DOMAIN f
           /\ trade.gross \in Int /\ trade.cost \in Int
<1>1. PICK t \in Decisions(f, window, firing, offset) : trade = TradeAt(f, t, offset)
  BY DEF Trades
<1>2. /\ t \in firing /\ window.first <= t /\ t <= window.last - offset
      /\ f[t + offset].gross # NoValue /\ f[t + offset].cost # NoValue
  BY <1>1 DEF Decisions
<1>3. Len(f) \in Nat /\ DOMAIN f = 1 .. Len(f)
  BY FrameRows
<1>4. t \in Nat /\ t + offset \in 1 .. Len(f)
  BY <1>2, <1>3
<1>5. f[t + offset].gross \in Int /\ f[t + offset].cost \in Int
  <2>1. f[t + offset].gross \in Value /\ f[t + offset].cost \in Value
    BY <1>3, <1>4, FrameRows
  <2>2. QED
    BY <1>2, <2>1 DEF Value
<1>6. /\ trade.decision = t /\ trade.execution = t + offset
      /\ trade.gross = f[t + offset].gross /\ trade.cost = f[t + offset].cost
  BY <1>1 DEF TradeAt
<1>7. QED
  BY <1>2, <1>3, <1>4, <1>5, <1>6

\* Two trades of one slice that are settled by one bar are the same trade.
LEMMA OneTradePerBar ==
    ASSUME NEW f \in Seq(Row), NEW window, window.first \in Int, window.last \in Int,
           1 <= window.first, window.last <= Len(f),
           NEW firing \in SUBSET (DOMAIN f), NEW offset \in {0, 1},
           NEW d \in Trades(f, window, firing, offset), NEW e \in Trades(f, window, firing, offset),
           d.execution = e.execution
    PROVE  d = e
<1>1. d.execution = d.decision + offset /\ e.execution = e.decision + offset
      /\ d.decision \in Nat /\ e.decision \in Nat
  BY TradesAreSettled
<1> HIDE DEF Trades
<1>2. d.decision = e.decision
  <2>1. offset \in Int
    OBVIOUS
  <2>2. d.decision + offset = e.decision + offset
    BY <1>1
  <2>3. QED
    BY <1>1, <2>1, <2>2
<1>3. d = TradeAt(f, d.decision, offset) /\ e = TradeAt(f, e.decision, offset)
  BY DEF Trades, TradeAt
<1>4. QED
  BY <1>2, <1>3

LEMMA OffsetIsSmall == \A convention : Offset(convention) \in {0, 1}
  BY DEF Offset

-----------------------------------------------------------------------------
(* Folds                                                                   *)

Folding == {q \in Request : q.kind = "walk_forward_validation" /\ ~SizesRefused(q)}

\* The sizes of a configuration that is not refused.
LEMMA FoldingSizes ==
    ASSUME NEW q \in Folding
    PROVE  /\ q.train \in Nat \ {0} /\ q.validation \in Nat \ {0} /\ q.test \in Nat \ {0}
           /\ Step(q) \in Nat \ {0} /\ Required(q) = q.train + q.validation + q.test
<1>1. q.train \in Int /\ q.validation \in Int /\ q.test \in Int /\ q.step \in Value
  BY DEF Folding, Request
<1>2. /\ ~(q.train < 1) /\ ~(q.validation < 1) /\ ~(q.test < 1)
      /\ ~(q.step # NoValue /\ q.step < 1)
  BY DEF Folding, SizesRefused
<1>3. q.step # NoValue => q.step \in Int
  BY <1>1 DEF Value
<1>4. QED
  BY <1>1, <1>2, <1>3 DEF Step, Required

\* A fold's windows follow one another inside the frame.
LEMMA WindowsFollow ==
    ASSUME NEW q \in Folding, NEW s \in Nat, NEW n \in Nat, s + Required(q) <= n
    PROVE  LET w == Window(q, s) IN
           /\ w.train.first = s + 1 /\ w.train.last \in Nat
           /\ w.train.first <= w.train.last /\ w.train.last + 1 = w.validation.first
           /\ w.validation.last \in Nat /\ w.validation.first <= w.validation.last
           /\ w.validation.last + 1 = w.test.first /\ w.test.first \in Nat
           /\ w.test.last = s + Required(q) /\ w.test.first = w.test.last - q.test + 1
           /\ w.test.last \in Nat /\ w.test.last <= n
  BY FoldingSizes DEF Window

\* Every trade of a fold is decided and settled inside its own window.
LEMMA FoldsAreSettled ==
    ASSUME NEW f \in Seq(Row), NEW q \in Folding, NEW s \in Nat, s + Required(q) <= Len(f)
    PROVE  LET fold == Fold(f, q, s)
               w == Window(q, s)
           IN  /\ fold.window = w
               /\ \A trade \in fold.train :
                     trade.execution \in Int /\ trade.execution <= w.train.last
               /\ \A trade \in fold.validation :
                     trade.execution \in Int /\ trade.execution <= w.validation.last
               /\ \A trade \in fold.test :
                     /\ trade.execution \in Nat /\ trade.decision \in Nat
                     /\ w.test.first <= trade.decision /\ trade.decision <= trade.execution
                     /\ trade.execution = trade.decision + Offset(q.convention)
                     /\ trade.execution <= w.test.last
               /\ \A d, e \in fold.test : d.execution = e.execution => d = e
<1> DEFINE fold == Fold(f, q, s)
           w == Window(q, s)
           offset == Offset(q.convention)
           firing(h) == Above(f, q.column, h)
<1>1. /\ w.train.first \in Int /\ w.train.last \in Int
      /\ w.validation.first \in Int /\ w.validation.last \in Int
      /\ w.test.first \in Int /\ w.test.last \in Int
      /\ 1 <= w.train.first /\ w.train.last <= Len(f)
      /\ 1 <= w.validation.first /\ w.validation.last <= Len(f)
      /\ 1 <= w.test.first /\ w.test.last <= Len(f)
  <2>1. Len(f) \in Nat
    BY FrameRows
  <2>2. /\ w.train.first = s + 1 /\ w.train.last \in Nat
        /\ w.train.first <= w.train.last /\ w.train.last + 1 = w.validation.first
        /\ w.validation.last \in Nat /\ w.validation.first <= w.validation.last
        /\ w.validation.last + 1 = w.test.first /\ w.test.first \in Nat
        /\ w.test.last = s + Required(q) /\ w.test.first = w.test.last - q.test + 1
        /\ w.test.last \in Nat /\ w.test.last <= Len(f)
    BY <2>1, WindowsFollow
  <2>3. q.test \in Nat \ {0}
    BY FoldingSizes
  <2> HIDE DEF w
  <2>4. w.train.first \in Nat /\ w.validation.first \in Nat /\ 1 <= w.train.first
    BY <2>2
  <2>5. w.test.first <= w.test.last /\ w.validation.last < w.test.first
    BY <2>2, <2>3
  <2>6. w.train.last < w.validation.first /\ w.validation.first <= w.validation.last
    BY <2>2
  <2>7. w.train.last <= Len(f) /\ w.validation.last <= Len(f)
    BY <2>1, <2>2, <2>4, <2>5, <2>6
  <2>8. 1 <= w.validation.first /\ 1 <= w.test.first
    BY <2>2, <2>4, <2>5, <2>6
  <2>9. QED
    BY <2>2, <2>4, <2>7, <2>8
<1>2. offset \in {0, 1} /\ \A h : firing(h) \in SUBSET (DOMAIN f)
  BY OffsetIsSmall DEF Above
<1>3. CASE Candidates(f, w, q) = {}
  <2>1. fold.window = w /\ fold.train = {} /\ fold.validation = {} /\ fold.test = {}
    BY <1>3 DEF Fold
  <2>2. QED
    BY <2>1
<1>4. CASE Candidates(f, w, q) # {}
  <2> DEFINE h == Best(f, w, q)
  <2>1. /\ fold.window = w
        /\ fold.train = Trades(f, w.train, firing(h), offset)
        /\ fold.validation = Trades(f, w.validation, firing(h), offset)
        /\ fold.test = Trades(f, w.test, firing(h), offset)
    BY <1>4 DEF Fold, TrainTrades, ValidationTrades, TestTrades
  <2> HIDE DEF fold, w, offset, firing, h
  <2>2. \A trade \in fold.train : trade.execution \in Int /\ trade.execution <= w.train.last
    BY <1>1, <1>2, <2>1, FrameRows, TradesAreSettled
  <2>3. ASSUME NEW trade \in fold.validation
        PROVE  trade.execution \in Int /\ trade.execution <= w.validation.last
    <3>1. trade.execution \in DOMAIN f /\ trade.execution <= w.validation.last
      BY <1>1, <1>2, <2>1, TradesAreSettled
    <3>2. QED
      BY <3>1, FrameRows
  <2>4. ASSUME NEW trade \in fold.test
        PROVE  /\ trade.execution \in Nat /\ trade.decision \in Nat
               /\ w.test.first <= trade.decision /\ trade.decision <= trade.execution
               /\ trade.execution = trade.decision + offset
               /\ trade.execution <= w.test.last
    <3>1. /\ trade.execution = trade.decision + offset /\ trade.decision \in Nat
          /\ w.test.first <= trade.decision /\ trade.execution <= w.test.last
      BY <1>1, <1>2, <2>1, TradesAreSettled
    <3>2. offset \in Nat
      BY <1>2
    <3>3. trade.execution \in Nat /\ trade.decision <= trade.execution
      BY <3>1, <3>2
    <3>4. QED
      BY <3>1, <3>3
  <2>5. \A d, e \in fold.test : d.execution = e.execution => d = e
    BY <1>1, <1>2, <2>1, OneTradePerBar
  <2>6. QED
    BY <2>1, <2>2, <2>3, <2>4, <2>5 DEF fold, w, offset
<1>5. QED
  BY <1>3, <1>4

\* What a fold selects on, when only edges after its training rows differ.
LEMMA TrainingIsUnchanged ==
    ASSUME NEW f \in Seq(Row), NEW g, DOMAIN g = DOMAIN f, NEW window, NEW q,
           window.train.first \in Int, window.train.last \in Int, 1 <= window.train.first,
           window.train.last <= Len(f),
           \A t \in DOMAIN f : g[t].signal = f[t].signal,
           \A t \in DOMAIN f : t <= window.train.last => g[t] = f[t]
    PROVE  \A h : TrainTrades(g, window, q, h) = TrainTrades(f, window, q, h)
<1> SUFFICES ASSUME NEW h PROVE TrainTrades(g, window, q, h) = TrainTrades(f, window, q, h)
  OBVIOUS
<1> DEFINE offset == Offset(q.convention)
           firing == Above(f, q.column, h)
<1>1. Len(f) \in Nat /\ DOMAIN f = 1 .. Len(f)
  BY FrameRows
<1>2. Above(g, q.column, h) = firing
  BY DEF Above
<1>3. offset \in {0, 1} /\ firing \in SUBSET (DOMAIN f)
  BY OffsetIsSmall DEF Above
<1> HIDE DEF offset, firing
<1>4. ASSUME NEW t \in firing, t <= window.train.last - offset
      PROVE  g[t + offset] = f[t + offset]
  <2>1. t \in 1 .. Len(f) /\ offset \in Nat
    BY <1>1, <1>3
  <2>2. t + offset \in DOMAIN f /\ t + offset <= window.train.last
    BY <1>1, <1>4, <2>1
  <2>3. QED
    BY <2>2
<1>5. Decisions(g, window.train, firing, offset) = Decisions(f, window.train, firing, offset)
  BY <1>4 DEF Decisions
<1>6. \A t \in Decisions(f, window.train, firing, offset) : TradeAt(g, t, offset) = TradeAt(f, t, offset)
  BY <1>4 DEF Decisions, TradeAt
<1>7. Trades(g, window.train, firing, offset) = Trades(f, window.train, firing, offset)
  BY <1>5, <1>6 DEF Trades
<1>8. QED
  BY <1>2, <1>7 DEF TrainTrades, offset, firing

\* The same trades, the same candidates and the same choice among them.
LEMMA SameChoice ==
    ASSUME NEW f, NEW g, NEW window, NEW q,
           \A h : TrainTrades(g, window, q, h) = TrainTrades(f, window, q, h)
    PROVE  /\ Candidates(g, window, q) = Candidates(f, window, q)
           /\ Best(g, window, q) = Best(f, window, q)
<1>1. Candidates(g, window, q) = Candidates(f, window, q)
  BY DEF Candidates
<1>2. \A h : Score(g, window, q, h) = Score(f, window, q, h)
  BY DEF Score
<1> DEFINE C == Candidates(f, window, q)
           wins(frm, best) ==
               \A other \in C \ {best} :
                   \/ Lower(Score(frm, window, q, other), Score(frm, window, q, best))
                   \/ /\ ~Lower(Score(frm, window, q, best), Score(frm, window, q, other))
                      /\ best < other
<1>3. \A best \in C : wins(g, best) <=> wins(f, best)
  BY <1>2
<1>4. /\ Best(g, window, q) = CHOOSE best \in C : wins(g, best)
      /\ Best(f, window, q) = CHOOSE best \in C : wins(f, best)
  BY <1>1 DEF Best
<1> HIDE DEF wins, C
<1>5. (CHOOSE best \in C : wins(g, best)) = (CHOOSE best \in C : wins(f, best))
  BY <1>3
<1>6. QED
  BY <1>1, <1>4, <1>5

-----------------------------------------------------------------------------
(* The inductive invariant                                                 *)

Kinds == {"no_lookahead_backtest", "multi_stage_backtest", "walk_forward_validation",
          "monte_carlo_robustness"}

Reported == {"finalize", "stage", "publish", "done"}

Failed == {"ValueError", "InsufficientDataError", "OSError"}

\* A call runs the experiment it was asked for, on the frame that was loaded,
\* and has no result before that is over.
CallAgrees ==
    /\ request \in Requests /\ file \in Files[request.kind]
    /\ pc \in {"load", request.kind} \cup Reported \cup Failed
    /\ frame \in Seq(Row)
    /\ pc \in {"load", request.kind} => results = <<>> /\ simulated = <<>>
    /\ pc = "load" => folds = <<>> /\ start = 0

\* The folds run so far are those that fit, one after the other.
FoldsAgree ==
    IF request \in Folding
    THEN /\ folds \in Seq({Fold(frame, request, s) : s \in 0 .. Len(frame) - Required(request)})
         /\ start = Len(folds) * Step(request)
         /\ \A k \in DOMAIN folds :
               /\ folds[k] = Fold(frame, request, (k - 1) * Step(request))
               /\ (k - 1) * Step(request) + Required(request) <= Len(frame)
    ELSE folds = <<>>

\* What is reported of the folds is all their test trades, deduplicated.
AggregateAgrees ==
    request.kind = "walk_forward_validation" /\ results # <<>> =>
        /\ request \in Folding
        /\ results = [aggregate |-> Deduplicated(Entries(folds), WindowsOverlap(request))]

\* What is simulated are the scenarios asked for, on one sample of the trades.
SimulationAgrees ==
    simulated # <<>> =>
        /\ request.kind = "monte_carlo_robustness" /\ ~ScenariosRefused(request.names)
        /\ results = [baseline |-> Baseline] /\ Baseline # {} /\ CostsAllowed(Baseline)
        /\ LET trades == InOrder(Baseline)
           IN  /\ sample.starts \in [1 .. BlockCount(Len(trades), request.block) -> DOMAIN trades]
               /\ sample.draws \in [DOMAIN trades -> Draw]
               /\ sample.path = Sampled(trades, sample.starts, request.block)
        /\ simulated = [name \in Scenarios(request.names) |->
                            Outcome(STRESS_SCENARIOS[name], sample.path, sample.draws)]

\* A report is staged whole before it is published.
ReportAgrees ==
    /\ directory.target = "absent" \/ directory.target = "whole"
    /\ pc = "publish" => directory.temporary = "whole"
    /\ pc = "done" /\ request.write => directory.target = "whole"

IInv == CallAgrees /\ FoldsAgree /\ AggregateAgrees /\ SimulationAgrees /\ ReportAgrees

\* A file whose timestamps are distinct becomes a frame of its rows.
LEMMA IndexedIsAFrame ==
    ASSUME NEW listed \in Seq(Row)
    PROVE  Indexed(listed) \in Seq(Row)
<1> DEFINE T == TimesOf(listed)
           A == Ascending(T)
<1>1. Len(listed) \in Nat /\ DOMAIN listed = 1 .. Len(listed)
  BY FrameRows
<1>2. \A k \in DOMAIN listed : listed[k].at \in Int
  BY FrameRows DEF Row
<1>3. T \in SUBSET Int /\ IsFiniteSet(T)
  <2>1. T \in SUBSET Int
    BY <1>2 DEF TimesOf
  <2>2. IsFiniteSet(1 .. Len(listed))
    BY <1>1, FS_Interval
  <2> DEFINE time == [k \in 1 .. Len(listed) |-> listed[k].at]
  <2>3. time \in Surjection(1 .. Len(listed), T)
    BY <1>1 DEF Surjection, TimesOf
  <2>4. QED
    BY <2>1, <2>2, <2>3, FS_Surjection
<1>4. A \in Seq(T)
  BY <1>3, AscendingLists
<1> HIDE DEF A
<1>5. Len(A) \in Nat /\ DOMAIN A = 1 .. Len(A) /\ \A k \in DOMAIN A : A[k] \in T
  BY <1>4, ElementOfSeq, LenProperties
<1>6. \A k \in DOMAIN A : listed[CHOOSE i \in DOMAIN listed : listed[i].at = A[k]] \in Row
  <2> SUFFICES ASSUME NEW k \in DOMAIN A
               PROVE  listed[CHOOSE i \in DOMAIN listed : listed[i].at = A[k]] \in Row
    OBVIOUS
  <2>1. \E i \in DOMAIN listed : listed[i].at = A[k]
    BY <1>5 DEF TimesOf
  <2>2. (CHOOSE i \in DOMAIN listed : listed[i].at = A[k]) \in DOMAIN listed
    BY <2>1
  <2>3. QED
    BY <2>2, FrameRows
<1>7. Indexed(listed) = [k \in DOMAIN A |-> listed[CHOOSE i \in DOMAIN listed : listed[i].at = A[k]]]
  BY DEF Indexed, A
<1>8. Indexed(listed) \in [1 .. Len(A) -> Row]
  BY <1>5, <1>6, <1>7
<1>9. QED
  BY <1>5, <1>8

\* The invariant holds before anything is loaded.
LEMMA InitIInv == Init => IInv
<1> SUFFICES ASSUME Init PROVE IInv
  OBVIOUS
<1>1. /\ request \in Requests /\ file \in Files[request.kind] /\ pc = "load"
      /\ frame = <<>> /\ start = 0 /\ folds = <<>> /\ results = <<>> /\ simulated = <<>>
      /\ directory = [temporary |-> "absent", target |-> "absent"]
  BY DEF Init
<1>2. CallAgrees
  BY <1>1 DEF CallAgrees
<1>3. FoldsAgree
  <2>1. CASE request \in Folding
    <3>1. Step(request) \in Nat
      BY <2>1, FoldingSizes
    <3>2. Len(folds) = 0 /\ DOMAIN folds = {}
      BY <1>1
    <3>3. QED
      BY <1>1, <2>1, <3>1, <3>2 DEF FoldsAgree
  <2>2. CASE request \notin Folding
    BY <1>1, <2>2 DEF FoldsAgree
  <2>3. QED
    BY <2>1, <2>2
<1>4. QED
  BY <1>1, <1>2, <1>3 DEF IInv, AggregateAgrees, SimulationAgrees, ReportAgrees

\* A step that leaves the frame and the folds alone keeps what is said of them.
LEMMA FoldsUntouched ==
    ASSUME FoldsAgree, UNCHANGED <<request, frame, start, folds>>
    PROVE  FoldsAgree'
  BY DEF FoldsAgree, Folding

\* A step that ends the call with a verdict keeps what was found before.
LEMMA AnswerKeeps ==
    ASSUME IInv, NEW verdict, Answer(verdict),
           verdict \in Failed \/ (pc = "finalize" /\ verdict \in {"stage", "done"}),
           verdict = "done" => ~request.write
    PROVE  IInv'
<1>1. /\ pc' = verdict
      /\ UNCHANGED <<file, request, frame, start, folds, results, simulated, sample, directory>>
  BY DEF Answer
<1>2. verdict \in Reported \cup Failed /\ verdict # "publish" /\ verdict # "load"
      /\ verdict \notin Kinds
  BY DEF Reported, Failed, Kinds
<1>3. request.kind \in Kinds
  BY ExperimentConstants DEF IInv, CallAgrees, Request, Kinds
<1>4. CallAgrees'
  BY <1>1, <1>2, <1>3 DEF IInv, CallAgrees
<1>5. FoldsAgree'
  BY <1>1, FoldsUntouched DEF IInv
<1>6. AggregateAgrees'
  BY <1>1 DEF IInv, AggregateAgrees, Folding
<1>7. SimulationAgrees'
  BY <1>1 DEF IInv, SimulationAgrees, Baseline
<1>8. ReportAgrees'
  BY <1>1, <1>2 DEF IInv, ReportAgrees
<1>9. QED
  BY <1>4, <1>5, <1>6, <1>7, <1>8 DEF IInv

\* A step that reports trades, of an experiment that is neither walk-forward
\* nor simulated.
LEMMA ReportKeeps ==
    ASSUME IInv, NEW named, Report(named), pc = request.kind,
           pc \in {"no_lookahead_backtest", "multi_stage_backtest"}
    PROVE  IInv'
<1>1. CASE Answer("ValueError")
  BY <1>1, AnswerKeeps DEF Failed
<1>2. CASE /\ pc' = "finalize"
           /\ UNCHANGED <<file, request, frame, start, folds, simulated, sample, directory>>
  <2>1. CallAgrees'
    BY <1>2, ExperimentConstants DEF IInv, CallAgrees, Reported, Request
  <2>2. FoldsAgree'
    BY <1>2, FoldsUntouched DEF IInv
  <2>3. AggregateAgrees'
    BY <1>2 DEF AggregateAgrees
  <2>4. simulated = <<>>
    BY DEF IInv, CallAgrees
  <2>5. SimulationAgrees'
    BY <1>2, <2>4 DEF SimulationAgrees
  <2>6. ReportAgrees'
    BY <1>2 DEF IInv, ReportAgrees
  <2>7. QED
    BY <2>1, <2>2, <2>3, <2>5, <2>6 DEF IInv
<1>3. QED
  BY <1>1, <1>2 DEF Report

\* A fold is appended at its place.
LEMMA RunFoldKeeps == IInv /\ RunFold => IInv'
<1> SUFFICES ASSUME IInv, RunFold PROVE IInv'
  OBVIOUS
<1> DEFINE fold == Fold(frame, request, start)
           S == {Fold(frame, request, s) : s \in 0 .. Len(frame) - Required(request)}
<1>1. CASE Answer("ValueError")
  BY <1>1, AnswerKeeps DEF Failed
<1>2. CASE /\ folds' = Append(folds, fold)
           /\ start' = start + Step(request)
           /\ UNCHANGED <<file, request, pc, frame, results, simulated, sample, directory>>
  <2>1. request.kind = "walk_forward_validation" /\ request \in Request
    BY ExperimentConstants DEF RunFold, IInv, CallAgrees, Reported, Failed
  <2>2. request \in Folding /\ start + Required(request) <= Len(frame)
    BY <2>1 DEF RunFold, FoldFits, Folding
  <2>3. /\ folds \in Seq(S) /\ start = Len(folds) * Step(request)
        /\ \A k \in DOMAIN folds :
              /\ folds[k] = Fold(frame, request, (k - 1) * Step(request))
              /\ (k - 1) * Step(request) + Required(request) <= Len(frame)
    BY <2>2 DEF IInv, FoldsAgree
  <2>4. Len(frame) \in Nat /\ Step(request) \in Nat /\ Required(request) \in Nat
    BY <2>2, FoldingSizes, FrameRows DEF IInv, CallAgrees
  <2>5. Len(folds) \in Nat /\ start \in 0 .. Len(frame) - Required(request)
    BY <2>2, <2>3, <2>4, LenProperties
  <2>6. fold \in S
    BY <2>5
  <2> HIDE DEF S, fold
  <2>7. /\ folds' \in Seq(S) /\ Len(folds') = Len(folds) + 1 /\ DOMAIN folds' = 1 .. Len(folds')
        /\ \A k \in 1 .. Len(folds) : folds'[k] = folds[k]
        /\ folds'[Len(folds) + 1] = fold
    BY <1>2, <2>3, <2>6, AppendProperties, LenProperties
  <2>8. start' = Len(folds') * Step(request)
    BY <1>2, <2>3, <2>4, <2>5, <2>7
  <2>9. ASSUME NEW k \in DOMAIN folds'
        PROVE  /\ folds'[k] = Fold(frame, request, (k - 1) * Step(request))
               /\ (k - 1) * Step(request) + Required(request) <= Len(frame)
    <3>1. CASE k \in 1 .. Len(folds)
      BY <2>3, <2>7, <3>1, LenProperties
    <3>2. CASE k = Len(folds) + 1
      <4>1. k - 1 = Len(folds) /\ (k - 1) * Step(request) = start
        BY <2>3, <2>5, <3>2
      <4>2. QED
        BY <2>2, <2>7, <3>2, <4>1 DEF fold
    <3>3. QED
      BY <2>5, <2>7, <3>1, <3>2
  <2>10. FoldsAgree'
    <3>1. request' = request /\ frame' = frame /\ request' \in Folding
      BY <1>2, <2>2
    <3>2. S' = S
      BY <3>1 DEF S
    <3>3. folds' \in Seq(S') /\ start' = Len(folds') * Step(request')
      BY <2>7, <2>8, <3>1, <3>2
    <3>4. \A k \in DOMAIN folds' :
            /\ folds'[k] = Fold(frame', request', (k - 1) * Step(request'))
            /\ (k - 1) * Step(request') + Required(request') <= Len(frame')
      BY <2>9, <3>1
    <3>5. Folding' = Folding
      BY DEF Folding
    <3>6. QED
      BY <3>1, <3>3, <3>4, <3>5 DEF FoldsAgree, S
  <2>11. results = <<>> /\ simulated = <<>> /\ pc = request.kind
    BY <2>1 DEF RunFold, IInv, CallAgrees
  <2>12. CallAgrees'
    BY <1>2, <2>1, <2>11 DEF IInv, CallAgrees
  <2>13. AggregateAgrees' /\ SimulationAgrees'
    BY <1>2, <2>11 DEF AggregateAgrees, SimulationAgrees
  <2>14. ReportAgrees'
    BY <1>2 DEF IInv, ReportAgrees
  <2>15. QED
    BY <2>10, <2>12, <2>13, <2>14 DEF IInv
<1>3. QED
  BY <1>1, <1>2 DEF RunFold

\* The folds' test trades are put together.
LEMMA AggregateKeeps == IInv /\ Aggregate => IInv'
<1> SUFFICES ASSUME IInv, Aggregate PROVE IInv'
  OBVIOUS
<1>1. CASE Answer("ValueError") \/ Answer("InsufficientDataError")
  BY <1>1, AnswerKeeps DEF Failed
<1>2. CASE /\ ~SizesRefused(request)
           /\ results' = [aggregate |-> Deduplicated(Entries(folds), WindowsOverlap(request))]
           /\ pc' = "finalize"
           /\ UNCHANGED <<file, request, frame, start, folds, simulated, sample, directory>>
  <2>1. request.kind = "walk_forward_validation" /\ request \in Request /\ pc = request.kind
    BY ExperimentConstants DEF Aggregate, IInv, CallAgrees, Reported, Failed
  <2>2. CallAgrees'
    BY <1>2, <2>1 DEF IInv, CallAgrees, Reported
  <2>3. FoldsAgree'
    BY <1>2, FoldsUntouched DEF IInv
  <2>4. AggregateAgrees'
    BY <1>2, <2>1 DEF AggregateAgrees, Folding
  <2>5. simulated = <<>>
    BY <2>1 DEF IInv, CallAgrees
  <2>6. SimulationAgrees'
    BY <1>2, <2>5 DEF SimulationAgrees
  <2>7. ReportAgrees'
    BY <1>2 DEF IInv, ReportAgrees
  <2>8. QED
    BY <2>2, <2>3, <2>4, <2>6, <2>7 DEF IInv
<1>3. QED
  BY <1>1, <1>2 DEF Aggregate

\* The scenarios are run on one sample.
LEMMA SimulateKeeps == IInv /\ Simulate => IInv'
<1> SUFFICES ASSUME IInv, Simulate PROVE IInv'
  OBVIOUS
<1>1. CASE Answer("ValueError") \/ Answer("InsufficientDataError")
  BY <1>1, AnswerKeeps DEF Failed
<1>2. CASE /\ CostsAllowed(Baseline) /\ ~ScenariosRefused(request.names) /\ Baseline # {}
           /\ LET trades == InOrder(Baseline) IN
              \E starts \in [1 .. BlockCount(Len(trades), request.block) -> DOMAIN trades],
                 draws \in [DOMAIN trades -> Draw] :
                 LET path == Sampled(trades, starts, request.block) IN
                 /\ results' = [baseline |-> Baseline]
                 /\ sample' = [starts |-> starts, path |-> path, draws |-> draws]
                 /\ simulated' = [name \in Scenarios(request.names) |->
                                      Outcome(STRESS_SCENARIOS[name], path, draws)]
                 /\ pc' = "finalize"
                 /\ UNCHANGED <<file, request, frame, start, folds, directory>>
  <2>1. request.kind = "monte_carlo_robustness" /\ pc = request.kind
    BY DEF Simulate, IInv, CallAgrees, Reported, Failed
  <2>2. /\ pc' = "finalize" /\ UNCHANGED <<file, request, frame, start, folds, directory>>
        /\ results' = [baseline |-> Baseline]
    BY <1>2
  <2>3. Baseline' = Baseline
    BY <2>2 DEF Baseline
  <2>4. CallAgrees'
    BY <2>1, <2>2 DEF IInv, CallAgrees, Reported
  <2>5. FoldsAgree'
    BY <2>2, FoldsUntouched DEF IInv
  <2>6. AggregateAgrees'
    BY <2>1, <2>2 DEF AggregateAgrees
  <2>7. SimulationAgrees'
    BY <1>2, <2>1, <2>2, <2>3 DEF SimulationAgrees
  <2>8. ReportAgrees'
    BY <2>2 DEF IInv, ReportAgrees
  <2>9. QED
    BY <2>4, <2>5, <2>6, <2>7, <2>8 DEF IInv
<1>3. QED
  BY <1>1, <1>2 DEF Simulate

\* A step of the report leaves what was found alone.
LEMMA WritingKeeps ==
    ASSUME IInv, UNCHANGED <<file, request, frame, start, folds, results, simulated, sample>>,
           pc \in {"stage", "publish"}, pc' \in {"publish", "done", "OSError"}
    PROVE  (CallAgrees /\ FoldsAgree /\ AggregateAgrees /\ SimulationAgrees)'
<1>1. request.kind \in Kinds
  BY ExperimentConstants DEF IInv, CallAgrees, Request, Kinds
<1>2. CallAgrees'
  BY <1>1 DEF IInv, CallAgrees, Reported, Failed, Kinds
<1>3. FoldsAgree'
  BY FoldsUntouched DEF IInv
<1>4. AggregateAgrees'
  BY DEF IInv, AggregateAgrees, Folding
<1>5. SimulationAgrees'
  BY DEF IInv, SimulationAgrees, Baseline
<1>6. QED
  BY <1>2, <1>3, <1>4, <1>5

\* Every step keeps the invariant.
LEMMA StepIInv == IInv /\ [Next]_vars => IInv'
<1> SUFFICES ASSUME IInv, [Next]_vars PROVE IInv'
  OBVIOUS
<1>1. CASE LoadRefused
  BY <1>1, AnswerKeeps DEF LoadRefused, Failed
<1>2. CASE Load
  <2>1. /\ frame' = Indexed(file) /\ pc' = request.kind /\ pc = "load"
        /\ UNCHANGED <<file, request, start, folds, results, simulated, sample, directory>>
    BY <1>2 DEF Load
  <2>2. file \in Seq(Row) /\ request.kind \in Kinds
    BY ExperimentConstants DEF IInv, CallAgrees, Request, Kinds
  <2>3. frame' \in Seq(Row)
    BY <2>1, <2>2, IndexedIsAFrame
  <2>4. results = <<>> /\ simulated = <<>> /\ folds = <<>> /\ start = 0
    BY <2>1 DEF IInv, CallAgrees
  <2>5. CallAgrees'
    BY <2>1, <2>2, <2>3, <2>4 DEF IInv, CallAgrees, Kinds
  <2>6. FoldsAgree'
    <3>1. CASE request \in Folding
      <4>1. Step(request) \in Nat
        BY <3>1, FoldingSizes
      <4>2. Len(folds') = 0 /\ DOMAIN folds' = {} /\ start' = 0 /\ folds' = <<>>
        BY <2>1, <2>4
      <4>3. QED
        BY <2>1, <3>1, <4>1, <4>2 DEF FoldsAgree, Folding
    <3>2. CASE request \notin Folding
      BY <2>1, <2>4, <3>2 DEF FoldsAgree, Folding
    <3>3. QED
      BY <3>1, <3>2
  <2>7. AggregateAgrees' /\ SimulationAgrees'
    BY <2>1, <2>4 DEF AggregateAgrees, SimulationAgrees
  <2>8. ReportAgrees'
    BY <2>1, <2>2 DEF IInv, ReportAgrees, Kinds
  <2>9. QED
    BY <2>5, <2>6, <2>7, <2>8 DEF IInv
<1>3. CASE RunNoLookahead
  <2>1. pc = request.kind
    BY <1>3 DEF RunNoLookahead, IInv, CallAgrees, Reported, Failed
  <2>2. QED
    BY <1>3, <2>1, ReportKeeps DEF RunNoLookahead
<1>4. CASE RunMultiStage
  <2>1. pc = request.kind
    BY <1>4 DEF RunMultiStage, IInv, CallAgrees, Reported, Failed
  <2>2. QED
    BY <1>4, <2>1, ReportKeeps, AnswerKeeps DEF RunMultiStage, Failed
<1>5. CASE RunFold
  BY <1>5, RunFoldKeeps
<1>6. CASE Aggregate
  BY <1>6, AggregateKeeps
<1>7. CASE Simulate
  BY <1>7, SimulateKeeps
<1>8. CASE Finalize
  BY <1>8, AnswerKeeps DEF Finalize, Failed
<1>9. CASE Stage
  <2>1. ReportAgrees'
    BY <1>9 DEF Stage, Leave, ReportAgrees
  <2>2. QED
    BY <1>9, <2>1, WritingKeeps DEF Stage, IInv
<1>10. CASE Publish
  <2>1. ReportAgrees'
    BY <1>10 DEF Publish, Leave, ReportAgrees, IInv
  <2>2. QED
    BY <1>10, <2>1, WritingKeeps DEF Publish, IInv
<1>11. CASE UNCHANGED vars
  <2>1. CallAgrees' /\ ReportAgrees'
    BY <1>11 DEF vars, IInv, CallAgrees, ReportAgrees
  <2>2. FoldsAgree'
    BY <1>11, FoldsUntouched DEF vars, IInv
  <2>3. AggregateAgrees' /\ SimulationAgrees'
    BY <1>11 DEF vars, IInv, AggregateAgrees, SimulationAgrees, Folding, Baseline
  <2>4. QED
    BY <2>1, <2>2, <2>3 DEF IInv
<1>12. QED
  BY <1>1, <1>2, <1>3, <1>4, <1>5, <1>6, <1>7, <1>8, <1>9, <1>10, <1>11 DEF Next

\* The inductive invariant holds in every reachable state.
THEOREM Invariant == Spec => []IInv
  BY InitIInv, StepIInv, PTL DEF Spec

-----------------------------------------------------------------------------
(* The report and the folds                                                *)

\* A report found under its own name is whole, and a call that was asked for
\* one returns only when it is there.
THEOREM WholeReport == Spec => []ReportedIsWhole
<1>1. IInv => ReportedIsWhole
  BY DEF IInv, ReportAgrees, ReportedIsWhole
<1>2. QED
  BY <1>1, Invariant, PTL

\* A fold is the one at its start, which fits in the frame.
LEMMA FoldAt ==
    ASSUME IInv, NEW k \in DOMAIN folds
    PROVE  /\ request \in Folding /\ frame \in Seq(Row)
           /\ k \in Nat \ {0} /\ (k - 1) * Step(request) \in Nat
           /\ folds[k] = Fold(frame, request, (k - 1) * Step(request))
           /\ (k - 1) * Step(request) + Required(request) <= Len(frame)
<1>1. folds # <<>>
  OBVIOUS
<1>2. request \in Folding /\ frame \in Seq(Row)
  BY <1>1 DEF IInv, FoldsAgree, CallAgrees
<1> DEFINE S == {Fold(frame, request, s) : s \in 0 .. Len(frame) - Required(request)}
<1>3. /\ folds \in Seq(S)
      /\ folds[k] = Fold(frame, request, (k - 1) * Step(request))
      /\ (k - 1) * Step(request) + Required(request) <= Len(frame)
  BY <1>2 DEF IInv, FoldsAgree
<1> HIDE DEF S
<1>4. k \in Nat \ {0}
  BY <1>3, LenProperties
<1>5. Step(request) \in Nat
  BY <1>2, FoldingSizes
<1>6. (k - 1) * Step(request) \in Nat
  BY <1>4, <1>5
<1>7. QED
  BY <1>2, <1>3, <1>4, <1>6

\* Nothing a fold learnt from is known later than the rows it is used before:
\* training outcomes before the validation rows end, validation outcomes when
\* the test window opens; test trades are decided and settled inside it, and never
\* by an earlier bar, nor by their own where outcomes are earned over the
\* following bar.
THEOREM NothingUnseen == Spec => []TestIsUnseen
<1>1. ASSUME IInv PROVE TestIsUnseen
  <2> SUFFICES ASSUME NEW k \in DOMAIN folds
               PROVE  /\ \A trade \in folds[k].train :
                            KnownAt(trade, request.convention) <= folds[k].window.validation.last
                      /\ \A trade \in folds[k].validation :
                            KnownAt(trade, request.convention) <= folds[k].window.test.first
                      /\ \A trade \in folds[k].test :
                            /\ folds[k].window.test.first <= trade.decision
                            /\ trade.execution <= folds[k].window.test.last
                            /\ trade.decision <= trade.execution
                            /\ request.convention = "earned_over_following_bar" =>
                                  trade.decision < trade.execution
    BY DEF TestIsUnseen
  <2> DEFINE s == (k - 1) * Step(request)
             w == Window(request, s)
  <2>1. /\ request \in Folding /\ frame \in Seq(Row) /\ s \in Nat
        /\ folds[k] = Fold(frame, request, s) /\ s + Required(request) <= Len(frame)
    BY <1>1, FoldAt
  <2> HIDE DEF s
  <2>2. /\ folds[k].window = w
        /\ \A trade \in folds[k].train : trade.execution \in Int /\ trade.execution <= w.train.last
        /\ \A trade \in folds[k].validation :
              trade.execution \in Int /\ trade.execution <= w.validation.last
        /\ \A trade \in folds[k].test :
              /\ w.test.first <= trade.decision
              /\ trade.execution <= w.test.last
              /\ trade.decision \in Nat /\ trade.decision <= trade.execution
              /\ trade.execution = trade.decision + Offset(request.convention)
    BY <2>1, FoldsAreSettled
  <2>3. /\ w.train.last \in Nat /\ w.train.last + 1 = w.validation.first
        /\ w.validation.last \in Nat /\ w.validation.first <= w.validation.last
        /\ w.validation.last + 1 = w.test.first
    BY <2>1, WindowsFollow, FrameRows
  <2>4. Offset(request.convention) \in 0 .. 1
    BY OffsetIsSmall
  <2> HIDE DEF w
  <2>5. \A trade \in folds[k].train :
          KnownAt(trade, request.convention) <= w.validation.last
    BY <2>2, <2>3, <2>4 DEF KnownAt
  <2>6. \A trade \in folds[k].validation :
          KnownAt(trade, request.convention) <= w.test.first
    BY <2>2, <2>3, <2>4 DEF KnownAt
  <2>7. ASSUME NEW trade \in folds[k].test, request.convention = "earned_over_following_bar"
        PROVE  trade.decision < trade.execution
    <3>1. trade.decision \in Nat /\ trade.execution = trade.decision + 1
      BY <2>2, <2>7 DEF Offset
    <3>2. QED
      BY <3>1
  <2>8. QED
    BY <2>2, <2>5, <2>6, <2>7
<1>2. QED
  BY <1>1, Invariant, PTL

\* Had every gross edge after its training rows been another, a fold would have
\* chosen the same threshold.
THEOREM FutureIgnored == Spec => []SelectionIgnoresTheFuture
<1>1. ASSUME IInv PROVE SelectionIgnoresTheFuture
  <2> SUFFICES ASSUME NEW k \in DOMAIN folds
               PROVE  LET window == folds[k].window
                          later  == Tampered(window.train.last)
                          again  == Candidates(later, window, request)
                      IN  folds[k].threshold
                            = IF again = {} THEN NoValue ELSE Best(later, window, request)
    BY DEF SelectionIgnoresTheFuture
  <2> DEFINE s == (k - 1) * Step(request)
             w == Window(request, s)
             later == Tampered(w.train.last)
  <2>1. /\ request \in Folding /\ frame \in Seq(Row) /\ s \in Nat
        /\ folds[k] = Fold(frame, request, s) /\ s + Required(request) <= Len(frame)
    BY <1>1, FoldAt
  <2> HIDE DEF s
  <2>2. folds[k].window = w
    BY <2>1, FoldsAreSettled
  <2>3. folds[k].threshold = IF Candidates(frame, w, request) = {} THEN NoValue
                             ELSE Best(frame, w, request)
    BY <2>1 DEF Fold
  <2>4. /\ w.train.first = s + 1 /\ w.train.last \in Nat /\ w.test.last <= Len(frame)
        /\ w.train.last + 1 = w.validation.first /\ w.validation.first <= w.validation.last
        /\ w.validation.last \in Nat /\ w.validation.last + 1 = w.test.first
        /\ w.test.first = w.test.last - request.test + 1 /\ w.test.last \in Nat
    BY <2>1, WindowsFollow, FrameRows
  <2>5. request.test \in Nat \ {0} /\ Len(frame) \in Nat
    BY <2>1, FoldingSizes, FrameRows
  <2> HIDE DEF w
  <2>6. /\ w.train.first \in Int /\ w.train.last \in Int /\ 1 <= w.train.first
        /\ w.train.last <= Len(frame)
    <3>1. /\ w.validation.first \in Int /\ w.test.first \in Int
          /\ w.test.first <= w.test.last /\ w.train.last < w.test.first
      <4>1. w.validation.first \in Int /\ w.test.first \in Int /\ w.train.last < w.validation.first
        BY <2>4
      <4>2. w.test.first <= w.test.last
        BY <2>4, <2>5
      <4>3. w.validation.last < w.test.first
        BY <2>4
      <4>4. QED
        BY <2>4, <4>1, <4>2, <4>3
    <3>2. QED
      BY <2>1, <2>4, <2>5, <3>1
  <2>7. /\ DOMAIN later = DOMAIN frame
        /\ \A t \in DOMAIN frame : later[t].signal = frame[t].signal
        /\ \A t \in DOMAIN frame : t <= w.train.last => later[t] = frame[t]
    <3>1. \A t \in DOMAIN frame : frame[t] \in Row
      BY <2>1, FrameRows
    <3>2. QED
      BY <3>1 DEF Tampered, Row
  <2> HIDE DEF later
  <2>8. \A h : TrainTrades(later, w, request, h) = TrainTrades(frame, w, request, h)
    BY <2>1, <2>6, <2>7, TrainingIsUnchanged
  <2>9. /\ Candidates(later, w, request) = Candidates(frame, w, request)
        /\ Best(later, w, request) = Best(frame, w, request)
    BY <2>8, SameChoice
  <2>10. QED
    BY <2>2, <2>3, <2>9 DEF later
<1>2. QED
  BY <1>1, Invariant, PTL

\* Where test windows do not overlap, no bar is in two of them.
LEMMA WindowsApart ==
    ASSUME IInv, NEW j \in DOMAIN folds, NEW k \in DOMAIN folds, j < k,
           ~WindowsOverlap(request), NEW d \in folds[j].test, NEW e \in folds[k].test
    PROVE  d.execution < e.execution
<1> DEFINE s(i) == (i - 1) * Step(request)
<1>1. /\ request \in Folding /\ frame \in Seq(Row) /\ j \in Nat \ {0} /\ k \in Nat \ {0}
      /\ s(j) \in Nat /\ folds[j] = Fold(frame, request, s(j)) /\ s(j) + Required(request) <= Len(frame)
      /\ s(k) \in Nat /\ folds[k] = Fold(frame, request, s(k)) /\ s(k) + Required(request) <= Len(frame)
  BY FoldAt
<1>2. Step(request) \in Nat \ {0} /\ request.test \in Nat \ {0} /\ ~(Step(request) < request.test)
      /\ Required(request) \in Int
  BY <1>1, FoldingSizes DEF WindowsOverlap
<1>3. s(j) + Step(request) <= s(k)
  <2>1. j * Step(request) <= (k - 1) * Step(request)
    <3>1. j \in Int /\ k - 1 \in Int /\ Step(request) \in Nat /\ j <= k - 1
      BY <1>1, <1>2
    <3>2. QED
      BY <3>1, ProductsGrow
  <2>2. j * Step(request) = (j - 1) * Step(request) + Step(request)
    BY <1>1, <1>2
  <2>3. QED
    BY <2>1, <2>2
<1> HIDE DEF s
<1>4. d.execution \in Nat /\ d.execution <= Window(request, s(j)).test.last
  BY <1>1, FoldsAreSettled
<1>5. /\ e.execution \in Nat /\ e.decision \in Nat /\ e.decision <= e.execution
      /\ Window(request, s(k)).test.first <= e.decision
  BY <1>1, FoldsAreSettled
<1>6. /\ Window(request, s(j)).test.last = s(j) + Required(request)
      /\ Window(request, s(k)).test.first = Window(request, s(k)).test.last - request.test + 1
      /\ Window(request, s(k)).test.last = s(k) + Required(request)
  BY <1>1, WindowsFollow, FrameRows
<1>7. s(j) \in Nat /\ s(k) \in Nat /\ Step(request) >= request.test
  BY <1>1, <1>2
<1>8. /\ d.execution <= s(j) + Required(request)
      /\ s(k) + Required(request) - request.test + 1 <= e.execution
  BY <1>2, <1>4, <1>5, <1>6, <1>7
<1>9. QED
  BY <1>2, <1>3, <1>4, <1>5, <1>7, <1>8

\* The entries are the trades of the folds, with the number of their fold.
LEMMA EntriesAreTrades ==
    ASSUME IInv
    PROVE  /\ \A e \in Entries(folds) : e.fold \in DOMAIN folds /\ e.trade \in folds[e.fold].test
                                        /\ e = [fold |-> e.fold, trade |-> e.trade]
           /\ \A k \in DOMAIN folds : \A trade \in folds[k].test :
                 [fold |-> k, trade |-> trade] \in Entries(folds)
  BY DEF Entries

\* The aggregate counts every bar once, the test windows overlapping or not,
\* and loses none of the bars the folds scored.
THEOREM BarsCountOnce == Spec => []EachBarCountsOnce
<1>1. ASSUME IInv PROVE EachBarCountsOnce
  <2> DEFINE kept == Deduplicated(Entries(folds), WindowsOverlap(request))
  <2> SUFFICES ASSUME request.kind = "walk_forward_validation", results # <<>>
               PROVE  /\ \A d, e \in kept : d.trade.execution = e.trade.execution => d = e
                      /\ {d.trade.execution : d \in kept}
                           = UNION {{trade.execution : trade \in folds[k].test} : k \in DOMAIN folds}
    BY <1>1 DEF EachBarCountsOnce, IInv, AggregateAgrees
  <2>1. /\ \A e \in Entries(folds) : e.fold \in DOMAIN folds /\ e.trade \in folds[e.fold].test
                                     /\ e = [fold |-> e.fold, trade |-> e.trade]
        /\ \A k \in DOMAIN folds : \A trade \in folds[k].test :
              [fold |-> k, trade |-> trade] \in Entries(folds)
    BY <1>1, EntriesAreTrades
  <2>2. kept \subseteq Entries(folds)
    BY DEF Deduplicated
  <2>3. \A k \in DOMAIN folds :
          /\ k \in Nat
          /\ \A trade \in folds[k].test : trade.execution \in Nat
          /\ \A d, e \in folds[k].test : d.execution = e.execution => d = e
    BY <1>1, FoldAt, FoldsAreSettled
  <2>4. ASSUME NEW d \in kept, NEW e \in kept, d.trade.execution = e.trade.execution PROVE d = e
    <3>1. d.fold = e.fold
      <4>1. CASE WindowsOverlap(request)
        <5>1. d.fold <= e.fold /\ e.fold <= d.fold
          BY <2>2, <2>4, <4>1 DEF Deduplicated
        <5>2. d.fold \in Nat /\ e.fold \in Nat
          BY <2>1, <2>2, <2>3
        <5>3. QED
          BY <5>1, <5>2
      <4>2. CASE ~WindowsOverlap(request)
        <5>1. /\ d.fold \in DOMAIN folds /\ d.trade \in folds[d.fold].test
              /\ e.fold \in DOMAIN folds /\ e.trade \in folds[e.fold].test
          BY <2>1, <2>2
        <5>2. /\ d.fold < e.fold => d.trade.execution < e.trade.execution
              /\ e.fold < d.fold => e.trade.execution < d.trade.execution
          BY <1>1, <4>2, <5>1, WindowsApart
        <5>3. d.trade.execution \in Nat /\ d.fold \in Nat /\ e.fold \in Nat
          BY <2>3, <5>1
        <5>4. QED
          BY <2>4, <5>2, <5>3
      <4>3. QED
        BY <4>1, <4>2
    <3>2. d.trade = e.trade
      BY <2>1, <2>2, <2>3, <2>4, <3>1
    <3>3. QED
      BY <2>1, <2>2, <3>1, <3>2
  <2>5. ASSUME NEW k \in DOMAIN folds, NEW trade \in folds[k].test
        PROVE  \E d \in kept : d.trade.execution = trade.execution
    <3> DEFINE mine == [fold |-> k, trade |-> trade]
               rivals == {e \in Entries(folds) : e.trade.execution = trade.execution}
               numbers == {e.fold : e \in rivals}
    <3>1. mine \in Entries(folds) /\ mine.trade = trade
      BY <2>1
    <3>2. CASE ~WindowsOverlap(request)
      BY <3>1, <3>2 DEF Deduplicated
    <3>3. CASE WindowsOverlap(request)
      <4>1. numbers \in SUBSET Nat /\ numbers # {}
        BY <2>1, <2>3, <3>1
      <4> HIDE DEF numbers, mine
      <4>2. PICK n \in numbers : \A m \in numbers : n <= m
        BY <4>1, LeastNat
      <4>3. PICK e \in rivals : e.fold = n
        BY DEF numbers
      <4>4. \A f \in Entries(folds) : f.trade.execution = e.trade.execution => e.fold <= f.fold
        BY <4>2, <4>3 DEF numbers
      <4>5. e \in kept
        BY <3>3, <4>3, <4>4 DEF Deduplicated
      <4>6. QED
        BY <4>3, <4>5
    <3>4. QED
      BY <3>2, <3>3
  <2> HIDE DEF kept
  <2>6. {d.trade.execution : d \in kept}
          = UNION {{trade.execution : trade \in folds[k].test} : k \in DOMAIN folds}
    <3>1. ASSUME NEW d \in kept
          PROVE  d.trade.execution
                   \in UNION {{trade.execution : trade \in folds[k].test} : k \in DOMAIN folds}
      BY <2>1, <2>2
    <3>2. ASSUME NEW k \in DOMAIN folds, NEW trade \in folds[k].test
          PROVE  trade.execution \in {d.trade.execution : d \in kept}
      BY <2>5
    <3>3. QED
      BY <3>1, <3>2
  <2>7. QED
    BY <2>4, <2>6
<1>2. QED
  BY <1>1, Invariant, PTL

-----------------------------------------------------------------------------
(* A call's trades in order                                                *)

\* Trades made of one frame under the convention of the simulation.
Settled(trades) ==
    /\ IsFiniteSet(trades)
    /\ \A x \in trades : /\ x.decision \in Nat /\ x.execution = x.decision + 1
                         /\ x.gross \in Int /\ x.cost \in Int
    /\ \A d, e \in trades : d.decision = e.decision => d = e

\* What the simulation samples from is such a set.
LEMMA BaselineIsSettled ==
    ASSUME frame \in Seq(Row)
    PROVE  Settled(Baseline)
<1> DEFINE w == Whole(frame)
           firing == Truthy(frame, request.column)
           made == Decisions(frame, w, firing, 1)
<1>1. Baseline = Trades(frame, w, firing, 1)
  BY DEF Baseline, Offset
<1>2. Len(frame) \in Nat /\ DOMAIN frame = 1 .. Len(frame)
  BY FrameRows
<1>3. w.first = 1 /\ w.last = Len(frame)
  <2>1. Cardinality(1 .. Len(frame)) = Len(frame)
    BY <1>2, FS_Interval
  <2>2. QED
    BY <1>2, <2>1 DEF Whole
<1>4. firing \in SUBSET (DOMAIN frame)
  BY DEF Truthy
<1> HIDE DEF w, firing
<1>5. \A x \in Trades(frame, w, firing, 1) :
         /\ x.decision \in Nat /\ x.execution = x.decision + 1
         /\ x.gross \in Int /\ x.cost \in Int
  BY <1>2, <1>3, <1>4, TradesAreSettled
<1>6. \A d, e \in Trades(frame, w, firing, 1) : d.decision = e.decision => d = e
  <2>1. \A d, e \in Trades(frame, w, firing, 1) : d.execution = e.execution => d = e
    BY <1>2, <1>3, <1>4, OneTradePerBar
  <2>2. QED
    BY <1>5, <2>1
<1>7. IsFiniteSet(Trades(frame, w, firing, 1))
  <2>1. IsFiniteSet(made)
    <3>1. IsFiniteSet(1 .. Len(frame)) /\ made \subseteq 1 .. Len(frame)
      BY <1>2, <1>4, FS_Interval DEF Decisions
    <3>2. QED
      BY <3>1, FS_Subset
  <2> DEFINE at == [t \in made |-> TradeAt(frame, t, 1)]
  <2>2. at \in Surjection(made, Trades(frame, w, firing, 1))
    BY DEF Surjection, Trades
  <2>3. QED
    BY <2>1, <2>2, FS_Surjection
<1>8. QED
  BY <1>1, <1>5, <1>6, <1>7 DEF Settled

\* There are as many decisions as trades.
LEMMA DecisionsCount ==
    ASSUME NEW S, Settled(S)
    PROVE  /\ {x.decision : x \in S} \in SUBSET Nat /\ IsFiniteSet({x.decision : x \in S})
           /\ Cardinality({x.decision : x \in S}) = Cardinality(S)
<1> DEFINE D == {x.decision : x \in S}
           f == [x \in S |-> x.decision]
<1>1. f \in Injection(S, D)
  <2>1. f \in [S -> D] /\ \A x \in S : f[x] = x.decision
    OBVIOUS
  <2>2. \A d, e \in S : f[d] = f[e] => d = e
    BY <2>1 DEF Settled
  <2>3. QED
    BY <2>1, <2>2 DEF Injection, IsInjective
<1>2. f \in Surjection(S, D)
  BY DEF Surjection
<1>3. IsFiniteSet(S) /\ D \in SUBSET Nat
  BY DEF Settled
<1> HIDE DEF D, f
<1>4. ExistsBijection(S, D)
  BY <1>1, <1>2 DEF ExistsBijection, Bijection
<1>5. IsFiniteSet(D) /\ Cardinality(D) = Cardinality(S)
  BY <1>3, <1>4, FS_Bijection
<1>6. QED
  BY <1>3, <1>5 DEF D

\* InOrder lists the trades once each, from the first decision to the last, and
\* the k-th of them is settled k-th.
LEMMA InOrderLists ==
    ASSUME NEW S, Settled(S)
    PROVE  /\ Cardinality(S) \in Nat
           /\ InOrder(S) \in Seq(S) /\ Len(InOrder(S)) = Cardinality(S)
           /\ \A x \in S : \E k \in 1 .. Cardinality(S) : InOrder(S)[k] = x
           /\ \A k, l \in 1 .. Cardinality(S) :
                 k < l => InOrder(S)[k].decision < InOrder(S)[l].decision
           /\ \A k \in 1 .. Cardinality(S) :
                 Cardinality({u \in S : u.execution <= InOrder(S)[k].execution}) = k
<1> DEFINE D == {x.decision : x \in S}
           A == Ascending(D)
           n == Cardinality(S)
<1>1. D \in SUBSET Int /\ IsFiniteSet(D) /\ Cardinality(D) = n /\ n \in Nat
  BY DecisionsCount, FS_CardinalityType DEF Settled
<1>2. /\ A \in Seq(D) /\ Len(A) = n /\ \A y \in D : \E k \in 1 .. n : A[k] = y
      /\ \A k, l \in 1 .. n : k < l => A[k] < A[l]
      /\ \A k \in 1 .. n : Cardinality({y \in D : y <= A[k]}) = k
  <2> HIDE DEF D
  <2>1. QED
    BY <1>1, AscendingLists, AscendingCounts
<1>3. DOMAIN A = 1 .. n /\ \A k \in 1 .. n : A[k] \in D
  BY <1>2, ElementOfSeq, LenProperties
<1>4. InOrder(S) = [k \in 1 .. n |-> CHOOSE x \in S : x.decision = A[k]]
  BY <1>3 DEF InOrder
<1> HIDE DEF A
<1>5. \A k \in 1 .. n : InOrder(S)[k] \in S /\ InOrder(S)[k].decision = A[k]
  BY <1>3, <1>4
<1>6. InOrder(S) \in [1 .. n -> S]
  BY <1>4, <1>5
<1>7. InOrder(S) \in Seq(S) /\ Len(InOrder(S)) = n
  BY <1>1, <1>6, SeqDef
<1>8. ASSUME NEW x \in S PROVE \E k \in 1 .. n : InOrder(S)[k] = x
  <2>1. PICK k \in 1 .. n : A[k] = x.decision
    BY <1>2
  <2>2. InOrder(S)[k] \in S /\ InOrder(S)[k].decision = x.decision
    BY <1>5, <2>1
  <2>3. QED
    BY <2>2 DEF Settled
<1>9. ASSUME NEW k \in 1 .. n
      PROVE  Cardinality({u \in S : u.execution <= InOrder(S)[k].execution}) = k
  <2> DEFINE x == InOrder(S)[k]
             U == {u \in S : u.execution <= x.execution}
  <2>1. x \in S /\ x.decision = A[k]
    BY <1>5
  <2> HIDE DEF x
  <2>2. U = {u \in S : u.decision <= x.decision}
    BY <2>1 DEF Settled
  <2>3. {u.decision : u \in U} = {y \in D : y <= A[k]}
    BY <2>1, <2>2
  <2>4. Settled(U)
    <3>1. IsFiniteSet(U)
      BY FS_Subset DEF Settled
    <3>2. QED
      BY <3>1 DEF Settled
  <2> HIDE DEF U
  <2>5. Cardinality(U) = Cardinality({u.decision : u \in U})
    BY <2>4, DecisionsCount
  <2>6. QED
    BY <1>2, <2>3, <2>5 DEF U, x
<1>10. QED
  BY <1>1, <1>2, <1>5, <1>7, <1>8, <1>9

\* As many blocks as are drawn cover the path.
LEMMA BlocksCover ==
    ASSUME NEW n \in Nat, NEW block \in Nat \ {0}, NEW k \in 1 .. n
    PROVE  1 + (k - 1) \div block \in 1 .. BlockCount(n, block)
<1> DEFINE q == (k - 1) \div block
           Q == (n + block - 1) \div block
<1>1. /\ q \in Nat /\ k - 1 = (q * block) + ((k - 1) % block) /\ (k - 1) % block \in 0 .. block - 1
      /\ Q \in Nat /\ n + block - 1 = (Q * block) + ((n + block - 1) % block)
      /\ (n + block - 1) % block \in 0 .. block - 1
  OBVIOUS
<1> HIDE DEF q, Q
<1>2. ASSUME Q <= q PROVE FALSE
  <2>1. Q * block <= q * block
    BY <1>1, <1>2, ProductsGrow
  <2>2. Q * block \in Int /\ q * block \in Int
    BY <1>1
  <2>3. QED
    BY <1>1, <2>1, <2>2
<1>3. QED
  BY <1>1, <1>2 DEF BlockCount, q, Q

\* A sample is as long as what it is drawn from, and made of it.
LEMMA SampleIsOfTheTrades ==
    ASSUME NEW S, NEW trades \in Seq(S), NEW block \in Nat \ {0},
           NEW starts \in [1 .. BlockCount(Len(trades), block) -> DOMAIN trades]
    PROVE  Sampled(trades, starts, block) \in Seq(S)
           /\ Len(Sampled(trades, starts, block)) = Len(trades)
<1> DEFINE n == Len(trades)
           at(k) == 1 + ((starts[1 + (k - 1) \div block] - 1 + ((k - 1) % block)) % n)
<1>1. n \in Nat /\ DOMAIN trades = 1 .. n /\ \A k \in 1 .. n : trades[k] \in S
  BY ElementOfSeq, LenProperties
<1>2. \A k \in 1 .. n : at(k) \in 1 .. n
  <2> SUFFICES ASSUME NEW k \in 1 .. n PROVE at(k) \in 1 .. n
    OBVIOUS
  <2>1. 1 + (k - 1) \div block \in 1 .. BlockCount(n, block)
    BY <1>1, BlocksCover
  <2>2. starts[1 + (k - 1) \div block] \in 1 .. n
    BY <1>1, <2>1
  <2>3. (k - 1) % block \in Int
    BY <1>1
  <2>4. \A x \in Int : x % n \in 0 .. n - 1
    BY <1>1
  <2>5. starts[1 + (k - 1) \div block] - 1 + ((k - 1) % block) \in Int
    BY <1>1, <2>2, <2>3
  <2> HIDE DEF n
  <2>6. (starts[1 + (k - 1) \div block] - 1 + ((k - 1) % block)) % n \in 0 .. n - 1
    BY <2>4, <2>5
  <2>7. QED
    BY <1>1, <2>6
<1>3. Sampled(trades, starts, block) = [k \in 1 .. n |-> trades[at(k)]]
  BY <1>1 DEF Sampled
<1> HIDE DEF at
<1>4. Sampled(trades, starts, block) \in [1 .. n -> S]
  BY <1>1, <1>2, <1>3
<1>5. QED
  BY <1>1, <1>4

-----------------------------------------------------------------------------
(* Drawdown                                                                *)

\* The drawdown is the deepest fall, from the start or from a point before,
\* and no deeper; zero if there is none.
LEMMA DrawdownIs ==
    ASSUME NEW n \in Nat, NEW f \in [1 .. n -> Int]
    PROVE  /\ Drawdown(f) \in Int /\ Drawdown(f) <= 0
           /\ \A k \in 1 .. n : Drawdown(f) <= f[k]
           /\ \A k \in 1 .. n : \A l \in 1 .. k : Drawdown(f) <= f[k] - f[l]
           /\ \/ Drawdown(f) = 0
              \/ \E k \in 1 .. n : Drawdown(f) = f[k]
              \/ \E k \in 1 .. n : \E l \in 1 .. k : Drawdown(f) = f[k] - f[l]
<1> DEFINE P(k) == {0} \cup {f[l] : l \in 1 .. k}
           F == {0} \cup {f[k] - Max(P(k)) : k \in 1 .. n}
<1>1. ASSUME NEW k \in 1 .. n
      PROVE  Max(P(k)) \in P(k) /\ Max(P(k)) \in Int /\ \A y \in P(k) : Max(P(k)) >= y
  <2>1. IsFiniteSet(1 .. k)
    BY FS_Interval
  <2> DEFINE g == [l \in 1 .. k |-> f[l]]
             R == {f[l] : l \in 1 .. k}
  <2>2. g \in Surjection(1 .. k, R)
    BY DEF Surjection
  <2>4. P(k) \in SUBSET Int /\ P(k) # {} /\ P(k) = R \cup {0}
    OBVIOUS
  <2> HIDE DEF P, R, g
  <2>3. IsFiniteSet(R \cup {0})
    BY <2>1, <2>2, FS_Surjection, FS_AddElement
  <2>5. IsFiniteSet(P(k))
    BY <2>3, <2>4
  <2>6. QED
    BY <2>4, <2>5, LeastAndGreatest
<1>2. \A k \in 1 .. n : /\ Max(P(k)) = 0 \/ \E l \in 1 .. k : Max(P(k)) = f[l]
                        /\ Max(P(k)) >= 0 /\ \A l \in 1 .. k : Max(P(k)) >= f[l]
  BY <1>1
<1>3. Drawdown(f) = Min(F)
  BY DEF Drawdown
<1> HIDE DEF P
<1>4. Min(F) \in F /\ \A y \in F : Min(F) <= y
  <2> DEFINE g == [k \in 1 .. n |-> f[k] - Max(P(k))]
             R == {f[k] - Max(P(k)) : k \in 1 .. n}
  <2>1. g \in Surjection(1 .. n, R)
    BY DEF Surjection
  <2>2. IsFiniteSet(1 .. n)
    BY FS_Interval
  <2>3. F = R \cup {0} /\ F # {}
    OBVIOUS
  <2>4. F \in SUBSET Int
    BY <1>1
  <2> HIDE DEF R, g, F
  <2>5. IsFiniteSet(R \cup {0})
    BY <2>1, <2>2, FS_Surjection, FS_AddElement
  <2>6. QED
    BY <2>3, <2>4, <2>5, LeastAndGreatest
<1>5. /\ 0 \in F /\ \A k \in 1 .. n : f[k] - Max(P(k)) \in F
      /\ \A y \in F : y = 0 \/ \E k \in 1 .. n : y = f[k] - Max(P(k))
  OBVIOUS
<1> HIDE DEF F
<1>6. Drawdown(f) \in Int /\ Drawdown(f) <= 0
      /\ \A k \in 1 .. n : Drawdown(f) <= f[k] - Max(P(k))
  BY <1>1, <1>3, <1>4, <1>5
<1>7. \A k \in 1 .. n : Drawdown(f) <= f[k] /\ \A l \in 1 .. k : Drawdown(f) <= f[k] - f[l]
  <2> SUFFICES ASSUME NEW k \in 1 .. n
               PROVE  Drawdown(f) <= f[k] /\ \A l \in 1 .. k : Drawdown(f) <= f[k] - f[l]
    OBVIOUS
  <2>1. /\ f[k] \in Int /\ Max(P(k)) \in Int /\ Max(P(k)) >= 0
        /\ \A l \in 1 .. k : f[l] \in Int /\ Max(P(k)) >= f[l]
    BY <1>1, <1>2
  <2>2. QED
    BY <1>6, <2>1
<1>8. \/ Drawdown(f) = 0
      \/ \E k \in 1 .. n : Drawdown(f) = f[k]
      \/ \E k \in 1 .. n : \E l \in 1 .. k : Drawdown(f) = f[k] - f[l]
  <2>1. CASE Drawdown(f) = 0
    BY <2>1
  <2>2. CASE Drawdown(f) # 0
    <3>1. PICK k \in 1 .. n : Drawdown(f) = f[k] - Max(P(k))
      BY <1>3, <1>4, <1>5, <2>2
    <3>2. f[k] \in Int
      OBVIOUS
    <3>3. CASE Max(P(k)) = 0
      BY <3>1, <3>2, <3>3
    <3>4. CASE \E l \in 1 .. k : Max(P(k)) = f[l]
      BY <3>1, <3>4
    <3>5. QED
      BY <1>2, <3>3, <3>4
  <2>3. QED
    BY <2>1, <2>2
<1>9. QED
  BY <1>6, <1>7, <1>8

\* A curve that falls more between any two points has the deeper drawdown.
LEMMA DrawdownOrder ==
    ASSUME NEW n \in Nat, NEW f \in [1 .. n -> Int], NEW g \in [1 .. n -> Int],
           \A k \in 1 .. n : f[k] <= g[k],
           \A k \in 1 .. n : \A l \in 1 .. k : f[k] - f[l] <= g[k] - g[l]
    PROVE  Drawdown(f) <= Drawdown(g)
<1>1. /\ Drawdown(f) \in Int /\ Drawdown(f) <= 0
      /\ \A k \in 1 .. n : Drawdown(f) <= f[k]
      /\ \A k \in 1 .. n : \A l \in 1 .. k : Drawdown(f) <= f[k] - f[l]
  BY DrawdownIs
<1>2. Drawdown(g) \in Int
  BY DrawdownIs
<1>3. CASE Drawdown(g) = 0
  BY <1>1, <1>3
<1>4. ASSUME NEW k \in 1 .. n, Drawdown(g) = g[k] PROVE Drawdown(f) <= Drawdown(g)
  BY <1>1, <1>2, <1>4
<1>5. ASSUME NEW k \in 1 .. n, NEW l \in 1 .. k, Drawdown(g) = g[k] - g[l]
      PROVE  Drawdown(f) <= Drawdown(g)
  <2>1. f[k] - f[l] <= g[k] - g[l] /\ Drawdown(f) <= f[k] - f[l]
    BY <1>1
  <2>2. f[k] \in Int /\ f[l] \in Int /\ g[k] \in Int /\ g[l] \in Int
    OBVIOUS
  <2>3. \A x, a, b, c, d \in Int : x <= a - b /\ a - b <= c - d => x <= c - d
    OBVIOUS
  <2>4. Drawdown(f) <= g[k] - g[l]
    BY <1>1, <2>1, <2>2, <2>3
  <2>5. QED
    BY <1>5, <2>4
<1>6. QED
  BY <1>3, <1>4, <1>5, DrawdownIs

\* Four times the curve has four times the drawdown.
LEMMA DrawdownScales ==
    ASSUME NEW n \in Nat, NEW f \in [1 .. n -> Int], NEW g \in [1 .. n -> Int],
           \A k \in 1 .. n : f[k] = 4 * g[k]
    PROVE  Drawdown(f) = 4 * Drawdown(g)
<1>0. Drawdown(f) \in Int /\ Drawdown(g) \in Int
  BY DrawdownIs
<1>1. /\ Drawdown(f) \in Int /\ Drawdown(f) <= 0
      /\ \A k \in 1 .. n : Drawdown(f) <= f[k]
      /\ \A k \in 1 .. n : \A l \in 1 .. k : Drawdown(f) <= f[k] - f[l]
  BY DrawdownIs
<1>2. /\ Drawdown(g) \in Int /\ Drawdown(g) <= 0
      /\ \A k \in 1 .. n : Drawdown(g) <= g[k]
      /\ \A k \in 1 .. n : \A l \in 1 .. k : Drawdown(g) <= g[k] - g[l]
  BY DrawdownIs
<1>3. Drawdown(f) <= 4 * Drawdown(g)
  <2>1. CASE Drawdown(g) = 0
    BY <1>1, <2>1
  <2>2. ASSUME NEW k \in 1 .. n, Drawdown(g) = g[k] PROVE Drawdown(f) <= 4 * Drawdown(g)
    BY <1>1, <2>2
  <2>3. ASSUME NEW k \in 1 .. n, NEW l \in 1 .. k, Drawdown(g) = g[k] - g[l]
        PROVE  Drawdown(f) <= 4 * Drawdown(g)
    <3>1. Drawdown(f) <= f[k] - f[l] /\ f[k] = 4 * g[k] /\ f[l] = 4 * g[l]
      BY <1>1
    <3>2. g[k] \in Int /\ g[l] \in Int
      OBVIOUS
    <3>3. QED
      BY <1>0, <2>3, <3>1, <3>2
  <2>4. QED
    BY <2>1, <2>2, <2>3, DrawdownIs
<1>4. 4 * Drawdown(g) <= Drawdown(f)
  <2>1. CASE Drawdown(f) = 0
    BY <1>2, <2>1
  <2>2. ASSUME NEW k \in 1 .. n, Drawdown(f) = f[k] PROVE 4 * Drawdown(g) <= Drawdown(f)
    <3>1. Drawdown(g) <= g[k] /\ f[k] = 4 * g[k] /\ g[k] \in Int
      BY <1>2
    <3>2. QED
      BY <1>2, <2>2, <3>1
  <2>3. ASSUME NEW k \in 1 .. n, NEW l \in 1 .. k, Drawdown(f) = f[k] - f[l]
        PROVE  4 * Drawdown(g) <= Drawdown(f)
    <3>1. Drawdown(g) <= g[k] - g[l] /\ f[k] = 4 * g[k] /\ f[l] = 4 * g[l]
      BY <1>2
    <3>2. g[k] \in Int /\ g[l] \in Int
      OBVIOUS
    <3>3. QED
      BY <1>0, <2>3, <3>1, <3>2
  <2>4. QED
    BY <2>1, <2>2, <2>3, DrawdownIs
<1>5. \A x, y \in Int : x <= 4 * y /\ 4 * y <= x => x = 4 * y
  OBVIOUS
<1>6. QED
  BY <1>0, <1>3, <1>4, <1>5

-----------------------------------------------------------------------------
(* Equity                                                                  *)

\* What the trades of a path bring under a scenario.
Brought(scenario, path, draws) ==
    [k \in 1 .. Len(path) |-> NetUnder(scenario, path[k], draws[k])]

Drawn(path, draws) ==
    /\ path # <<>>
    /\ \A k \in 1 .. Len(path) : /\ path[k].gross \in Int /\ path[k].cost \in Int
                                 /\ draws[k] \in 0 .. 19

Scenario == [cost : Int, missed : Int]

\* The equity curve of a path is the running sum of what its trades bring, and
\* its last value is what is recorded as the total.
LEMMA EquityRuns ==
    ASSUME NEW S, NEW path \in Seq(S), NEW draws, Drawn(path, draws), NEW scenario \in Scenario
    PROVE  LET n == Len(path)
               w == Brought(scenario, path, draws)
               equity == PathEquity(scenario, path, draws)
           IN  /\ n \in Nat \ {0} /\ w \in [1 .. n -> Int] /\ equity \in [1 .. n -> Int]
               /\ \E f : IsRunning(f, w, n) /\ equity = [k \in 1 .. n |-> f[k]]
               /\ Outcome(scenario, path, draws).total = equity[n]
               /\ Outcome(scenario, path, draws).drawdown = Drawdown(equity)
<1> DEFINE n == Len(path)
           w == Brought(scenario, path, draws)
           equity == PathEquity(scenario, path, draws)
           IsPath(f) ==
               f = [k \in 0 .. Len(path) |->
                       IF k = 0 THEN 0 ELSE f[k - 1] + NetUnder(scenario, path[k], draws[k])]
           run == CHOOSE f : IsPath(f)
<1>1. n \in Nat \ {0} /\ DOMAIN path = 1 .. n
  BY LenProperties, EmptySeq DEF Drawn
<1>2. scenario.cost \in Int /\ scenario.missed \in Int
  BY DEF Scenario
<1>3. \A k \in 1 .. n : NetUnder(scenario, path[k], draws[k]) \in Int
  <2>1. \A k \in 1 .. n : path[k].gross \in Int /\ path[k].cost \in Int
    BY DEF Drawn
  <2>2. QED
    BY <1>2, <2>1 DEF NetUnder
<1>4. w \in [1 .. n -> Int] /\ \A k \in 1 .. n : w[k] = NetUnder(scenario, path[k], draws[k])
  BY <1>3 DEF Brought
<1> HIDE DEF w
<1>5. ASSUME NEW f PROVE IsPath(f) <=> IsRunning(f, w, n)
  <2>1. [k \in 0 .. n |-> IF k = 0 THEN 0 ELSE f[k - 1] + NetUnder(scenario, path[k], draws[k])]
          = [k \in 0 .. n |-> IF k = 0 THEN 0 ELSE f[k - 1] + w[k]]
    BY <1>1, <1>4
  <2>2. QED
    BY <2>1 DEF IsRunning
<1>6. equity = [k \in DOMAIN path |-> run[k]]
  BY DEF PathEquity
<1> HIDE DEF IsPath
<1>7. IsRunning(run, w, n)
  <2>1. \E f : IsRunning(f, w, n)
    BY <1>1, <1>4, RunningSum
  <2>2. QED
    BY <1>5, <2>1
<1> HIDE DEF run
<1>8. run \in [0 .. n -> Int]
  BY <1>1, <1>4, <1>7, RunningValues
<1>9. equity = [k \in 1 .. n |-> run[k]] /\ equity \in [1 .. n -> Int]
  BY <1>1, <1>6, <1>8
<1>10. Len(equity) = n
  BY <1>1, <1>9
<1>11. /\ Outcome(scenario, path, draws).total = equity[n]
       /\ Outcome(scenario, path, draws).drawdown = Drawdown(equity)
  BY <1>10 DEF Outcome, Last
<1>12. QED
  BY <1>1, <1>4, <1>7, <1>9, <1>11 DEF w

LEMMA ScenariosAreScenarios ==
    /\ \A name \in DOMAIN STRESS_SCENARIOS : STRESS_SCENARIOS[name] \in Scenario
    /\ "baseline" \in DOMAIN STRESS_SCENARIOS
    /\ STRESS_SCENARIOS["baseline"] = [cost |-> 4, missed |-> 0]
  BY DEF STRESS_SCENARIOS, Scenario

\* No scenario makes more of a trade than the baseline does on the same draw,
\* provided that the trade did not lose money before costs.
LEMMA StressOnATrade ==
    ASSUME NEW name \in DOMAIN STRESS_SCENARIOS, NEW trade, NEW draw \in 0 .. 19,
           trade.gross \in Int, trade.gross >= 0, trade.cost \in Int, trade.cost >= 0
    PROVE  NetUnder(STRESS_SCENARIOS[name], trade, draw)
             <= NetUnder(STRESS_SCENARIOS["baseline"], trade, draw)
<1> DEFINE s == STRESS_SCENARIOS[name]
<1>1. s.cost \in {4, 5, 6, 8} /\ s.missed \in {0, 1, 2}
  BY DEF STRESS_SCENARIOS
<1> HIDE DEF s
<1>2. NetUnder(STRESS_SCENARIOS["baseline"], trade, draw) = 4 * trade.gross - 4 * trade.cost
  BY ScenariosAreScenarios DEF NetUnder
<1>3. NetUnder(s, trade, draw) <= 4 * trade.gross - 4 * trade.cost
  <2>1. /\ - s.cost * trade.cost <= 4 * trade.gross - 4 * trade.cost
        /\ 4 * trade.gross - s.cost * trade.cost <= 4 * trade.gross - 4 * trade.cost
    BY <1>1
  <2>2. QED
    BY <2>1 DEF NetUnder
<1>4. QED
  BY <1>2, <1>3 DEF s

\* The sample of a call that has simulated is drawn from its trades.
LEMMA SampleIsDrawn ==
    ASSUME IInv, simulated # <<>>
    PROVE  /\ Settled(Baseline) /\ sample.path \in Seq(Baseline)
           /\ Len(sample.path) = Cardinality(Baseline)
           /\ Drawn(sample.path, sample.draws)
           /\ results["baseline"] = Baseline /\ CostsAllowed(Baseline)
           /\ DOMAIN simulated \subseteq DOMAIN STRESS_SCENARIOS
           /\ \A name \in DOMAIN simulated :
                 simulated[name] = Outcome(STRESS_SCENARIOS[name], sample.path, sample.draws)
<1> DEFINE trades == InOrder(Baseline)
           n == Cardinality(Baseline)
<1>1. /\ request.kind = "monte_carlo_robustness" /\ ~ScenariosRefused(request.names)
      /\ results = [baseline |-> Baseline] /\ Baseline # {} /\ CostsAllowed(Baseline)
      /\ sample.starts \in [1 .. BlockCount(Len(trades), request.block) -> DOMAIN trades]
      /\ sample.draws \in [DOMAIN trades -> Draw]
      /\ sample.path = Sampled(trades, sample.starts, request.block)
      /\ simulated = [name \in Scenarios(request.names) |->
                          Outcome(STRESS_SCENARIOS[name], sample.path, sample.draws)]
  BY DEF IInv, SimulationAgrees
<1>2. Settled(Baseline)
  BY BaselineIsSettled DEF IInv, CallAgrees
<1>3. /\ n \in Nat /\ trades \in Seq(Baseline) /\ Len(trades) = n
  BY <1>2, InOrderLists
<1>4. request.block \in Nat \ {0}
  BY <1>1, ExperimentConstants DEF IInv, CallAgrees, Request
<1> HIDE DEF trades
<1>5. sample.path \in Seq(Baseline) /\ Len(sample.path) = n
  BY <1>1, <1>3, <1>4, SampleIsOfTheTrades
<1>6. Drawn(sample.path, sample.draws)
  <2>1. n # 0
    BY <1>1, <1>2, FS_EmptySet DEF Settled
  <2>2. sample.path # <<>>
    BY <1>5, <2>1
  <2>3. \A k \in 1 .. n : sample.path[k] \in Baseline
    BY <1>5, ElementOfSeq
  <2>4. \A k \in 1 .. n : sample.draws[k] \in 0 .. 19
    BY <1>1, <1>3, LenProperties, ExperimentConstants
  <2>5. \A k \in 1 .. n : sample.path[k].gross \in Int /\ sample.path[k].cost \in Int
    BY <1>2, <2>3 DEF Settled
  <2>6. QED
    BY <1>5, <2>2, <2>4, <2>5 DEF Drawn
<1>7. Scenarios(request.names) \subseteq DOMAIN STRESS_SCENARIOS
  BY <1>1 DEF Scenarios, ScenariosRefused
<1>8. QED
  BY <1>1, <1>2, <1>5, <1>6, <1>7

\* The four stress scenarios cannot improve on the baseline on the same draw,
\* in total or in drawdown, provided that no trade that was made lost money
\* before costs.
THEOREM StressHurts == Spec => []StressOnlyHurts
<1>1. ASSUME IInv PROVE StressOnlyHurts
  <2> DEFINE path == sample.path
             draws == sample.draws
             n == Len(path)
  <2> SUFFICES ASSUME "baseline" \in DOMAIN simulated,
                      \A trade \in results["baseline"] : trade.gross >= 0,
                      NEW name \in DOMAIN simulated
               PROVE  /\ simulated[name].total <= simulated["baseline"].total
                      /\ simulated[name].drawdown <= simulated["baseline"].drawdown
    BY DEF StressOnlyHurts
  <2>1. simulated # <<>>
    OBVIOUS
  <2>2. /\ Settled(Baseline) /\ path \in Seq(Baseline) /\ Drawn(path, draws)
        /\ results["baseline"] = Baseline /\ CostsAllowed(Baseline)
        /\ name \in DOMAIN STRESS_SCENARIOS
        /\ simulated[name] = Outcome(STRESS_SCENARIOS[name], path, draws)
        /\ simulated["baseline"] = Outcome(STRESS_SCENARIOS["baseline"], path, draws)
    BY <1>1, <2>1, SampleIsDrawn
  <2> DEFINE s == STRESS_SCENARIOS[name]
             b == STRESS_SCENARIOS["baseline"]
             v == Brought(s, path, draws)
             w == Brought(b, path, draws)
             e == PathEquity(s, path, draws)
             c == PathEquity(b, path, draws)
  <2>3. s \in Scenario /\ b \in Scenario
    BY <2>2, ScenariosAreScenarios
  <2>4. \A k \in 1 .. n : NetUnder(s, path[k], draws[k]) <= NetUnder(b, path[k], draws[k])
    <3> SUFFICES ASSUME NEW k \in 1 .. n
                 PROVE  NetUnder(s, path[k], draws[k]) <= NetUnder(b, path[k], draws[k])
      OBVIOUS
    <3>1. path[k] \in Baseline /\ draws[k] \in 0 .. 19
      BY <2>2, ElementOfSeq DEF Drawn
    <3>2. /\ path[k].gross \in Int /\ path[k].gross >= 0
          /\ path[k].cost \in Int /\ path[k].cost >= 0
      BY <2>2, <3>1 DEF Settled, CostsAllowed
    <3>3. QED
      BY <2>2, <3>1, <3>2, StressOnATrade
  <2>5. \A k \in 1 .. n : v[k] <= w[k]
    BY <2>4 DEF Brought
  <2> HIDE DEF s, b, path, draws
  <2>6. /\ n \in Nat \ {0} /\ v \in [1 .. n -> Int] /\ e \in [1 .. n -> Int]
        /\ \E f : IsRunning(f, v, n) /\ e = [k \in 1 .. n |-> f[k]]
        /\ Outcome(s, path, draws).total = e[n]
        /\ Outcome(s, path, draws).drawdown = Drawdown(e)
    BY <2>2, <2>3, EquityRuns
  <2>7. /\ w \in [1 .. n -> Int] /\ c \in [1 .. n -> Int]
        /\ \E f : IsRunning(f, w, n) /\ c = [k \in 1 .. n |-> f[k]]
        /\ Outcome(b, path, draws).total = c[n]
        /\ Outcome(b, path, draws).drawdown = Drawdown(c)
    BY <2>2, <2>3, EquityRuns
  <2> HIDE DEF v, w, e, c, n
  <2>8. PICK f : IsRunning(f, v, n) /\ e = [k \in 1 .. n |-> f[k]]
    BY <2>6
  <2>9. PICK g : IsRunning(g, w, n) /\ c = [k \in 1 .. n |-> g[k]]
    BY <2>7
  <2>10. \A l \in 0 .. n : \A k \in l .. n : f[k] - f[l] <= g[k] - g[l]
    BY <2>5, <2>6, <2>7, <2>8, <2>9, RunningOrder
  <2>11. f[0] = 0 /\ g[0] = 0 /\ f \in [0 .. n -> Int] /\ g \in [0 .. n -> Int]
    BY <2>6, <2>7, <2>8, <2>9, RunningValues
  <2>12. \A k \in 1 .. n : e[k] <= c[k]
    <3> SUFFICES ASSUME NEW k \in 1 .. n PROVE e[k] <= c[k]
      OBVIOUS
    <3>1. f[k] - f[0] <= g[k] - g[0]
      BY <2>6, <2>10
    <3>2. e[k] = f[k] /\ c[k] = g[k] /\ f[k] \in Int /\ g[k] \in Int
      BY <2>6, <2>8, <2>9, <2>11
    <3>3. QED
      BY <2>11, <3>1, <3>2
  <2>13. \A k \in 1 .. n : \A l \in 1 .. k : e[k] - e[l] <= c[k] - c[l]
    <3> SUFFICES ASSUME NEW k \in 1 .. n, NEW l \in 1 .. k PROVE e[k] - e[l] <= c[k] - c[l]
      OBVIOUS
    <3>1. l \in 0 .. n /\ k \in l .. n /\ l \in 1 .. n
      BY <2>6
    <3>2. f[k] - f[l] <= g[k] - g[l]
      BY <2>10, <3>1
    <3>3. e[k] = f[k] /\ e[l] = f[l] /\ c[k] = g[k] /\ c[l] = g[l]
      BY <2>8, <2>9, <3>1
    <3>4. QED
      BY <3>2, <3>3
  <2>14. Drawdown(e) <= Drawdown(c) /\ e[n] <= c[n]
    <3>1. n \in Nat /\ n \in 1 .. n
      BY <2>6
    <3>2. Drawdown(e) <= Drawdown(c)
      BY <2>6, <2>7, <2>12, <2>13, <3>1, DrawdownOrder
    <3>3. QED
      BY <2>12, <3>1, <3>2
  <2>15. QED
    BY <2>2, <2>6, <2>7, <2>14 DEF s, b
<1>2. QED
  BY <1>1, Invariant, PTL

-----------------------------------------------------------------------------
(* The backtester and the simulator                                        *)

\* The net edge of trades is a total over their subsets.
LEMMA NetEdgeIsATotal ==
    ASSUME NEW T, IsFiniteSet(T), \A x \in T : x.gross \in Int /\ x.cost \in Int
    PROVE  \E f : Adds(f, [x \in T |-> Net(x)], T) /\ NetEdge(T) = f[T]
<1> DEFINE c == [s \in SUBSET T |-> CHOOSE x \in s : TRUE]
           w == [x \in T |-> Net(x)]
           IsSum(f) == f = [s \in SUBSET T |-> IF s = {} THEN 0
                                               ELSE Net(CHOOSE x \in s : TRUE)
                                                      + f[s \ {CHOOSE x \in s : TRUE}]]
           total == CHOOSE f : IsSum(f)
<1>1. NetEdge(T) = total[T]
  BY DEF NetEdge, MapThenSumSet, MapThenFoldSet
<1>2. w \in [T -> Int] /\ \A x \in T : w[x] = Net(x)
  BY DEF Net
<1>3. \A s \in SUBSET T : c[s] = CHOOSE x \in s : TRUE
  OBVIOUS
<1>4. Chooses(c, T)
  BY <1>3 DEF Chooses
<1> HIDE DEF w, c
<1>5. ASSUME NEW f PROVE IsSum(f) <=> IsTotal(f, w, c, T)
  <2> DEFINE left(s) == IF s = {} THEN 0 ELSE Net(CHOOSE x \in s : TRUE)
                                                + f[s \ {CHOOSE x \in s : TRUE}]
             right(s) == IF s = {} THEN 0 ELSE w[c[s]] + f[s \ {c[s]}]
  <2>1. \A s \in SUBSET T : left(s) = right(s)
    <3> SUFFICES ASSUME NEW s \in SUBSET T, s # {} PROVE left(s) = right(s)
      OBVIOUS
    <3>1. w[c[s]] = Net(c[s])
      BY <1>2, <1>4 DEF Chooses
    <3>2. c[s] = CHOOSE x \in s : TRUE
      BY <1>3
    <3>3. left(s) = Net(c[s]) + f[s \ {c[s]}]
      BY <3>2
    <3>4. QED
      BY <3>1, <3>3
  <2>2. IsSum(f) <=> f = [s \in SUBSET T |-> left(s)]
    OBVIOUS
  <2>3. IsTotal(f, w, c, T) <=> f = [s \in SUBSET T |-> right(s)]
    BY DEF IsTotal
  <2> HIDE DEF left, right, IsSum
  <2>4. [s \in SUBSET T |-> left(s)] = [s \in SUBSET T |-> right(s)]
    BY <2>1
  <2>5. QED
    BY <2>2, <2>3, <2>4
<1> HIDE DEF IsSum
<1>6. IsTotal(total, w, c, T)
  <2>1. \E f : IsTotal(f, w, c, T)
    BY <1>2, <1>4, TotalSum
  <2>2. QED
    BY <1>5, <2>1
<1> HIDE DEF total
<1>7. Adds(total, w, T)
  BY <1>2, <1>4, <1>6, TotalAdds
<1>8. QED
  BY <1>1, <1>7 DEF w

\* The net edge of trades is a number, each trade adding its own.
LEMMA NetEdgeAdds ==
    ASSUME NEW S, IsFiniteSet(S), \A x \in S : x.gross \in Int /\ x.cost \in Int
    PROVE  /\ NetEdge(S) \in Int /\ NetEdge({}) = 0
           /\ \A x \in S : NetEdge(S) = NetEdge(S \ {x}) + Net(x)
<1> DEFINE v(T) == [x \in T |-> Net(x)]
<1>1. PICK f : Adds(f, v(S), S) /\ NetEdge(S) = f[S]
  BY NetEdgeIsATotal
<1>2. NetEdge({}) = 0
  <2>1. IsFiniteSet({}) /\ \A x \in {} : x.gross \in Int /\ x.cost \in Int
    BY FS_EmptySet
  <2>2. PICK g : Adds(g, v({}), {}) /\ NetEdge({}) = g[{}]
    BY <2>1, NetEdgeIsATotal
  <2>3. QED
    BY <2>2 DEF Adds
<1>3. ASSUME NEW x \in S PROVE NetEdge(S) = NetEdge(S \ {x}) + Net(x)
  <2> DEFINE T == S \ {x}
  <2>1. T \subseteq S /\ IsFiniteSet(T) /\ \A y \in T : y.gross \in Int /\ y.cost \in Int
    BY FS_Subset
  <2>2. PICK g : Adds(g, v(T), T) /\ NetEdge(T) = g[T]
    <3> HIDE DEF T
    <3>1. QED
      BY <2>1, NetEdgeIsATotal
  <2>4. Adds(g, v(S), T)
    BY <2>1, <2>2 DEF Adds
  <2>5. g[T] = f[T]
    <3> DEFINE w == v(S)
    <3>1. Adds(f, w, S) /\ Adds(g, w, T)
      BY <1>1, <2>4
    <3> HIDE DEF T, w
    <3>2. \A s \in SUBSET T : g[s] = f[s]
      BY <2>1, <3>1, TotalsAgree
    <3>3. QED
      BY <3>2
  <2>6. f[S] = f[S \ {x}] + Net(x)
    BY <1>1 DEF Adds
  <2>7. QED
    BY <1>1, <2>2, <2>5, <2>6
<1>4. NetEdge(S) \in Int
  BY <1>1 DEF Adds
<1>5. QED
  BY <1>2, <1>3, <1>4

\* The equity curve of the trades, in order, is their running net edge, in
\* quarters.
LEMMA EquityIsRunning ==
    ASSUME NEW S, Settled(S), NEW f,
           IsRunning(f, [k \in 1 .. Cardinality(S) |-> 4 * Net(InOrder(S)[k])], Cardinality(S))
    PROVE  /\ Equity(S) \in [1 .. Cardinality(S) -> Int]
           /\ \A k \in 1 .. Cardinality(S) : f[k] = 4 * Equity(S)[k]
           /\ f[Cardinality(S)] = 4 * NetEdge(S)
<1> DEFINE n == Cardinality(S)
           path == InOrder(S)
           w == [k \in 1 .. n |-> 4 * Net(path[k])]
           upto(k) == {path[i] : i \in 1 .. k}
<1>1. /\ n \in Nat /\ \A k \in 1 .. n : path[k] \in S
      /\ \A x \in S : \E k \in 1 .. n : path[k] = x
      /\ \A k, l \in 1 .. n : k < l => path[k].decision < path[l].decision
      /\ \A k \in 1 .. n : Cardinality({u \in S : u.execution <= path[k].execution}) = k
  BY InOrderLists, ElementOfSeq
<1>2. \A x \in S : /\ x.decision \in Nat /\ x.execution = x.decision + 1
                   /\ x.gross \in Int /\ x.cost \in Int /\ Net(x) \in Int
  BY DEF Settled, Net
<1>3. \A k, l \in 1 .. n : path[k] = path[l] => k = l
  BY <1>1, <1>2
<1> HIDE DEF path
<1>4. w \in [1 .. n -> Int] /\ \A k \in 1 .. n : w[k] = 4 * Net(path[k])
  BY <1>1, <1>2
<1>5. /\ f \in [0 .. n -> Int] /\ f[0] = 0 /\ \A k \in 1 .. n : f[k] = f[k - 1] + w[k]
  <2>1. IsRunning(f, w, n)
    BY DEF path
  <2> HIDE DEF w, n
  <2>2. QED
    BY <1>1, <1>4, <2>1, RunningValues, ZenonT(60)
<1> HIDE DEF w
<1>6. ASSUME NEW k \in 0 .. n
      PROVE  /\ upto(k) \in SUBSET S /\ IsFiniteSet(upto(k))
             /\ \A x \in upto(k) : x.gross \in Int /\ x.cost \in Int
  <2>1. upto(k) \in SUBSET S
    BY <1>1
  <2>2. IsFiniteSet(upto(k))
    BY <2>1, FS_Subset DEF Settled
  <2>3. QED
    BY <1>2, <2>1, <2>2
<1> DEFINE T == {k \in Nat : k <= n => f[k] = 4 * NetEdge(upto(k))}
<1>7. 0 \in T
  <2>1. upto(0) = {}
    OBVIOUS
  <2>2. NetEdge({}) = 0
    BY NetEdgeAdds, <1>2 DEF Settled
  <2> HIDE DEF upto
  <2>3. f[0] = 0 /\ NetEdge(upto(0)) = 0
    BY <1>5, <2>1, <2>2
  <2>4. QED
    BY <2>3
<1>8. ASSUME NEW k \in Nat, k \in T PROVE k + 1 \in T
  <2> SUFFICES ASSUME k + 1 <= n PROVE f[k + 1] = 4 * NetEdge(upto(k + 1))
    BY <1>8
  <2>1. k \in 0 .. n /\ k + 1 \in 1 .. n /\ k + 1 \in 0 .. n
    BY <1>1
  <2>2. f[k + 1] = f[k] + 4 * Net(path[k + 1]) /\ f[k] = 4 * NetEdge(upto(k))
    BY <1>1, <1>4, <1>5, <1>8, <2>1
  <2>3. path[k + 1] \in upto(k + 1) /\ upto(k + 1) \ {path[k + 1]} = upto(k)
    <3>1. path[k + 1] \in upto(k + 1) /\ upto(k + 1) = upto(k) \cup {path[k + 1]}
      OBVIOUS
    <3>2. path[k + 1] \notin upto(k)
      BY <1>1, <1>3, <2>1
    <3>3. QED
      BY <3>1, <3>2
  <2> HIDE DEF upto
  <2>4. /\ NetEdge(upto(k + 1)) = NetEdge(upto(k)) + Net(path[k + 1])
        /\ NetEdge(upto(k)) \in Int /\ Net(path[k + 1]) \in Int
    <3>1. path[k + 1] \in S
      BY <1>1, <2>1
    <3>2. NetEdge(upto(k + 1)) = NetEdge(upto(k + 1) \ {path[k + 1]}) + Net(path[k + 1])
      BY <1>6, <2>1, <2>3, NetEdgeAdds
    <3>3. NetEdge(upto(k)) \in Int
      BY <1>6, <2>1, NetEdgeAdds
    <3>4. QED
      BY <1>2, <2>3, <3>1, <3>2, <3>3
  <2>5. QED
    BY <2>2, <2>4
<1>9. \A k \in 0 .. n : f[k] = 4 * NetEdge(upto(k))
  <2> HIDE DEF T
  <2>1. Nat \subseteq T
    BY <1>7, <1>8, Induction
  <2>2. QED
    BY <2>1 DEF T
<1>10. ASSUME NEW k \in 1 .. n
       PROVE  {x \in S : Cardinality({u \in S : u.execution <= x.execution}) <= k} = upto(k)
  <2>1. ASSUME NEW i \in 1 .. n
        PROVE  path[i] \in upto(k) <=> i <= k
    BY <1>3, <1>1
  <2>2. ASSUME NEW x \in S
        PROVE  x \in upto(k) <=> Cardinality({u \in S : u.execution <= x.execution}) <= k
    <3>1. PICK i \in 1 .. n : path[i] = x
      BY <1>1
    <3>2. Cardinality({u \in S : u.execution <= x.execution}) = i
      BY <1>1, <3>1
    <3>3. QED
      BY <2>1, <3>1, <3>2
  <2>3. upto(k) \in SUBSET S
    BY <1>1
  <2>4. QED
    BY <2>2, <2>3
<1>11. Equity(S) = [k \in 1 .. n |-> NetEdge(upto(k))]
  BY <1>10 DEF Equity
<1>12. upto(n) = S
  BY <1>1
<1> HIDE DEF upto
<1>13. \A k \in 0 .. n : NetEdge(upto(k)) \in Int
  BY <1>6, NetEdgeAdds
<1>14. n \in 0 .. n /\ \A k \in 1 .. n : k \in 0 .. n
  BY <1>1
<1>15. Equity(S) \in [1 .. n -> Int] /\ \A k \in 1 .. n : f[k] = 4 * Equity(S)[k]
  BY <1>9, <1>11, <1>13, <1>14
<1>16. f[n] = 4 * NetEdge(S)
  BY <1>9, <1>12, <1>14
<1>17. QED
  BY <1>15, <1>16

\* Drawdown and edge are consistent between the backtester and the simulator: a
\* sample that is every trade once, in order, gives under the baseline what the
\* backtester reports.
THEOREM SimulatorAgrees == Spec => []SimulatorAgreesWithTheBacktest
<1>1. ASSUME IInv PROVE SimulatorAgreesWithTheBacktest
  <2> DEFINE path == sample.path
             draws == sample.draws
             S == Baseline
             n == Cardinality(S)
             b == STRESS_SCENARIOS["baseline"]
             w == Brought(b, path, draws)
             c == PathEquity(b, path, draws)
  <2> SUFFICES ASSUME "baseline" \in DOMAIN simulated
               PROVE  /\ Len(path) = Cardinality(results["baseline"])
                      /\ path = InOrder(results["baseline"]) =>
                           /\ simulated["baseline"].total = 4 * Metrics(results["baseline"]).net
                           /\ simulated["baseline"].drawdown
                                = 4 * Metrics(results["baseline"]).drawdown
    BY DEF SimulatorAgreesWithTheBacktest
  <2>1. simulated # <<>>
    OBVIOUS
  <2>2. /\ Settled(S) /\ path \in Seq(S) /\ Len(path) = n /\ Drawn(path, draws)
        /\ results["baseline"] = S /\ CostsAllowed(S)
        /\ simulated["baseline"] = Outcome(b, path, draws)
    BY <1>1, <2>1, SampleIsDrawn
  <2>3. b = [cost |-> 4, missed |-> 0] /\ b \in Scenario
    BY ScenariosAreScenarios
  <2> HIDE DEF S, b, path, draws
  <2>4. /\ n \in Nat \ {0} /\ w \in [1 .. n -> Int] /\ c \in [1 .. n -> Int]
        /\ \E f : IsRunning(f, w, n) /\ c = [k \in 1 .. n |-> f[k]]
        /\ Outcome(b, path, draws).total = c[n]
        /\ Outcome(b, path, draws).drawdown = Drawdown(c)
    <3> DEFINE m == Len(path)
    <3>0. path \in Seq(S) /\ Drawn(path, draws) /\ b \in Scenario
      BY <2>2, <2>3
    <3>1. /\ m \in Nat \ {0} /\ w \in [1 .. m -> Int] /\ c \in [1 .. m -> Int]
          /\ \E f : IsRunning(f, w, m) /\ c = [k \in 1 .. m |-> f[k]]
          /\ Outcome(b, path, draws).total = c[m]
          /\ Outcome(b, path, draws).drawdown = Drawdown(c)
      BY <3>0, EquityRuns
    <3>2. m = n
      BY <2>2
    <3> HIDE DEF m, n, w, c
    <3>3. QED
      BY <3>1, <3>2
  <2>5. ASSUME path = InOrder(S)
        PROVE  c[n] = 4 * NetEdge(S) /\ Drawdown(c) = 4 * Drawdown(Equity(S))
    <3>1. ASSUME NEW k \in 1 .. n
          PROVE  NetUnder(b, path[k], draws[k]) = 4 * Net(path[k])
      <4>1. /\ path[k].gross \in Int /\ path[k].cost \in Int /\ draws[k] \in 0 .. 19
        BY <2>2 DEF Drawn
      <4>2. NetUnder(b, path[k], draws[k]) = 4 * path[k].gross - 4 * path[k].cost
        BY <2>3, <4>1 DEF NetUnder
      <4>3. QED
        BY <4>1, <4>2 DEF Net
    <3>2. w = [k \in 1 .. n |-> 4 * Net(InOrder(S)[k])]
      BY <2>2, <2>5, <3>1 DEF Brought
    <3> HIDE DEF w, c
    <3>3. PICK f : IsRunning(f, w, n) /\ c = [k \in 1 .. n |-> f[k]]
      BY <2>4
    <3>4. /\ Equity(S) \in [1 .. n -> Int] /\ \A k \in 1 .. n : f[k] = 4 * Equity(S)[k]
          /\ f[n] = 4 * NetEdge(S)
      BY <2>2, <3>2, <3>3, EquityIsRunning
    <3>5. /\ \A k \in 1 .. n : c[k] = 4 * Equity(S)[k]
          /\ c[n] = 4 * NetEdge(S)
      BY <2>4, <3>3, <3>4
    <3> HIDE DEF n
    <3>6. Drawdown(c) = 4 * Drawdown(Equity(S))
      BY <2>4, <3>4, <3>5, DrawdownScales
    <3>7. QED
      BY <3>5, <3>6
  <2>6. Metrics(S).net = NetEdge(S) /\ Metrics(S).drawdown = Drawdown(Equity(S))
    BY DEF Metrics
  <2>7. QED
    BY <2>2, <2>4, <2>5, <2>6 DEF path
<1>2. QED
  BY <1>1, Invariant, PTL

-----------------------------------------------------------------------------
(* Symbols                                                                 *)

\* A set of positions is a finite set of numbers.
LEMMA PositionsAreFinite ==
    ASSUME NEW n \in Nat, NEW S, S \subseteq 1 .. n
    PROVE  IsFiniteSet(S) /\ S \in SUBSET Int
<1>1. IsFiniteSet(1 .. n)
  BY FS_Interval
<1>2. IsFiniteSet(S)
  BY <1>1, FS_Subset
<1>3. QED
  BY <1>2

\* What a symbol is resolved to is listed, and is what it was configured to be,
\* or a name it is published under, or one that contains an alias of it.
LEMMA ResolvedIsListed ==
    ASSUME NEW s, NEW available, NEW configured,
           Len(available) \in Nat, DOMAIN available = 1 .. Len(available),
           Len(AliasesOf[s]) \in Nat, DOMAIN AliasesOf[s] = 1 .. Len(AliasesOf[s]),
           Resolve(s, available, configured) # NotFound
    PROVE  /\ \E k \in DOMAIN available : Resolve(s, available, configured) = available[k]
           /\ \/ s \in DOMAIN configured /\ configured[s] = Resolve(s, available, configured)
              \/ NormalOf[Resolve(s, available, configured)] = NormalOf[s]
              \/ /\ Published(s, available) = {}
                 /\ \E k \in DOMAIN AliasesOf[s] :
                       AliasesOf[s][k] \in ContainedIn[Resolve(s, available, configured)]
<1> DEFINE published == Published(s, available)
           matches   == AliasMatches(s, available)
           aliases   == {match[1] : match \in matches}
           alias     == Min(aliases)
           entries   == {k \in DOMAIN available : <<alias, k>> \in matches}
<1>1. CASE s \in DOMAIN configured /\ configured[s] \in Range(available)
  BY <1>1 DEF Resolve, Range
<1>2. CASE /\ ~(s \in DOMAIN configured /\ configured[s] \in Range(available))
           /\ published # {}
  <2>1. published \subseteq 1 .. Len(available)
    BY DEF Published
  <2>2. IsFiniteSet(published) /\ published \in SUBSET Int
    BY <2>1, PositionsAreFinite
  <2>3. Max(published) \in published
    BY <1>2, <2>1, <2>2, LeastAndGreatest
  <2>4. Max(published) \in DOMAIN available /\ NormalOf[available[Max(published)]] = NormalOf[s]
    BY <2>3 DEF Published
  <2>5. Resolve(s, available, configured) = available[Max(published)]
    BY <1>2 DEF Resolve
  <2>6. QED
    BY <2>4, <2>5
<1>3. CASE /\ ~(s \in DOMAIN configured /\ configured[s] \in Range(available))
           /\ published = {}
  <2>1. matches # {}
    BY <1>3 DEF Resolve
  <2>2. matches \subseteq (1 .. Len(AliasesOf[s])) \X (1 .. Len(available))
    BY DEF AliasMatches
  <2> HIDE DEF matches
  <2>3. aliases \subseteq 1 .. Len(AliasesOf[s]) /\ aliases # {}
    BY <2>1, <2>2
  <2>4. IsFiniteSet(aliases) /\ aliases \in SUBSET Int
    <3> HIDE DEF aliases
    <3>1. QED
      BY <2>3, PositionsAreFinite
  <2>5. alias \in aliases
    BY <2>3, <2>4, LeastAndGreatest
  <2>6. PICK match \in matches : match[1] = alias
    BY <2>5
  <2>7. match = <<alias, match[2]>> /\ match[2] \in DOMAIN available
    BY <2>2, <2>6
  <2>8. entries # {} /\ entries \subseteq 1 .. Len(available)
    BY <2>6, <2>7
  <2>9. IsFiniteSet(entries) /\ entries \in SUBSET Int
    <3> HIDE DEF entries
    <3>1. QED
      BY <2>8, PositionsAreFinite
  <2>10. Min(entries) \in entries
    BY <2>8, <2>9, LeastAndGreatest
  <2>11. Resolve(s, available, configured) = available[Min(entries)]
    BY <1>3, <2>1 DEF Resolve, matches
  <2>12. Min(entries) \in DOMAIN available /\ <<alias, Min(entries)>> \in matches
    BY <2>10
  <2>13. /\ alias \in DOMAIN AliasesOf[s]
         /\ AliasesOf[s][alias] \in ContainedIn[available[Min(entries)]]
    <3> HIDE DEF alias, entries
    <3>1. QED
      BY <2>12 DEF matches, AliasMatches
  <2>14. QED
    BY <1>3, <2>11, <2>12, <2>13
<1>4. QED
  BY <1>1, <1>2, <1>3

-----------------------------------------------------------------------------
(* Series                                                                  *)

Bar == [at : Int, final : BOOLEAN]

\* A series of a market: bars that traded, final if they were closed when the
\* session was opened, without a gap up to that moment, and reaching back as
\* far as the limit.
ReadFrom(bars, traded) ==
    /\ bars \subseteq Bar
    /\ \A bar \in bars : bar.at \in traded /\ (bar.at < opened => bar.final = TRUE)
    /\ \A bar \in bars, u \in traded :
          bar.at <= u /\ u < opened => \E other \in bars : other.at = u
    /\ \A u \in traded :
          u < opened /\ u > LastBar - Limit => \E other \in bars : other.at = u

\* Whenever it is made, a read returns such a series.
LEMMA RecentIsReadFrom ==
    ASSUME NEW traded \in SUBSET Int, NEW forming \in SUBSET (traded \cap {now}),
           now \in Int, opened \in Int, opened <= now, now <= LastBar
    PROVE  ReadFrom(Recent(traded, forming), traded)
<1> DEFINE seen == {t \in traded : t < now} \cup forming
           Later(u) == {v \in seen : v > u}
           kept == {u \in seen : Cardinality(Later(u)) < Limit}
           bars == Recent(traded, forming)
<1>1. bars = {[at |-> t, final |-> t < now] : t \in kept}
  BY DEF Recent
<1>2. seen \subseteq traded /\ \A u \in seen : u \in Int /\ u <= now
  <2>1. \A u \in seen : u \in traded /\ (u < now \/ u = now)
    OBVIOUS
  <2> HIDE DEF seen
  <2>2. \A u \in traded : u \in Int
    OBVIOUS
  <2>3. ASSUME NEW u \in seen PROVE u \in Int /\ u <= now
    <3>1. u \in Int
      BY <2>1, <2>2
    <3>2. u < now \/ u = now
      BY <2>1
    <3>3. QED
      BY <3>1, <3>2
  <2>4. QED
    BY <2>1, <2>3
<1>3. \A u \in traded : u < opened => u \in seen
  OBVIOUS
<1>4. LastBar \in Int /\ Limit \in Nat \ {0}
  BY BarsAreCounted
<1> HIDE DEF seen
<1>5. ASSUME NEW u \in Int
      PROVE  /\ IsFiniteSet(Later(u)) /\ Cardinality(Later(u)) \in Nat
             /\ Later(u) \subseteq (u + 1) .. LastBar
  <2>1. Later(u) \subseteq (u + 1) .. LastBar
    <3>1. \A v \in seen : v > u => v \in (u + 1) .. LastBar
      BY <1>2, <1>4
    <3>2. QED
      BY <3>1
  <2>2. IsFiniteSet((u + 1) .. LastBar)
    <3>1. u + 1 \in Int
      OBVIOUS
    <3>2. QED
      BY <1>4, <3>1, FS_Interval
  <2> HIDE DEF Later
  <2>3. IsFiniteSet(Later(u))
    BY <2>1, <2>2, FS_Subset
  <2>4. QED
    BY <2>1, <2>3, FS_CardinalityType
<1>6. ASSUME NEW t \in kept, NEW u \in seen, t <= u PROVE u \in kept
  <2>1. t \in Int /\ u \in Int
    BY <1>2
  <2>2. \A v \in seen : v > u => v > t
    BY <1>2, <1>6, <2>1
  <2>3. IsFiniteSet(Later(t)) /\ Cardinality(Later(t)) \in Nat /\ Cardinality(Later(u)) \in Nat
    BY <1>5, <2>1
  <2>4. Cardinality(Later(u)) <= Cardinality(Later(t))
    <3>1. Later(u) \subseteq Later(t)
      BY <2>2
    <3> HIDE DEF Later
    <3>2. QED
      BY <2>3, <3>1, FS_Subset
  <2>5. Cardinality(Later(t)) < Limit
    OBVIOUS
  <2>6. Cardinality(Later(u)) < Limit
    <3> HIDE DEF Later
    <3>1. QED
      BY <1>4, <2>3, <2>4, <2>5
  <2>7. QED
    BY <2>6
<1>7. ASSUME NEW u \in seen, u > LastBar - Limit PROVE u \in kept
  <2>1. u \in Int /\ u <= LastBar
    BY <1>2, <1>4
  <2>2. IsFiniteSet((u + 1) .. LastBar) /\ Cardinality((u + 1) .. LastBar) <= LastBar - u
    <3>1. u + 1 \in Int
      BY <2>1
    <3>2. /\ IsFiniteSet((u + 1) .. LastBar)
          /\ Cardinality((u + 1) .. LastBar) = IF u + 1 > LastBar THEN 0 ELSE LastBar - (u + 1) + 1
      BY <1>4, <3>1, FS_Interval
    <3>3. QED
      BY <1>4, <2>1, <3>2
  <2>3. Cardinality(Later(u)) <= Cardinality((u + 1) .. LastBar)
    <3>1. Later(u) \subseteq (u + 1) .. LastBar
      BY <1>5, <2>1
    <3> HIDE DEF Later
    <3>2. QED
      BY <2>2, <3>1, FS_Subset
  <2>4. Cardinality(Later(u)) \in Nat /\ Cardinality((u + 1) .. LastBar) \in Nat
    BY <1>5, <2>1, <2>2, FS_CardinalityType
  <2>5. Cardinality(Later(u)) < Limit
    <3> HIDE DEF Later
    <3>1. QED
      BY <1>4, <1>7, <2>1, <2>2, <2>3, <2>4
  <2>6. QED
    BY <2>5
<1>8. kept \subseteq seen
  OBVIOUS
<1> HIDE DEF kept, bars
<1>9. \A t \in kept : [at |-> t, final |-> t < now] \in bars
  BY <1>1
<1>10. \A bar \in bars : /\ bar.at \in kept /\ bar \in Bar
                         /\ bar.at < now => bar.final = TRUE
  <2> TAKE bar \in bars
  <2>1. PICK t \in kept : bar = [at |-> t, final |-> t < now]
    BY <1>1
  <2>2. t \in Int /\ (t < now) \in BOOLEAN
    BY <1>2, <1>8
  <2>3. bar \in Bar
    BY <2>1, <2>2 DEF Bar
  <2>4. bar.at = t /\ (t < now => bar.final = TRUE)
    BY <2>1
  <2>5. QED
    BY <2>3, <2>4
<1>11. \A u \in kept : \E other \in bars : other.at = u
  BY <1>9
<1>12. \A bar \in bars : bar.at < opened => bar.final = TRUE
  <2> TAKE bar \in bars
  <2>1. bar.at \in Int
    BY <1>10 DEF Bar
  <2>2. QED
    BY <1>10, <2>1
<1>13. ReadFrom(bars, traded)
  BY <1>2, <1>3, <1>6, <1>7, <1>8, <1>10, <1>11, <1>12 DEF ReadFrom
<1>14. QED
  BY <1>13 DEF bars

-----------------------------------------------------------------------------
(* The inductive invariant                                                 *)

Resolved == [s \in RequiredSymbols |-> Resolve(s, terminal.available, study.configured)]

\* The symbols were resolved once, and each is listed.
IsNamed == names = Resolved /\ NotFound \notin Range(names)

StudyIInv ==
    /\ study \in Studies /\ terminal \in Terminals
    /\ now \in Int /\ opened \in Int /\ opened <= now /\ now <= LastBar
    /\ names = <<>> \/ IsNamed
    /\ step \in {"read", "align", "done"} => IsNamed
    /\ series \in Seq(SUBSET Bar) /\ Len(series) <= Len(study.required)
    /\ step = "open" => series = <<>> /\ names = <<>>
    /\ step = "read" => Len(series) < Len(study.required)
    /\ step \in {"align", "done"} => Len(series) = Len(study.required)
    /\ step \in {"read", "align", "done"} =>
          \A k \in DOMAIN series : ReadFrom(series[k], TradedAs(study.required[k]))
    /\ step = "done" => rows = AlignedRows

\* A study starts with nothing resolved and nothing read.
LEMMA StudyInitIInv == StudyInit => StudyIInv
<1> SUFFICES ASSUME StudyInit PROVE StudyIInv
  OBVIOUS
<1>1. study \in Studies /\ Len(study.required) \in Nat
  BY StudiesAreReadable DEF StudyInit
<1>2. Len(series) = 0 /\ series \in Seq(SUBSET Bar)
  BY DEF StudyInit
<1>3. QED
  BY <1>1, <1>2, BarsAreCounted DEF StudyInit, StudyIInv

\* The market moves on: what was read stays a read of it.
LEMMA TickIInv == StudyIInv /\ Tick => StudyIInv'
<1> SUFFICES ASSUME StudyIInv, Tick PROVE StudyIInv'
  OBVIOUS
<1>1. LastBar \in Int /\ now' \in Int /\ now <= now' /\ now' <= LastBar
  BY BarsAreCounted DEF StudyIInv, Tick
<1>2. /\ UNCHANGED <<study, terminal, step, opened, names, series, rows>>
      /\ step \in {"open", "read"}
  BY DEF Tick
<1>3. (IsNamed' <=> IsNamed)
      /\ \A k \in DOMAIN series :
            ReadFrom(series[k], TradedAs(study.required[k]))'
              <=> ReadFrom(series[k], TradedAs(study.required[k]))
  BY <1>2 DEF IsNamed, Resolved, RequiredSymbols, ReadFrom, TradedAs
<1>4. QED
  BY <1>1, <1>2, <1>3 DEF StudyIInv

\* A failure changes nothing but the step.
LEMMA FailsIInv ==
    ASSUME StudyIInv, NEW exception, exception \notin {"open", "read", "align", "done"},
           StudyFails(exception)
    PROVE  StudyIInv'
  BY DEF StudyIInv, StudyFails, IsNamed, Resolved, RequiredSymbols

\* The symbols are resolved, or the study fails.
LEMMA OpenIInv == StudyIInv /\ OpenTerminal => StudyIInv'
<1> SUFFICES ASSUME StudyIInv, OpenTerminal PROVE StudyIInv'
  OBVIOUS
<1>1. CASE StudyFails("SymbolNotFoundError")
  BY <1>1, FailsIInv
<1>2. CASE ~StudyFails("SymbolNotFoundError")
  <2>1. /\ step = "open" /\ NotFound \notin Range(Resolved)
        /\ names' = Resolved /\ opened' = now /\ step' = "read"
        /\ UNCHANGED <<study, terminal, now, series, rows>>
    BY <1>2 DEF OpenTerminal, Resolved
  <2>2. Resolved' = Resolved
    BY <2>1 DEF Resolved, RequiredSymbols
  <2>3. IsNamed'
    BY <2>1, <2>2 DEF IsNamed
  <2>4. Len(study.required) \in Nat \ {0}
    BY StudiesAreReadable DEF StudyIInv, Range
  <2>5. series = <<>> /\ Len(series) = 0 /\ DOMAIN series = {}
    BY <2>1 DEF StudyIInv
  <2>6. \A k \in DOMAIN series' : ReadFrom(series[k], TradedAs(study.required[k]))'
    BY <2>1, <2>5
  <2>7. QED
    BY <2>1, <2>3, <2>4, <2>5, <2>6 DEF StudyIInv
<1>3. QED
  BY <1>1, <1>2

\* The market of a required symbol.
LEMMA MarketIsNumeric ==
    ASSUME StudyIInv, IsNamed, NEW s \in RequiredSymbols
    PROVE  TradedAs(s) \in SUBSET Int
<1>1. names[s] = Resolve(s, terminal.available, study.configured) /\ names[s] \in Range(names)
  BY DEF IsNamed, Resolved, Range
<1>2. Resolve(s, terminal.available, study.configured) # NotFound
  BY <1>1 DEF IsNamed
<1>3. /\ Len(AliasesOf[s]) \in Nat /\ DOMAIN AliasesOf[s] = 1 .. Len(AliasesOf[s])
      /\ Len(terminal.available) \in Nat
      /\ DOMAIN terminal.available = 1 .. Len(terminal.available)
  BY StudiesAreReadable, TerminalsAreListed DEF StudyIInv, RequiredSymbols
<1>4. PICK k \in DOMAIN terminal.available : names[s] = terminal.available[k]
  BY <1>1, <1>2, <1>3, ResolvedIsListed
<1>5. QED
  BY <1>4, TerminalsAreListed DEF StudyIInv, TradedAs

\* The next series is a read of its market.
LEMMA ReadIInv == StudyIInv /\ ReadSeries => StudyIInv'
<1> SUFFICES ASSUME StudyIInv, ReadSeries PROVE StudyIInv'
  OBVIOUS
<1> DEFINE n == Len(series) + 1
           market == TradedAs(study.required[n])
<1>1. /\ step = "read" /\ IsNamed /\ step' \in {"read", "align"}
      /\ step' = IF Len(series') = Len(study.required) THEN "align" ELSE "read"
      /\ UNCHANGED <<study, terminal, now, opened, names, rows>>
  BY DEF ReadSeries, StudyIInv
<1>2. PICK forming \in SUBSET (market \cap {now}) :
          series' = Append(series, Recent(market, forming))
  BY DEF ReadSeries, TradedAs
<1>3. /\ Len(series) \in Nat /\ Len(study.required) \in Nat /\ n <= Len(study.required)
      /\ series \in Seq(SUBSET Bar)
  BY <1>1, StudiesAreReadable DEF StudyIInv
<1>4. study.required[n] \in RequiredSymbols
  BY <1>3, StudiesAreReadable DEF StudyIInv, RequiredSymbols, Range
<1>5. market \in SUBSET Int
  BY <1>1, <1>4, MarketIsNumeric
<1> DEFINE bars == Recent(market, forming)
<1>6. ReadFrom(bars, market)
  <2> HIDE DEF market
  <2>1. QED
    BY <1>5, RecentIsReadFrom DEF StudyIInv
<1>7. bars \in SUBSET Bar
  BY <1>6 DEF ReadFrom
<1> HIDE DEF bars
<1>8. /\ series' \in Seq(SUBSET Bar) /\ Len(series') = n /\ DOMAIN series' = 1 .. n
      /\ \A k \in 1 .. n : series'[k] = IF k = n THEN bars ELSE series[k]
  BY <1>2, <1>3, <1>7 DEF bars
<1>9. \A k \in 1 .. n : ReadFrom(series'[k], TradedAs(study.required[k]))
  <2> TAKE k \in 1 .. n
  <2>1. CASE k = n
    BY <1>6, <1>8, <2>1
  <2>2. CASE k # n
    <3>1. k \in DOMAIN series
      BY <1>3, <2>2
    <3>2. ReadFrom(series[k], TradedAs(study.required[k]))
      BY <1>1, <3>1 DEF StudyIInv
    <3>3. QED
      BY <1>8, <2>2, <3>2
  <2>3. QED
    BY <2>1, <2>2
<1>10. \A k \in DOMAIN series' : ReadFrom(series[k], TradedAs(study.required[k]))'
  BY <1>1, <1>8, <1>9 DEF ReadFrom, TradedAs
<1>11. IsNamed'
  BY <1>1 DEF IsNamed, Resolved, RequiredSymbols
<1>12. QED
  BY <1>1, <1>3, <1>8, <1>10, <1>11 DEF StudyIInv

\* The rows are those of the alignment.
LEMMA AlignIInv == StudyIInv /\ AlignSeries => StudyIInv'
<1> SUFFICES ASSUME StudyIInv, AlignSeries PROVE StudyIInv'
  OBVIOUS
<1>1. CASE StudyFails("ValueError") \/ StudyFails("InsufficientDataError")
  BY <1>1, FailsIInv
<1>2. CASE ~(StudyFails("ValueError") \/ StudyFails("InsufficientDataError"))
  <2>1. /\ step = "align" /\ rows' = AlignedRows /\ step' = "done"
        /\ UNCHANGED <<study, terminal, now, opened, names, series>>
    BY <1>2 DEF AlignSeries
  <2>2. AlignedRows' = AlignedRows
    BY <2>1 DEF AlignedRows, SeriesOf, RequiredSymbols
  <2>3. IsNamed' /\ IsNamed
    BY <2>1 DEF StudyIInv, IsNamed, Resolved, RequiredSymbols
  <2>4. \A k \in DOMAIN series' : ReadFrom(series[k], TradedAs(study.required[k]))'
    BY <2>1 DEF StudyIInv, ReadFrom, TradedAs
  <2>5. QED
    BY <2>1, <2>2, <2>3, <2>4 DEF StudyIInv
<1>3. QED
  BY <1>1, <1>2

\* Every step keeps the names resolved and the series reads of their markets.
LEMMA StudyStepIInv == StudyIInv /\ [StudyNext]_studyVars => StudyIInv'
<1> SUFFICES ASSUME StudyIInv, [StudyNext]_studyVars PROVE StudyIInv'
  OBVIOUS
<1>1. CASE Tick
  BY <1>1, TickIInv
<1>2. CASE TerminalFails
  <2>1. PICK exception \in {"MT5ConnectionError", "DemoSafetyError"} : StudyFails(exception)
    BY <1>2 DEF TerminalFails
  <2>2. QED
    BY <2>1, FailsIInv
<1>3. CASE OpenTerminal
  BY <1>3, OpenIInv
<1>4. CASE ReadSeries
  BY <1>4, ReadIInv
<1>5. CASE AlignSeries
  BY <1>5, AlignIInv
<1>6. CASE UNCHANGED studyVars
  <2>1. UNCHANGED <<study, terminal, now, step, opened, names, series, rows>>
    BY <1>6 DEF studyVars
  <2>2. (IsNamed' <=> IsNamed) /\ AlignedRows' = AlignedRows
    BY <2>1 DEF IsNamed, Resolved, RequiredSymbols, AlignedRows, SeriesOf
  <2>3. \A k \in DOMAIN series :
            ReadFrom(series[k], TradedAs(study.required[k]))'
              <=> ReadFrom(series[k], TradedAs(study.required[k]))
    BY <2>1 DEF ReadFrom, TradedAs
  <2>4. QED
    BY <2>1, <2>2, <2>3 DEF StudyIInv
<1>7. QED
  BY <1>1, <1>2, <1>3, <1>4, <1>5, <1>6 DEF StudyNext

-----------------------------------------------------------------------------
(* Rows                                                                    *)

\* Each required symbol has a series, read from its market.
LEMMA SeriesIsReadFrom ==
    ASSUME StudyIInv, step = "done", NEW s \in RequiredSymbols
    PROVE  ReadFrom(SeriesOf(s), TradedAs(s)) /\ TradedAs(s) \in SUBSET Int
<1> DEFINE k == CHOOSE k \in DOMAIN study.required : study.required[k] = s
<1>1. k \in DOMAIN study.required /\ study.required[k] = s
  BY DEF RequiredSymbols, Range
<1>2. DOMAIN study.required = DOMAIN series
  <2>1. DOMAIN study.required = 1 .. Len(study.required)
    BY StudiesAreReadable DEF StudyIInv
  <2>2. DOMAIN series = 1 .. Len(series) /\ Len(series) = Len(study.required)
    BY DEF StudyIInv
  <2>3. QED
    BY <2>1, <2>2
<1>3. SeriesOf(s) = series[k]
  BY DEF SeriesOf
<1> HIDE DEF k
<1>4. QED
  BY <1>1, <1>2, <1>3, MarketIsNumeric DEF StudyIInv

\* The latest bar of a window that has one.
LEMMA LatestOfWindow ==
    ASSUME NEW bars \in SUBSET Bar, NEW t \in Int, AsofMatches(bars, t) # {}
    PROVE  /\ Latest(AsofMatches(bars, t)) \in bars
           /\ Latest(AsofMatches(bars, t)).at \in (t - MaxDelay) .. t
           /\ \A bar \in bars :
                 bar.at \in (t - MaxDelay) .. t => bar.at <= Latest(AsofMatches(bars, t)).at
<1> DEFINE matches == AsofMatches(bars, t)
           times == {bar.at : bar \in matches}
<1>1. /\ matches \subseteq bars
      /\ \A bar \in bars : bar \in matches <=> bar.at \in (t - MaxDelay) .. t
  BY DEF AsofMatches
<1> HIDE DEF matches
<1>2. times \subseteq (t - MaxDelay) .. t /\ times # {}
  BY <1>1 DEF matches
<1>3. MaxDelay \in Int /\ t - MaxDelay \in Int
  BY BarsAreCounted
<1>4. IsFiniteSet(times) /\ times \in SUBSET Int
  <2> HIDE DEF times
  <2>1. IsFiniteSet((t - MaxDelay) .. t)
    BY <1>3, FS_Interval
  <2>2. IsFiniteSet(times)
    BY <1>2, <2>1, FS_Subset
  <2>3. QED
    BY <1>2, <2>2
<1>5. PICK m \in times : \A x \in times : x <= m
  <2> HIDE DEF times
  <2>1. QED
    BY <1>2, <1>4, LeastAndGreatest
<1>6. \E bar \in matches : \A other \in matches : other.at <= bar.at
  BY <1>5
<1>7. /\ Latest(matches) \in matches
      /\ \A other \in matches : other.at <= Latest(matches).at
  BY <1>6 DEF Latest
<1>8. QED
  BY <1>1, <1>7 DEF matches

\* The greatest of a set of numbers is determined by what it is.
LEMMA MaxIsUnique ==
    ASSUME NEW S \in SUBSET Int, NEW m \in S, \A x \in S : x <= m
    PROVE  Max(S) = m
<1>1. Max(S) \in S /\ \A y \in S : Max(S) >= y
  <2>1. \A y \in S : m >= y
    OBVIOUS
  <2>2. QED
    BY <2>1 DEF Max
<1>2. Max(S) >= m /\ Max(S) <= m /\ Max(S) \in Int
  BY <1>1
<1>3. QED
  BY <1>2

\* A settled row holds the bars of the market.
LEMMA SettledRow ==
    ASSUME StudyIInv, step = "done", NEW row \in rows, NEW s \in RequiredSymbols,
           row[study.target].at < opened
    PROVE  row[s] = [at |-> Max({u \in TradedAs(s) : u <= row[study.target].at}), final |-> TRUE]
<1> DEFINE t == row[study.target].at
           market == {u \in TradedAs(s) : u <= t}
<1>1. rows = AlignedRows
  BY DEF StudyIInv
<1>2. study.target \in RequiredSymbols
  BY StudiesAreReadable DEF StudyIInv, RequiredSymbols
<1>3. PICK bar \in SeriesOf(study.target) :
          /\ \A z \in RequiredSymbols \ {study.target} : AsofMatches(SeriesOf(z), bar.at) # {}
          /\ row = [z \in RequiredSymbols |->
                      IF z = study.target THEN bar ELSE Latest(AsofMatches(SeriesOf(z), bar.at))]
  BY <1>1 DEF AlignedRows
<1>4. row[study.target] = bar /\ t = bar.at
  BY <1>2, <1>3
<1>5. ReadFrom(SeriesOf(study.target), TradedAs(study.target))
  BY <1>2, SeriesIsReadFrom
<1>6. bar \in Bar /\ t \in Int /\ t \in TradedAs(study.target) /\ bar.final = TRUE
  BY <1>4, <1>5 DEF ReadFrom, Bar
<1>7. ReadFrom(SeriesOf(s), TradedAs(s)) /\ TradedAs(s) \in SUBSET Int
  BY SeriesIsReadFrom
<1>8. opened \in Int /\ t < opened
  BY DEF StudyIInv
<1>9. ASSUME NEW m \in SeriesOf(s), row[s] = m, m.at <= t,
             \A u \in TradedAs(s) : u <= t => u <= m.at
      PROVE  row[s] = [at |-> Max(market), final |-> TRUE]
  <2>1. m \in Bar /\ m.at \in TradedAs(s) /\ m.at \in Int
    BY <1>7, <1>9 DEF ReadFrom, Bar
  <2>2. m.at < opened
    BY <1>6, <1>8, <1>9, <2>1
  <2>3. m.final = TRUE
    BY <1>7, <1>9, <2>2 DEF ReadFrom
  <2>4. market \in SUBSET Int /\ m.at \in market /\ \A x \in market : x <= m.at
    BY <1>7, <1>9, <2>1
  <2>5. Max(market) = m.at
    <3> HIDE DEF market
    <3>1. QED
      BY <2>4, MaxIsUnique
  <2> HIDE DEF market
  <2>6. m = [at |-> m.at, final |-> m.final]
    BY <2>1 DEF Bar
  <2>7. QED
    BY <1>9, <2>3, <2>5, <2>6
<1>10. CASE s = study.target
  <2>1. row[s] = bar /\ bar \in SeriesOf(s) /\ bar.at <= t
    BY <1>4, <1>6, <1>10
  <2>2. \A u \in TradedAs(s) : u <= t => u <= bar.at
    BY <1>4
  <2>3. QED
    BY <1>9, <2>1, <2>2
<1>11. CASE s # study.target
  <2> DEFINE m == Latest(AsofMatches(SeriesOf(s), bar.at))
  <2>1. row[s] = m /\ AsofMatches(SeriesOf(s), t) # {} /\ m = Latest(AsofMatches(SeriesOf(s), t))
    BY <1>3, <1>4, <1>11
  <2>2. SeriesOf(s) \in SUBSET Bar
    BY <1>7 DEF ReadFrom
  <2> HIDE DEF m, t
  <2>3. /\ m \in SeriesOf(s) /\ m.at \in (t - MaxDelay) .. t
        /\ \A other \in SeriesOf(s) : other.at \in (t - MaxDelay) .. t => other.at <= m.at
    BY <1>6, <2>1, <2>2, LatestOfWindow
  <2>4. m.at \in Int /\ m.at <= t /\ t - MaxDelay <= m.at /\ t - MaxDelay \in Int
    BY <1>6, <2>2, <2>3, BarsAreCounted DEF Bar
  <2>5. ASSUME NEW u \in TradedAs(s), u <= t PROVE u <= m.at
    <3>1. CASE u <= m.at
      BY <3>1
    <3>2. CASE ~(u <= m.at)
      <4>1. u \in Int /\ m.at <= u /\ u < opened
        BY <1>6, <1>7, <1>8, <2>4, <2>5, <3>2
      <4>2. PICK other \in SeriesOf(s) : other.at = u
        BY <1>7, <2>3, <4>1 DEF ReadFrom
      <4>3. other.at \in (t - MaxDelay) .. t
        BY <1>6, <2>4, <2>5, <4>1, <4>2
      <4>4. QED
        BY <2>3, <4>2, <4>3
    <3>3. QED
      BY <3>1, <3>2
  <2>6. QED
    BY <1>9, <2>1, <2>3, <2>4, <2>5 DEF t
<1>12. QED
  BY <1>10, <1>11

\* And none is missing where the limit reaches back.
LEMMA SettledRowExists ==
    ASSUME StudyIInv, step = "done", NEW t \in TradedAs(study.target),
           t < opened, t > LastBar - Limit,
           \A s \in RequiredSymbols :
               \E u \in TradedAs(s) : u \in (t - MaxDelay) .. t /\ u > LastBar - Limit
    PROVE  \E row \in rows : row[study.target].at = t
<1>1. study.target \in RequiredSymbols
  BY StudiesAreReadable DEF StudyIInv, RequiredSymbols
<1>2. PICK bar \in SeriesOf(study.target) : bar.at = t
  BY <1>1, SeriesIsReadFrom DEF ReadFrom
<1>3. t \in Int /\ opened \in Int
  BY <1>1, SeriesIsReadFrom DEF StudyIInv
<1>4. ASSUME NEW s \in RequiredSymbols PROVE AsofMatches(SeriesOf(s), bar.at) # {}
  <2>1. PICK u \in TradedAs(s) : u \in (t - MaxDelay) .. t /\ u > LastBar - Limit
    BY <1>4
  <2>2. ReadFrom(SeriesOf(s), TradedAs(s)) /\ TradedAs(s) \in SUBSET Int
    BY <1>4, SeriesIsReadFrom
  <2>3. u \in Int /\ u <= t /\ u < opened
    BY <1>3, <2>1, <2>2
  <2>4. PICK other \in SeriesOf(s) : other.at = u
    BY <2>1, <2>2, <2>3 DEF ReadFrom
  <2>5. QED
    BY <1>2, <2>1, <2>4 DEF AsofMatches
<1> DEFINE row == [s \in RequiredSymbols |->
                     IF s = study.target THEN bar ELSE Latest(AsofMatches(SeriesOf(s), bar.at))]
<1>5. row \in AlignedRows
  BY <1>4 DEF AlignedRows
<1>6. row[study.target] = bar
  BY <1>1
<1>7. QED
  BY <1>2, <1>5, <1>6 DEF StudyIInv

-----------------------------------------------------------------------------

\* A study's names are resolved once and its series are reads of their markets.
THEOREM StudyInvariant == StudySpec => []StudyIInv
<1>1. StudyInit => StudyIInv
  BY StudyInitIInv
<1>2. StudyIInv /\ [StudyNext]_studyVars => StudyIInv'
  BY StudyStepIInv
<1>3. QED
  BY <1>1, <1>2, PTL DEF StudySpec

\* A row on a bar that was closed when the session was opened is the market's
\* own, and no such row is missing, whenever the reads were made.
THEOREM Repeatable == StudySpec => []SettledRowsAreRepeatable
<1>1. StudyIInv => SettledRowsAreRepeatable
  BY SettledRow, SettledRowExists DEF SettledRowsAreRepeatable
<1>2. QED
  BY <1>1, StudyInvariant, PTL

\* Two symbols are read as one series only where one of them was configured to
\* it, or is not published and has an alias in the other's name.
THEOREM CollisionsAreByFallback == StudySpec => []SharedSeriesAreByFallback
<1>1. StudyIInv => SharedSeriesAreByFallback
  <2> SUFFICES ASSUME StudyIInv, NEW a \in DOMAIN names, NEW b \in DOMAIN names,
                      a # b, names[a] = names[b]
               PROVE  \E s \in {a, b} : ByFallback(s)
    BY DEF SharedSeriesAreByFallback
  <2>1. a \in RequiredSymbols /\ b \in RequiredSymbols
    <3>1. names # <<>>
      OBVIOUS
    <3>2. QED
      BY <3>1 DEF StudyIInv, IsNamed, Resolved
  <2>2. Len(terminal.available) \in Nat
        /\ DOMAIN terminal.available = 1 .. Len(terminal.available)
    BY TerminalsAreListed DEF StudyIInv
  <2>3. ASSUME NEW s \in {a, b}
        PROVE  ByFallback(s) \/ NormalOf[names[s]] = NormalOf[s]
    <3>1. /\ names[s] = Resolve(s, terminal.available, study.configured)
          /\ names[s] # NotFound
      BY <2>1 DEF StudyIInv, IsNamed, Resolved, Range
    <3>2. Len(AliasesOf[s]) \in Nat /\ DOMAIN AliasesOf[s] = 1 .. Len(AliasesOf[s])
      BY <2>1, StudiesAreReadable DEF StudyIInv, RequiredSymbols
    <3>3. QED
      BY <2>2, <3>1, <3>2, ResolvedIsListed DEF ByFallback
  <2>4. NormalOf[a] # NormalOf[b]
    BY <2>1, StudiesAreReadable DEF StudyIInv, RequiredSymbols
  <2>5. QED
    BY <2>3, <2>4
<1>2. QED
  BY <1>1, StudyInvariant, PTL

=============================================================================
