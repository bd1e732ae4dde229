------------------------------ MODULE TradeGate ------------------------------
(***************************************************************************)
(* What stands between an aligned price difference of two brokers and the  *)
(* word "crossable": `compare-brokers` (cli.py) and                        *)
(* CrossBrokerExperimentService.run (application/comparison.py) settle the *)
(* latency and the contracts, CrossBrokerComparisonEngine._tick_summary    *)
(* (market_data/cross_broker.py) asks the contracts, the execution model   *)
(* and the latency model in turn, and the verdict is swept over the        *)
(* assumed latency.                                                        *)
(*                                                                         *)
(* CrossBrokerComparison models how the rows come about and leaves the     *)
(* gates open or shut at will; here the rows are given and the gates are   *)
(* what the code makes them.                                               *)
(***************************************************************************)
EXTENDS Execution, Sensitivity, Measurement

CONSTANTS
    Requests,
    DefaultGrid,      \* DEFAULT_LATENCY_GRID_MS
    ConfiguredLatency \* COSTS__LATENCY_ASSUMPTION_MS

IsNumeric(c) ==
    /\ c.size \in Int /\ c.min \in Int /\ c.max \in Int /\ c.step \in Int
    /\ c.tickSize \in Int /\ c.tickValue \in Int /\ c.margin \in Int

\* A file is a list of specifications or holds a single one.
ASSUME FilesAreNumeric ==
    \A r \in Requests : \A file \in {r.fileA, r.fileB} \ {Unset} :
        /\ file.list \/ 1 \in DOMAIN file.entries
        /\ \A k \in DOMAIN file.entries : IsNumeric(file.entries[k])

\* There are rows to judge, each later than the one before, and prices are
\* positive.
ASSUME RowsArePriced ==
    \A r \in Requests :
        /\ Len(r.rows) \in Nat \ {0} /\ DOMAIN r.rows = 1 .. Len(r.rows)
        /\ \A k \in DOMAIN r.rows : r.rows[k].at \in Int
        /\ \A k, l \in DOMAIN r.rows : k < l => r.rows[k].at < r.rows[l].at
        /\ \A k \in DOMAIN r.rows :
              /\ {r.rows[k].a.bid, r.rows[k].a.ask} \subseteq Nat \ {0}
              /\ {r.rows[k].b.bid, r.rows[k].b.ask} \subseteq Nat \ {0}

ASSUME SizesAreNumeric ==
    \A r \in Requests :
        /\ r.cost \in Int /\ r.volume \in Int /\ r.leverage \in Int \cup {Unset}
        /\ r.minimumFill.num \in Int /\ r.minimumFill.den \in Int
        /\ r.allowance \in Int /\ r.minimum.num \in Int /\ r.minimum.den \in Int

\* The round trips of a log are numbers, and a statistic is one that is known.
ASSUME LatenciesAreNumeric ==
    /\ ConfiguredLatency \in Int
    /\ \A r \in Requests :
          /\ r.latency \in Int \cup {Unset}
          /\ r.log # Unset =>
                /\ Len(r.log) \in Nat /\ DOMAIN r.log = 1 .. Len(r.log)
                /\ \A k \in DOMAIN r.log : r.log[k].roundTrip \in Int
                /\ r.query.statistic \in {"mean", "median", "p95", "maximum", "minimum"}

\* A grid is a finite set of numbers; a capture that was saved has a length and
\* an edge, and may lack the offset of its peak.
ASSUME SweepsAreNumeric ==
    /\ IsFiniteSet(DefaultGrid) /\ DefaultGrid \subseteq Int
    /\ \A r \in Requests :
          /\ \A grid \in {r.grid, r.allowances} : IsFiniteSet(grid) /\ grid \subseteq Int
          /\ Len(r.saved) \in Nat /\ DOMAIN r.saved = 1 .. Len(r.saved)
          /\ \A k \in DOMAIN r.saved :
                /\ r.saved[k].start \in Int /\ r.saved[k].end \in Int /\ r.saved[k].peak \in Int

\* The unit of volume is fine enough for the matching volume to be exact.
ASSUME VolumesDivide ==
    \A r \in Requests : Unset \notin {r.fileA, r.fileB} =>
        \A k \in DOMAIN r.fileA.entries, l \in DOMAIN r.fileB.entries :
            LET a == r.fileA.entries[k] b == r.fileB.entries[l]
            IN  b.size > 0 => (r.volume * a.size) % b.size = 0

VARIABLES
    request,
    pc,          \* the next stage, "done", or the exception that ended the call
    order,       \* the RoundTripAssumption
    contracts,   \* the specifications of A and B
    rows,        \* the aligned observations
    status,      \* ContractCompatibilityReport.status
    legsAgree,   \* whether both legs value every row alike; Unset when not asked
    blocked,     \* contract_blocked_observations
    execution,
    episodes,
    latency,     \* the capture report; Unset when there is no episode
    summary,
    sensitivity  \* the sweep; Unset when there is nothing to sweep

vars == <<request, pc, order, contracts, rows, status, legsAgree, blocked,
          execution, episodes, latency, summary, sensitivity>>

Init ==
    /\ request \in Requests
    /\ pc = "baseline"
    /\ order = Unset /\ contracts = <<Unset, Unset>>
    /\ rows = request.rows
    /\ status = Unset /\ legsAgree = Unset /\ blocked = 0
    /\ execution = Unset /\ episodes = <<>> /\ latency = Unset
    /\ summary = Unset /\ sensitivity = Unset

judged   == <<status, legsAgree, blocked>>
reported == <<latency, summary, sensitivity>>

Raise(exception) ==
    /\ pc' = exception
    /\ UNCHANGED <<request, order, contracts, rows, judged, execution, episodes, reported>>

-----------------------------------------------------------------------------
(* _compare_brokers and CrossBrokerExperimentService.run                   *)

BothBaselines == request.log # Unset /\ request.latency # Unset

\* A log that cannot be used, or one beside an assumed latency, is refused.
BaselineRefused ==
    /\ pc = "baseline"
    /\ \/ request.log # Unset /\ LogRefused(request.log, request.query) /\ Raise("DataQualityError")
       \/ /\ BothBaselines /\ ~LogRefused(request.log, request.query)
          /\ Raise("ValueError")

\* The measured latency, the one asked for or the configured one.
Baseline ==
    /\ pc = "baseline"
    /\ ~BothBaselines
    /\ request.log # Unset => ~LogRefused(request.log, request.query)
    /\ order' = [latency |-> IF request.log # Unset THEN PerLeg(request.log, request.query, Legs)
                             ELSE IF request.latency # Unset THEN request.latency
                             ELSE ConfiguredLatency,
                 allowance |-> request.allowance,
                 minimum |-> request.minimum]
    /\ pc' = "contracts"
    /\ UNCHANGED <<request, contracts, rows, judged, execution, episodes, reported>>

\* _select_from_list: a list names the entry by its symbol; a single object is
\* taken whatever it describes.
Candidates(file, symbol) ==
    IF file.list THEN {k \in DOMAIN file.entries : file.entries[k].symbol = symbol}
    ELSE {1}

Ambiguous(file, symbol) == file # Unset /\ Cardinality(Candidates(file, symbol)) # 1

Contract(file, symbol) ==
    IF file = Unset THEN Unset
    ELSE file.entries[CHOOSE k \in Candidates(file, symbol) : TRUE]

IsNoFraction(q) == q.num \notin 0 .. q.den

RequestRefused(a, b) ==
    \/ (a = Unset) # (b = Unset)
    \/ request.cost < 0 \/ request.volume <= 0
    \/ request.leverage # Unset /\ request.leverage <= 0
    \/ order.latency <= 0 \/ order.allowance < 0
    \/ IsNoFraction(request.minimumFill) \/ IsNoFraction(order.minimum)

LoadContracts ==
    /\ pc = "contracts"
    /\ LET a == Contract(request.fileA, request.symbolA)
           b == Contract(request.fileB, request.symbolB)
       IN  IF \/ Ambiguous(request.fileA, request.symbolA)
              \/ Ambiguous(request.fileB, request.symbolB)
              \/ \E c \in {a, b} \ {Unset} : Malformed(c)
              \/ RequestRefused(a, b)
           THEN Raise("ValueError")
           ELSE /\ contracts' = <<a, b>>
                /\ pc' = "price"
                /\ UNCHANGED <<request, order, rows, judged, execution, episodes, reported>>

-----------------------------------------------------------------------------
(* _tick_summary                                                           *)

NetA(row) == row.b.bid - row.a.ask - request.cost
NetB(row) == row.a.bid - row.b.ask - request.cost

\* Both directions are priced and the better one is kept.
Price ==
    /\ pc = "price"
    /\ rows' = [k \in DOMAIN rows |->
                  [at |-> rows[k].at, a |-> rows[k].a, b |-> rows[k].b,
                   net |-> Larger(NetA(rows[k]), NetB(rows[k])),
                   direction |-> IF NetA(rows[k]) >= NetB(rows[k])
                                 THEN "buy_a_sell_b" ELSE "buy_b_sell_a",
                   crossable |-> FALSE]]
    /\ pc' = "compare"
    /\ UNCHANGED <<request, order, contracts, judged, execution, episodes, reported>>

Positive == {k \in DOMAIN rows : rows[k].net > 0}

Gated(open) ==
    rows' = [k \in DOMAIN rows |-> [rows[k] EXCEPT !.crossable = open /\ rows[k].net > 0]]

\* The contracts decide whether the prices may be compared at all, and if they
\* may, what each leg makes of every difference.
CompareContracts ==
    /\ pc = "compare"
    /\ LET a == contracts[1] b == contracts[2] verdict == Compatibility(a, b)
       IN  /\ status' = verdict
           /\ legsAgree' = IF Normalizes(verdict)
                           THEN \A k \in DOMAIN rows : LegsAgree(rows[k].net, a, b)
                           ELSE Unset
           /\ blocked' = IF Blocks(verdict) THEN Cardinality(Positive) ELSE 0
           /\ Gated(~Blocks(verdict))
    /\ pc' = "execute"
    /\ UNCHANGED <<request, order, contracts, execution, episodes, reported>>

\* The row with the widest gross edge, the first of several.
Widest ==
    CHOOSE k \in DOMAIN rows :
        /\ \A l \in DOMAIN rows : rows[l].net <= rows[k].net
        /\ \A l \in 1 .. (k - 1) : rows[l].net < rows[k].net

Mid(quote) == (quote.bid + quote.ask) \div 2

MatchingVolume ==
    IF Unset \in {contracts[1], contracts[2]} THEN request.volume
    ELSE VolumeB(request.volume, contracts[1], contracts[2])

\* A size one of the brokers cannot fill closes what the contracts left open.
AssessExecution ==
    /\ pc = "execute"
    /\ execution' = Assessment(contracts[1], contracts[2], request.volume, MatchingVolume,
                               <<Mid(rows[Widest].a), Mid(rows[Widest].b)>>,
                               request.leverage, request.minimumFill)
    /\ Gated(~Blocks(status) /\ execution'.executable)
    /\ pc' = "group"
    /\ UNCHANGED <<request, order, contracts, judged, episodes, reported>>

Group ==
    /\ pc = "group"
    /\ episodes' = EpisodesOf(rows, ResolvedGap2(rows, Cadence, request.tolerance))
    /\ pc' = "capture"
    /\ UNCHANGED <<request, order, contracts, rows, judged, execution, reported>>

Capture ==
    /\ pc = "capture"
    /\ latency' = IF episodes = <<>> THEN Unset
                  ELSE [captures |-> episodes, survives |-> Survives(episodes, order)]
    /\ pc' = "classify"
    /\ UNCHANGED <<request, order, contracts, rows, judged, execution, episodes,
                   summary, sensitivity>>

Verdict ==
    IF Blocks(status) THEN "blocked_by_contract_specification"
    ELSE IF ~execution.executable THEN "blocked_by_execution_feasibility"
    ELSE IF status = "unverified" THEN "crossable_research_contract_unverified"
    ELSE IF status = "normalization_required" THEN "crossable_after_cost_pnl_normalized_research"
    ELSE "crossable_after_cost_contract_validated_research"

Open == ~Blocks(status) /\ execution.executable

\* What is added to the verdict, in the order of the code.
Caveats ==
    (IF Open /\ ~execution.capitalVerified THEN {"capital_unverified"} ELSE {})
    \cup (IF latency # Unset /\ ~latency.survives
          THEN {"not_capturable_within_latency"} ELSE {})
    \cup (IF legsAgree = FALSE THEN {"contract_legs_disagree"} ELSE {})

NetsOf(ks) == {rows[k].net : k \in ks}

CrossableAt == {k \in DOMAIN rows : rows[k].crossable}

\* Mutant of Population: the best edge of every row the contracts let through.
PopulationOfAligned == IF Blocks(status) THEN {} ELSE DOMAIN rows

\* The rows the summary's maxima describe.
Population == CrossableAt

Classify ==
    /\ pc = "classify"
    /\ summary' = [verdict |-> Verdict,
                   caveats |-> Caveats,
                   crossable |-> Cardinality(CrossableAt),
                   maximum |-> IF Population = {} THEN Unset ELSE Highest(NetsOf(Population)),
                   opportunities |-> Len(episodes)]
    /\ pc' = "sweep"
    /\ UNCHANGED <<request, order, contracts, rows, judged, execution, episodes,
                   latency, sensitivity>>

-----------------------------------------------------------------------------
(* _latency_sensitivity, and a sweep of a report that was saved earlier    *)

Grid == IF request.grid = {} THEN DefaultGrid ELSE request.grid

\* A grid that cannot be swept ends the call before anything is reported.
SweepLatency ==
    /\ pc = "sweep"
    /\ LET measured == IF latency = Unset THEN <<>> ELSE EpisodesFromReport(latency.captures)
       IN  IF measured # <<>> /\ GridRefused("latency", Grid) THEN Raise("ValueError")
           ELSE /\ sensitivity' = IF measured = <<>> THEN Unset
                                  ELSE Sweep(measured, order, "latency", Grid)
                /\ pc' = "done"
                /\ UNCHANGED <<request, order, contracts, rows, judged, execution, episodes,
                               latency, summary>>

\* A caller of the library sweeps the allowance over captures that were saved,
\* by this version or by one that did not record where the peak was.
SweepSaved ==
    /\ pc = "done" /\ request.allowances # {}
    /\ LET saved == EpisodesFromReport(request.saved)
       IN  IF saved = <<>> THEN Raise("InsufficientDataError")
           ELSE IF GridRefused("allowance", request.allowances) THEN Raise("ValueError")
           ELSE /\ sensitivity' = Sweep(saved, order, "allowance", request.allowances)
                /\ episodes' = saved
                /\ pc' = "swept"
                /\ UNCHANGED <<request, order, contracts, rows, judged, execution,
                               latency, summary>>

Next ==
    \/ Baseline \/ BaselineRefused \/ LoadContracts
    \/ Price \/ CompareContracts \/ AssessExecution
    \/ Group \/ Capture \/ Classify
    \/ SweepLatency \/ SweepSaved

Spec == Init /\ [][Next]_vars

-----------------------------------------------------------------------------
(* Properties                                                              *)

\* A comparison the contracts let through is one whose two legs value it alike:
\* the check on contract size and tick value (contract.py:249-256) and the one
\* on the legs, with another tolerance and of other quantities, never disagree,
\* and neither depends on which broker is called A.
ComparableLegsAgree ==
    status # Unset =>
        /\ Normalizes(status) => legsAgree
        /\ Compatibility(contracts[2], contracts[1]) = status

\* The underlying units each leg would hold under an assessment.
Held(e, leg) ==
    IF leg = 1 THEN e.fillA.filled * contracts[1].size
    ELSE e.fillB.filled * contracts[2].size

\* Neither leg holds less than the required fraction, nor as little as half, of
\* what the other holds.
LegsAreFilled(e) ==
    \A i, j \in {1, 2} :
        /\ Held(e, i) * request.minimumFill.den >= request.minimumFill.num * Held(e, j)
        /\ 2 * Held(e, i) > Held(e, j)

\* A capped leg "is not a scaled-down version of the researched pair but a net
\* directional position, so it cannot be reported as executable"
\* (execution.py:517-520): of an executable pair neither leg holds less than the
\* required fraction, nor as little as half (execution.py:457-460), of what the
\* other holds.  And a verdict without the caveat rests on capital that is known
\* and not free.
ExecutableIsFilledAndFunded ==
    summary # Unset /\ Open =>
        /\ Unset \notin {contracts[1], contracts[2]} => LegsAreFilled(execution)
        /\ "capital_unverified" \notin summary.caveats =>
              execution.total # Unset /\ execution.total > 0

\* The summary's figures describe one population (cross_broker.py:514-523): the
\* crossable rows are the rows of the episodes, there is a best crossable edge
\* exactly if there is a crossable row, it is the peak of some episode, and a
\* gate that shuts leaves neither an opportunity nor anything to sweep.
SummaryIsOfOnePopulation ==
    summary # Unset /\ pc # "swept" =>
        LET observed == FoldSeq(LAMBDA e, sum : e.observations + sum, 0, episodes)
            peaks == {episodes[e].peak : e \in DOMAIN episodes}
        IN  /\ summary.crossable = observed
            /\ summary.opportunities = Len(episodes)
            /\ summary.maximum = IF peaks = {} THEN Unset ELSE Highest(peaks)
            /\ (~Open \/ Positive = {}) => summary.crossable = 0 /\ sensitivity = Unset
            /\ blocked > 0 => summary.crossable = 0

\* What the sweep of `axis` left failing.
FailingOn(axis) ==
    (IF axis = "latency" THEN Grid ELSE request.allowances) \ sensitivity.surviving

\* Wherever the sweep passes through the configured value it says what the
\* assessment said; without an allowance a slower round trip never adds a
\* capturable episode (sensitivity.py:400-402); a larger allowance never does.
\* A latency label then means what the documentation says
\* (docs/research/EXECUTION_MODEL.md:440-446): a stable verdict holds at a value
\* beyond the configured one, a sensitive verdict at none.
SweepTellsTheDistance ==
    sensitivity # Unset =>
        LET axis == sensitivity.axis
            kept == sensitivity.surviving
            lost == FailingOn(axis)
        IN  /\ axis = "latency" /\ order.latency \in Grid =>
                  (sensitivity.baselineSurvives <=> latency.survives)
            /\ axis = "allowance" \/ order.allowance = 0 =>
                  \A u \in kept, v \in lost : u < v
            /\ sensitivity.fragility \in {"stable", "sensitive", "knife_edge", "always_holds"} =>
                  sensitivity.baselineSurvives
            /\ axis = "latency" /\ sensitivity.fragility \in {"stable", "sensitive"} =>
                  (sensitivity.fragility = "stable" <=> \E v \in kept : v > order.latency)

\* "Each grid point is one call into the existing LatencyCaptureModel, so a sweep
\* and a single assessment cannot disagree" (sensitivity.py:175-177): of a
\* latency measured from a log and swept on the default grid, the sweep says
\* what the assessment says.
SweepAgreesWithTheAssessment ==
    /\ sensitivity # Unset /\ sensitivity.axis = "latency"
    /\ request.log # Unset /\ request.grid = {}
    => (sensitivity.baselineSurvives <=> latency.survives)

=============================================================================
