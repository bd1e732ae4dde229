-------------------------- MODULE CandidateEvaluation --------------------------
(***************************************************************************)
(* Which candidate relationships are kept (discovery/deduplicate.py), the  *)
(* evaluation of one (discovery/evaluator.py), the gates of its statistics *)
(* (statistics/analyzer.py), and the rows the ranking model is given       *)
(* (discovery/ranker.py).                                                  *)
(***************************************************************************)
EXTENDS PanelCoverage, RelationshipGraph

CONSTANTS
    ZWindow,          \* rows of the rolling z-score (20 in the code)
    ExpandingRows,    \* MINIMUM_EXPANDING_OBSERVATIONS (10)
    StationarityRows  \* rows a cointegration test needs (30)

ASSUME WindowsHold ==
    /\ ZWindow \in Nat \ {0, 1} /\ ExpandingRows \in Nat \ {0} /\ StationarityRows \in Nat \ {0}

-----------------------------------------------------------------------------
(* CandidateDeduplicator                                                   *)

\* One turn of the loop of deduplicate: the first of the candidates that
\* assert a hypothesis is kept, the others are named with it.
Deduplicate(report, candidate) ==
    IF Refused(candidate.formula)
    THEN [report EXCEPT !.unparsable = Append(@, candidate.name)]
    ELSE IF \E c \in Range(report.kept) : SameHypothesis(c, candidate)
    THEN [report EXCEPT !.duplicates =
             Append(@, <<CHOOSE c \in Range(report.kept) : SameHypothesis(c, candidate), candidate>>)]
    ELSE [report EXCEPT !.kept = Append(@, candidate)]

Deduplication(candidates) ==
    LET report[k \in 0 .. Len(candidates)] ==
            IF k = 0 THEN [kept |-> <<>>, duplicates |-> <<>>, unparsable |-> <<>>]
            ELSE Deduplicate(report[k - 1], candidates[k])
    IN  report[Len(candidates)]

-----------------------------------------------------------------------------
(* A candidate's history and what can be computed of it                    *)

Required(candidate) == {candidate.target} \cup Dependencies(candidate)

\* The rows on which the formula has a value, with both sides of the relation.
History(panel, candidate) ==
    LET Side(t) == ValueOf(candidate.formula, panel[t])
        valid   == Ascending({t \in DOMAIN panel : Side(t) # None})
    IN  [k \in DOMAIN valid |->
            [at |-> valid[k], actual |-> [num |-> panel[valid[k]][candidate.target], den |-> 1],
             synthetic |-> Side(valid[k])]]

Discrepancy(history) ==
    [k \in DOMAIN history |-> Minus(history[k].actual, history[k].synthetic)]

Actual(history) == [k \in DOMAIN history |-> history[k].actual]

Synthetic(history) == [k \in DOMAIN history |-> history[k].synthetic]

Constant(side, rows) == \A j, k \in rows : Equal(side[j], side[k])

\* The residuals of a regression of one side on the other vanish.
Collinear(history) ==
    LET dx(k) == Minus(history[k].synthetic, history[1].synthetic)
        dy(k) == Minus(history[k].actual, history[1].actual)
        Cross(a, b) == [num |-> a.num * b.num, den |-> a.den * b.den]
    IN  \A j, k \in DOMAIN history : Equal(Cross(dx(j), dy(k)), Cross(dx(k), dy(j)))

\* cointegration_stationarity: the histories for which it refuses to test.
Untestable(history) ==
    \/ Len(history) < StationarityRows
    \/ Constant(Actual(history), DOMAIN history)
    \/ Constant(Synthetic(history), DOMAIN history)
    \/ Collinear(history)

-----------------------------------------------------------------------------
(* _evaluate_candidate                                                     *)

Evaluated(candidate, status, history) ==
    [name |-> candidate.name, candidate |-> candidate, status |-> status, history |-> history,
     available |-> FALSE, p |-> NoValue]

\* Windows that the statistics refuse fail the candidate, not the run.
Refuses(request) == request.rollingWindow < 2 \/ request.regimeWindow < 2

\* Every result an evaluation can have; the numbers of the tests are external.
Evaluations(panel, candidate, request, pValues) ==
    LET history == History(panel, candidate) IN
    IF ~(Required(candidate) \subseteq SymbolsOf(panel))
    THEN {Evaluated(candidate, "requires_data", <<>>)}
    ELSE IF Len(history) < request.minimumObservations
    THEN {Evaluated(candidate, "insufficient_observations", <<>>)}
    ELSE IF Refuses(request) THEN {Evaluated(candidate, "requires_data", <<>>)}
    ELSE LET result == Evaluated(candidate, "requires_further_validation", history) IN
         {result} \cup
         IF Untestable(history) THEN {}
         ELSE {[result EXCEPT !.available = TRUE, !.p = p] : p \in pValues}

-----------------------------------------------------------------------------
(* RidgeCandidateRanker                                                    *)

\* A z-score exists after the warm-up, unless the window has no variance.
HasZscore(history, k) ==
    LET window == Min({ZWindow, Len(history)})
    IN  k >= window /\ ~Constant(Discrepancy(history), (k - window + 1) .. k)

HasCorrelation(history, k) ==
    /\ k >= ExpandingRows
    /\ ~Constant(Actual(history), 1 .. k) /\ ~Constant(Synthetic(history), 1 .. k)

\* The rows whose features are finite, and whose label, the next row's
\* z-score, is.
TrainableRows(evaluation) ==
    LET history == evaluation.history IN
    {[name |-> evaluation.name, at |-> history[k].at, label |-> history[k + 1].at] :
        k \in {k \in 1 .. Len(history) - 1 : /\ HasZscore(history, k) /\ HasZscore(history, k + 1)
                                             /\ HasCorrelation(history, k)}}

Nothing == [trained |-> {}, evaluated |-> {}, ranked |-> {}]

\* rank: the rows are split by time, at a fraction of the timestamps that is
\* rounded down; too few rows on either side and nothing is ranked.
Rank(evaluations, request) ==
    LET rows  == UNION {TrainableRows(evaluations[k]) : k \in DOMAIN evaluations}
        times == Ascending({row.at : row \in rows})
        split == Max({1, (Len(times) * request.trainingTenths) \div 10})
        train == {row \in rows : row.at <= times[split]}
    IN  IF rows = {} \/ split >= Len(times) THEN Nothing
        ELSE [trained |-> train, evaluated |-> rows \ train,
              ranked |-> IF Cardinality(train) < request.minimumTrainRows THEN {}
                         ELSE {row.name : row \in rows \ train}]
=============================================================================
