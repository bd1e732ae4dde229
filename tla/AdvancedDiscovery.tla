--------------------------- MODULE AdvancedDiscovery ---------------------------
(***************************************************************************)
(* Relationship discovery (application/advanced_research.py): a price      *)
(* panel is loaded, cut to the window its symbols share, the candidates    *)
(* that can be computed from those symbols are found, deduplicated,        *)
(* evaluated one after another, ranked, and corrected for their number.    *)
(* The report is written as that of any experiment (ResearchExperiment).   *)
(***************************************************************************)
EXTENDS CandidateEvaluation, Multiplicity

CONSTANTS
    Inputs,    \* records of a file, whether it is "long", a catalog and a request
    PValues

ASSUME PValuesAreProportions == PValues \subseteq 0 .. Unit

\* A wide file has the same columns in each of its rows.
WideFile(file) ==
    \A j, k \in DOMAIN file :
        /\ file[k].at \in Int /\ DOMAIN file[k].price \subseteq Range(Names)
        /\ DOMAIN file[j].price = DOMAIN file[k].price

LongFile(file) ==
    \A k \in DOMAIN file : file[k].at \in Int /\ file[k].symbol \in Range(Names)

ASSUME InputsAreReadable ==
    \A x \in Inputs :
        /\ x.file \in Seq(Range(x.file)) /\ x.catalog \in Seq(Range(x.catalog))
        /\ IF x.long THEN LongFile(x.file) ELSE WideFile(x.file)
        /\ x.request.minimumSymbols \in Int /\ x.request.minimumObservations \in Int
        /\ x.request.depth \in Int /\ x.request.alpha \in Int
        /\ x.request.method \in Methods

\* Names of symbols only, and the operands of a node before it.
ASSUME FormulasAreParsed ==
    \A x \in Inputs : \A d \in Range(x.catalog) :
        Refused(d.formula) \/ IsExpression(Expression(d.formula), Range(Names))

VARIABLES
    input,
    pc,           \* the next step, "done", or the exception that ended the call
    panel,
    window,       \* best_shared_window
    found,        \* the definitions the graph expansion found
    dedup,        \* the report of the deduplication
    evaluations,
    ranking, multiplicity

vars == <<input, pc, panel, window, found, dedup, evaluations, ranking, multiplicity>>

request == input.request

Init ==
    /\ input \in Inputs /\ pc = "load"
    /\ panel = <<>> /\ window = NoValue /\ found = <<>> /\ dedup = Deduplication(<<>>)
    /\ evaluations = <<>> /\ ranking = Nothing
    /\ multiplicity = Adjust(request.method, <<>>, request.alpha)

Fail(exception) ==
    /\ pc' = exception
    /\ UNCHANGED <<input, panel, window, found, dedup, evaluations, ranking, multiplicity>>

\* load_price_panel.
Load ==
    /\ pc = "load"
    /\ LET refused == IF input.long THEN LongRefused(input.file) ELSE WideRefused(input.file)
           loaded  == IF input.long THEN Long(input.file) ELSE Wide(input.file)
       IN  IF refused \/ NotPositive(loaded) THEN Fail("DataQualityError")
           ELSE /\ panel' = loaded /\ pc' = "cover"
                /\ UNCHANGED <<input, window, found, dedup, evaluations, ranking, multiplicity>>

\* require_usable, and the cut to the shared window.
Cover ==
    /\ pc = "cover"
    /\ IF request.minimumSymbols < 2 THEN Fail("ValueError")
       ELSE IF Unusable(panel, request.minimumSymbols, request.minimumObservations)
       THEN Fail("DataQualityError")
       ELSE /\ window' = BestSharedWindow(panel, request.minimumSymbols)
            /\ pc' = "expand"
            /\ UNCHANGED <<input, panel, found, dedup, evaluations, ranking, multiplicity>>

Catalog == FromDefinitions(input.catalog)

\* The formula of every definition is parsed, that of one used already too.
Expand ==
    /\ pc = "expand"
    /\ IF request.depth < 0 \/ \E d \in Range(Catalog) : Refused(d.formula)
       THEN Fail("ValueError")
       ELSE /\ found' = Expanded(Catalog, window.symbols, request.depth)
            /\ dedup' = Deduplication(found')
            /\ pc' = "evaluate"
            /\ UNCHANGED <<input, panel, window, evaluations, ranking, multiplicity>>

\* One turn of the evaluator's loop.
Evaluate ==
    /\ pc = "evaluate" /\ request.minimumObservations >= 3
    /\ Len(evaluations) < Len(dedup.kept)
    /\ \E evaluation \in Evaluations(Analysed(panel, window), dedup.kept[Len(evaluations) + 1],
                                     request, PValues) :
          evaluations' = Append(evaluations, evaluation)
    /\ UNCHANGED <<input, pc, panel, window, found, dedup, ranking, multiplicity>>

\* The ranking, the correction, and the regimes of every symbol: a regime
\* window that only failed the candidates ends the call here.
Conclude ==
    /\ pc = "evaluate"
    /\ Len(evaluations) = Len(dedup.kept) \/ request.minimumObservations < 3
    /\ IF request.minimumObservations < 3 \/ request.alpha \notin 1 .. Unit - 1
          \/ request.regimeWindow < 2
       THEN Fail("ValueError")
       ELSE /\ ranking' = Rank(evaluations, request)
            /\ multiplicity' = Adjust(request.method, Family(evaluations), request.alpha)
            /\ pc' = "done"
            /\ UNCHANGED <<input, panel, window, found, dedup, evaluations>>

Next == Load \/ Cover \/ Expand \/ Evaluate \/ Conclude

Spec == Init /\ [][Next]_vars

-----------------------------------------------------------------------------
(* Properties                                                              *)

\* The analysis finds a window whenever enough symbols ever meet on a row, the
\* window is a run of rows on which all its symbols have a price, no such run
\* is longer, and where enough symbols span the longest run of crowded rows no
\* other choice of symbols shares more rows (coverage.py:228-295: the greedy
\* pass gives up neither a panel nor a row of its own choice).
SharedWindowIsSound ==
    pc \in {"cover", "expand", "evaluate", "done"} /\ request.minimumSymbols >= 2 =>
        LET best == BestSharedWindow(panel, request.minimumSymbols)
            run  == LongestRun(Crowded(panel, request.minimumSymbols))
            Spanning == {s \in SymbolsOf(panel) : run.first .. run.last \subseteq Shared(panel, {s})}
        IN  IF Crowded(panel, request.minimumSymbols) = {} THEN best = NoValue
            ELSE /\ best # NoValue /\ Cardinality(best.symbols) >= request.minimumSymbols
                 /\ best.first .. best.last \subseteq Shared(panel, best.symbols)
                 /\ \A other \in Runs(Shared(panel, best.symbols)) : Rows(other) <= Rows(best)
                 /\ Cardinality(Spanning) >= request.minimumSymbols =>
                       \A symbols \in SUBSET SymbolsOf(panel) :
                           Cardinality(symbols) >= request.minimumSymbols =>
                               \A other \in Runs(Shared(panel, symbols)) : Rows(other) <= Rows(best)

\* What the expansion finds can be computed in the order in which it is found;
\* given as many layers as there are definitions it finds all that can be; and
\* the order of the catalog does not change what is found (graph.py:47-70).
ExpansionIsExact ==
    pc = "evaluate" =>
        /\ \A k \in DOMAIN found :
              Dependencies(found[k])
                  \subseteq window.symbols \cup Targets(SubSeq(found, 1, k - 1))
        /\ request.depth >= Len(Catalog) =>
              \A d \in Range(Catalog) :
                  Dependencies(d) \subseteq window.symbols \cup Targets(found)
                      => d \in Range(found)
        /\ Range(found) = Range(Expanded(Reverse(Catalog), window.symbols, request.depth))

\* Prices that tell two monomials apart, and others.
Telling(symbols) ==
    {[s \in symbols |-> IF s = x THEN 2 ELSE 1] : x \in symbols}
    \cup {[s \in symbols |-> Place(s) + 1], [s \in symbols |-> 4 * Place(s) - 3]}

\* Both formulas have a value, and one value, or neither has.
AgreeAt(c, d, prices) ==
    LET a == ValueOf(c.formula, prices)  b == ValueOf(d.formula, prices)
    IN  (a = None <=> b = None) /\ Equal(a, b)

\* No hypothesis is tested twice and none is lost: a candidate that is merged
\* into another has its target and its value at all prices, two products or
\* ratios that are kept for one target differ in value, and every candidate is
\* kept or named with the one it repeats (deduplicate.py:160-195).
HypothesesAreDistinct ==
    pc = "evaluate" =>
        /\ Range(dedup.kept) \cup {dedup.duplicates[k][2] : k \in DOMAIN dedup.duplicates}
             = Range(found)
        /\ Len(dedup.kept) + Len(dedup.duplicates) = Len(found)
        /\ \A k \in DOMAIN dedup.duplicates :
              LET kept == dedup.duplicates[k][1]  removed == dedup.duplicates[k][2]
              IN  /\ kept \in Range(dedup.kept) /\ kept.target = removed.target
                  /\ \A prices \in Telling(Range(Names)) : AgreeAt(kept, removed, prices)
        /\ \A c, d \in Range(dedup.kept) :
              /\ c # d /\ c.target = d.target
              /\ IsMonomialRatio(Expression(c.formula)) /\ IsMonomialRatio(Expression(d.formula))
              => \E prices \in Telling(Range(Names)) : ~AgreeAt(c, d, prices)

\* The candidate an evaluation is of could be tested: its symbols share the
\* window, with enough rows and no constant side.
Testable(evaluation) ==
    /\ Required(evaluation.candidate) \subseteq window.symbols
    /\ Len(evaluation.history) >= request.minimumObservations
    /\ \E j, k \in DOMAIN evaluation.history :
          ~Equal(evaluation.history[j].actual, evaluation.history[k].actual)
    /\ \E j, k \in DOMAIN evaluation.history :
          ~Equal(evaluation.history[j].synthetic, evaluation.history[k].synthetic)

\* Every kept candidate is tested or excluded, only candidates that could be
\* tested count towards the correction, and a survivor would be significant by
\* itself, carries every candidate with a smaller p-value with it, and would
\* survive without any of the tests that were not rejected (advanced_research.py:89-94,
\* multiplicity.py:163-196; names are unique).
SurvivorsWereTested ==
    pc = "done" /\ Cardinality({dedup.kept[k].name : k \in DOMAIN dedup.kept}) = Len(dedup.kept) =>
        LET family == Family(evaluations)  survivors == multiplicity.survivors IN
        /\ DOMAIN family \cup Excluded(evaluations) = {c.name : c \in Range(dedup.kept)}
        /\ multiplicity.tests = Cardinality({k \in DOMAIN evaluations : evaluations[k].available})
        /\ \A k \in DOMAIN evaluations : evaluations[k].name \in DOMAIN family
                                            => Testable(evaluations[k])
        /\ \A l \in survivors :
              /\ family[l] < request.alpha
              /\ \A m \in DOMAIN family : family[m] <= family[l] => m \in survivors
              /\ \A m \in DOMAIN family \ multiplicity.rejected :
                    l \in Adjust(request.method, [n \in DOMAIN family \ {m} |-> family[n]],
                                 request.alpha).survivors

=============================================================================
