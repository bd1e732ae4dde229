---------------------------- MODULE PanelCoverage ----------------------------
(***************************************************************************)
(* What the symbols of a price panel share (market_data/panel.py,          *)
(* validation/coverage.py).                                                *)
(*                                                                         *)
(* A panel is a sequence of rows in time order; a row gives every symbol   *)
(* of the panel a price or NoValue.                                        *)
(***************************************************************************)
EXTENDS OrderedSets

CONSTANTS
    NoValue,
    Names    \* every symbol name, in the order in which names sort

ASSUME NamesAreListed == Names \in Seq(Range(Names))

ASSUME NoValueIsNoRun ==
    /\ NoValue \notin [first : Int, last : Int]
    /\ NoValue \notin [first : Int, last : Int, symbols : SUBSET Range(Names)]

Place(symbol) == CHOOSE k \in DOMAIN Names : Names[k] = symbol

-----------------------------------------------------------------------------
(* load_price_panel                                                        *)

\* A wide file has a price for every symbol in each of its rows.
WideRefused(rows) ==
    \/ rows = <<>>
    \/ \E j, k \in DOMAIN rows : j # k /\ rows[j].at = rows[k].at
    \/ \E k \in DOMAIN rows : DOMAIN rows[k].price = {}

Wide(rows) ==
    LET times == Ascending({rows[k].at : k \in DOMAIN rows})
    IN  [t \in DOMAIN times |-> (CHOOSE row \in Range(rows) : row.at = times[t]).price]

\* A long file has one symbol and its closing price in each of its rows.
LongRefused(rows) ==
    \/ rows = <<>>
    \/ \E j, k \in DOMAIN rows :
          j # k /\ rows[j].at = rows[k].at /\ rows[j].symbol = rows[k].symbol

\* pivot: a pair of a timestamp and a symbol without a row has no price.
Long(rows) ==
    LET times   == Ascending({rows[k].at : k \in DOMAIN rows})
        symbols == {rows[k].symbol : k \in DOMAIN rows}
        Closes(t, s) == {rows[k].close : k \in {l \in DOMAIN rows :
                                                  rows[l].at = times[t] /\ rows[l].symbol = s}}
    IN  [t \in DOMAIN times |-> [s \in symbols |->
            IF Closes(t, s) = {} THEN NoValue ELSE CHOOSE close \in Closes(t, s) : TRUE]]

NotPositive(panel) ==
    \E t \in DOMAIN panel : \E s \in DOMAIN panel[t] : panel[t][s] # NoValue /\ panel[t][s] <= 0

-----------------------------------------------------------------------------
(* PanelCoverageAnalyzer                                                   *)

SymbolsOf(panel) == DOMAIN panel[1]

Present(panel, t) == {s \in SymbolsOf(panel) : panel[t][s] # NoValue}

\* The rows on which every one of some symbols has a price.
Shared(panel, symbols) == {t \in DOMAIN panel : symbols \subseteq Present(panel, t)}

Rows(run) == run.last - run.first + 1

\* The maximal runs of consecutive rows of a set.
Runs(rows) ==
    {run \in [first : rows, last : rows] :
        /\ run.first .. run.last \subseteq rows /\ run.first <= run.last
        /\ run.first - 1 \notin rows /\ run.last + 1 \notin rows}

\* _longest_run: of equally long runs the first; NoValue if there is none.
LongestRun(rows) ==
    IF rows = {} THEN NoValue
    ELSE CHOOSE run \in Runs(rows) : \A other \in Runs(rows) :
            \/ Rows(other) < Rows(run)
            \/ Rows(other) = Rows(run) /\ run.first <= other.first

Crowded(panel, minimum) == {t \in DOMAIN panel : Cardinality(Present(panel, t)) >= minimum}

\* max over the columns in their order: the first of those that share the most
\* rows of the slice with the symbols selected so far.
MostShared(slice, selected, columns) ==
    LET Score(s) == Cardinality(Shared(slice, selected \cup {s}))
    IN  CHOOSE s \in columns : \A u \in columns :
            Score(u) < Score(s) \/ (Score(u) = Score(s) /\ Place(s) <= Place(u))

\* _greedy_subset: the symbol with the most prices in the slice, then, until
\* there are enough, the symbol that leaves the most shared rows, if any is left.
GreedySubset(panel, run, minimum) ==
    LET slice == SubSeq(panel, run.first, run.last)
        Joining(selected) ==
            {s \in SymbolsOf(panel) \ selected :
                selected = {} \/ Shared(slice, selected \cup {s}) # {}}
        grown[k \in 0 .. minimum] ==
            IF k = 0 THEN {}
            ELSE LET before == grown[k - 1] IN
                 IF Joining(before) = {} THEN before
                 ELSE before \cup {MostShared(slice, before, Joining(before))}
    IN  grown[minimum]

\* Mutant of Candidates: the first columns, whatever they share.
CandidatesByColumn(panel, run, minimum) ==
    LET complete == {s \in SymbolsOf(panel) : \A t \in run.first .. run.last : s \in Present(panel, t)}
    IN  IF Cardinality(complete) >= minimum THEN complete
        ELSE {s \in SymbolsOf(panel) : Cardinality({u \in SymbolsOf(panel) : Place(u) < Place(s)}) < minimum}

\* The symbols that span the longest run, or else those of the greedy pass.
Candidates(panel, run, minimum) ==
    LET complete == {s \in SymbolsOf(panel) : \A t \in run.first .. run.last : s \in Present(panel, t)}
    IN  IF Cardinality(complete) >= minimum THEN complete ELSE GreedySubset(panel, run, minimum)

\* _best_shared_window.
BestSharedWindow(panel, minimum) ==
    LET run == LongestRun(Crowded(panel, minimum)) IN
    IF run = NoValue THEN NoValue
    ELSE LET symbols == Candidates(panel, run, minimum)
             refined == LongestRun(Shared(panel, symbols))
         IN  IF Cardinality(symbols) < minimum \/ refined = NoValue THEN NoValue
             ELSE [first |-> refined.first, last |-> refined.last, symbols |-> symbols]

\* require_usable.
Unusable(panel, minimum, observations) ==
    LET window == BestSharedWindow(panel, minimum)
    IN  window = NoValue \/ Rows(window) < observations

\* The rows that are analysed: those of the window, and of its symbols alone.
Analysed(panel, window) ==
    [k \in 1 .. Rows(window) |-> [s \in window.symbols |-> panel[window.first + k - 1][s]]]
=============================================================================
