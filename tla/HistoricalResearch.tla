-------------------------- MODULE HistoricalResearch --------------------------
(***************************************************************************)
(* The study of one relationship on the bars of a live terminal:           *)
(* run_historical_research (application/commands.py) resolves the symbols  *)
(* of the relationship, reads the recent bars of each in turn while the    *)
(* market moves on, and HistoricalRelationshipResearcher (research/        *)
(* service.py) aligns them on the bars of the target.  A bar is the time   *)
(* it opened and whether it was final when it was read: the prices, and    *)
(* the statistics computed from the aligned rows, are not modelled.        *)
(***************************************************************************)
EXTENDS SymbolMapping

CONSTANTS
    Studies,      \* required symbols in the order they are read, the target, a mapping
    Terminals,    \* a catalogue, and the times at which each of its symbols traded
    FirstBar, LastBar,  \* when the study starts at the earliest, and the last bar
    Limit,        \* how many recent bars are asked for
    MaxDelay,     \* max_alignment_delay_ms, in bars
    MinimumRows   \* minimum_observations

ASSUME BarsAreCounted ==
    /\ FirstBar \in Nat /\ LastBar \in Nat /\ FirstBar <= LastBar
    /\ Limit \in Nat \ {0} /\ MaxDelay \in Nat /\ MinimumRows \in Nat \ {0}

\* The target is read with the other symbols of the relationship, and no two of
\* them differ in punctuation only.
ASSUME StudiesAreReadable ==
    \A s \in Studies :
        /\ Len(s.required) \in Nat /\ DOMAIN s.required = 1 .. Len(s.required)
        /\ s.target \in Range(s.required)
        /\ \A a \in Range(s.required) :
              Len(AliasesOf[a]) \in Nat /\ DOMAIN AliasesOf[a] = 1 .. Len(AliasesOf[a])
        /\ \A a, b \in Range(s.required) : NormalOf[a] = NormalOf[b] => a = b

ASSUME TerminalsAreListed ==
    \A t \in Terminals :
        /\ Len(t.available) \in Nat /\ DOMAIN t.available = 1 .. Len(t.available)
        /\ \A k \in DOMAIN t.available : t.traded[t.available[k]] \subseteq Int

VARIABLES
    study, terminal,
    now,       \* the bar that is forming
    step,      \* the next step, "done", or the exception that ended the study
    opened,    \* the bar that was forming when the session was opened
    names,     \* the broker's name of each required symbol
    series,    \* what was read so far, in the order of study.required
    rows       \* the aligned rows

studyVars == <<study, terminal, now, step, opened, names, series, rows>>

RequiredSymbols == Range(study.required)

SeriesOf(symbol) == series[CHOOSE k \in DOMAIN study.required : study.required[k] = symbol]

StudyInit ==
    /\ study \in Studies /\ terminal \in Terminals
    /\ now = FirstBar /\ step = "open" /\ opened = FirstBar
    /\ names = <<>> /\ series = <<>> /\ rows = {}

\* The bar that forms is closed and the next one opens.
Tick ==
    /\ now < LastBar /\ step \in {"open", "read"}
    /\ now' = now + 1
    /\ UNCHANGED <<study, terminal, step, opened, names, series, rows>>

StudyFails(exception) ==
    /\ step' = exception
    /\ UNCHANGED <<study, terminal, now, opened, names, series, rows>>

\* Connecting, a read, or the check of the account that labels it fails.
TerminalFails ==
    /\ step \in {"open", "read", "align"}
    /\ \E exception \in {"MT5ConnectionError", "DemoSafetyError"} : StudyFails(exception)

\* The catalogue is read once and every symbol resolved before any is read.
OpenTerminal ==
    /\ step = "open"
    /\ LET resolved == [s \in RequiredSymbols |-> Resolve(s, terminal.available, study.configured)]
       IN  IF NotFound \in Range(resolved) THEN StudyFails("SymbolNotFoundError")
           ELSE /\ names' = resolved /\ opened' = now /\ step' = "read"
                /\ UNCHANGED <<study, terminal, now, series, rows>>

\* copy_rates_from_pos(symbol, timeframe, 0, Limit): the last bars, the one
\* that forms among them once it has traded.
Recent(traded, forming) ==
    LET seen == {t \in traded : t < now} \cup forming
    IN  {[at |-> t, final |-> t < now] : t \in {u \in seen : Cardinality({v \in seen : v > u}) < Limit}}

ReadSeries ==
    /\ step = "read"
    /\ LET traded == terminal.traded[names[study.required[Len(series) + 1]]]
       IN  \E forming \in SUBSET (traded \cap {now}) :
              series' = Append(series, Recent(traded, forming))
    /\ step' = IF Len(series') = Len(study.required) THEN "align" ELSE "read"
    /\ UNCHANGED <<study, terminal, now, opened, names, rows>>

\* Mutant of AsofMatches: the tolerance reaches forwards as well.
MatchesAround(bars, t) == {bar \in bars : bar.at \in (t - MaxDelay) .. (t + MaxDelay)}

\* merge_asof, backwards and within the tolerance: the latest of these.
AsofMatches(bars, t) == {bar \in bars : bar.at \in (t - MaxDelay) .. t}

Latest(bars) == CHOOSE bar \in bars : \A other \in bars : other.at <= bar.at

\* A row without a match for every symbol is dropped.
AlignedRows ==
    LET Sources == RequiredSymbols \ {study.target}
    IN  {[s \in RequiredSymbols |-> IF s = study.target THEN bar ELSE Latest(AsofMatches(SeriesOf(s), bar.at))] :
            bar \in {b \in SeriesOf(study.target) : \A s \in Sources : AsofMatches(SeriesOf(s), b.at) # {}}}

\* A series without bars has no columns, which is refused.
AlignSeries ==
    /\ step = "align"
    /\ IF {} \in Range(series) THEN StudyFails("ValueError")
       ELSE IF Cardinality(AlignedRows) < MinimumRows THEN StudyFails("InsufficientDataError")
       ELSE /\ rows' = AlignedRows /\ step' = "done"
            /\ UNCHANGED <<study, terminal, now, opened, names, series>>

StudyNext == Tick \/ TerminalFails \/ OpenTerminal \/ ReadSeries \/ AlignSeries

StudySpec == StudyInit /\ [][StudyNext]_studyVars

-----------------------------------------------------------------------------
(* Properties                                                              *)

TradedAs(s) == terminal.traded[names[s]]

\* The series of a study are read one after another from a market that moves,
\* so its last rows may pair bars of different moments.  A row on a bar that
\* was closed when the session was opened is not among them: it holds, for
\* each symbol, the final bar that was the latest by then, and where the
\* limit reaches back far enough no such row is missing, so that studies that
\* start later agree on it (commands.py:307-329, service.py:143-161).
SettledRowsAreRepeatable ==
    step = "done" =>
        /\ \A row \in rows, s \in RequiredSymbols :
              LET t == row[study.target].at IN
              t < opened => row[s] = [at |-> Max({u \in TradedAs(s) : u <= t}), final |-> TRUE]
        /\ \A t \in TradedAs(study.target) :
              /\ t < opened /\ t > LastBar - Limit
              /\ \A s \in RequiredSymbols : \E u \in TradedAs(s) : u \in (t - MaxDelay) .. t /\ u > LastBar - Limit
              => \E row \in rows : row[study.target].at = t

\* The series of a symbol is the configuration's choice or an alias's.
ByFallback(s) ==
    \/ s \in DOMAIN study.configured /\ study.configured[s] = names[s]
    \/ /\ Published(s, terminal.available) = {}
       /\ \E k \in DOMAIN AliasesOf[s] : AliasesOf[s][k] \in ContainedIn[names[s]]

\* Nothing keeps a study from reading one series under two of its symbols, and
\* so from comparing it with itself.  Where it does, one of the two was mapped
\* to that series by the configuration, or the broker does not publish it and
\* an alias of it stands in the other's name; names that are published and
\* unmapped never collide, whatever their order (symbols.py:37-52).
SharedSeriesAreByFallback ==
    \A a, b \in DOMAIN names :
        a # b /\ names[a] = names[b] => \E s \in {a, b} : ByFallback(s)

===============================================================================
