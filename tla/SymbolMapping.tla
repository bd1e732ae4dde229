---------------------------- MODULE SymbolMapping ----------------------------
(***************************************************************************)
(* SymbolMapper (market_data/symbols.py): the name under which a broker    *)
(* publishes a research symbol.  What is written in a name is abstracted   *)
(* to what the mapper asks of it: its normalised form, and the aliases it  *)
(* contains between word boundaries.                                       *)
(***************************************************************************)
EXTENDS SequencesExt, Integers

CONSTANTS
    NormalOf,     \* _normalize: of a research or broker name, what it normalises to
    AliasesOf,    \* _search_aliases: the aliases of a research symbol, in order
    ContainedIn,  \* _contains_alias: the aliases in a broker name
    NotFound      \* SymbolNotFoundError

\* The entries of a catalogue that are published under the symbol's own name.
Published(canonical, available) ==
    {k \in DOMAIN available : NormalOf[available[k]] = NormalOf[canonical]}

\* The pairs of an alias and an entry that contains it.
AliasMatches(canonical, available) ==
    {match \in (DOMAIN AliasesOf[canonical]) \X (DOMAIN available) :
        AliasesOf[canonical][match[1]] \in ContainedIn[available[match[2]]]}

\* Mutant of Resolve: the aliases are searched before the names.
ResolveByAliasFirst(canonical, available, configured) ==
    LET matches == AliasMatches(canonical, available)
    IN  IF matches # {} THEN available[Min({match[2] : match \in matches})]
        ELSE IF Published(canonical, available) # {}
        THEN available[Max(Published(canonical, available))]
        ELSE NotFound

\* Of the entries with one normalised name the last replaces the others; of
\* those that contain an alias, the first that contains the first alias.
Resolve(canonical, available, configured) ==
    LET published == Published(canonical, available)
        matches   == AliasMatches(canonical, available)
        alias     == Min({match[1] : match \in matches})
    IN  IF canonical \in DOMAIN configured /\ configured[canonical] \in Range(available)
        THEN configured[canonical]
        ELSE IF published # {} THEN available[Max(published)]
        ELSE IF matches # {} THEN available[Min({k \in DOMAIN available : <<alias, k>> \in matches})]
        ELSE NotFound

==============================================================================
