--------------------------- MODULE RelationshipGraph ---------------------------
(***************************************************************************)
(* The expansion of a relationship graph (relationships/graph.py): which   *)
(* definitions can be computed from some seed symbols, layer by layer, a   *)
(* definition's target being available to the next layer.                  *)
(***************************************************************************)
EXTENDS Formulas, OrderedSets

Dependencies(definition) == SymbolsIn(definition.formula)

\* from_definitions: a definition given twice is kept once, at its first place.
FromDefinitions(definitions) ==
    RowsAt(definitions, {k \in DOMAIN definitions :
                            \A j \in 1 .. k - 1 : definitions[j] # definitions[k]})

Targets(found) == {found[k].target : k \in DOMAIN found}

\* Mutant of Layer: a definition may use a target found in its own layer.
LayerInPlace(definitions, seeds, found) ==
    LET Take(sofar, d) ==
            IF d \in Range(sofar) \/ ~(Dependencies(d) \subseteq seeds \cup Targets(sofar))
            THEN sofar ELSE Append(sofar, d)
    IN  FoldLeft(Take, found, definitions)

\* One turn of expand's loop: what is reachable is fixed when it begins.
Layer(definitions, seeds, found) ==
    found \o RowsAt(definitions, {k \in DOMAIN definitions :
                 /\ definitions[k] \notin Range(found)
                 /\ Dependencies(definitions[k]) \subseteq seeds \cup Targets(found)})

\* expand: at most `depth` layers; a layer that adds nothing ends it.
Expanded(definitions, seeds, depth) ==
    LET expanded[k \in 0 .. depth] ==
            IF k = 0 THEN <<>> ELSE Layer(definitions, seeds, expanded[k - 1])
    IN  expanded[depth]
=============================================================================
