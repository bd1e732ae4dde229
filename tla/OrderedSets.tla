----------------------------- MODULE OrderedSets -----------------------------
(***************************************************************************)
(* Sorting, selecting and ranking, by what they return: the pandas and     *)
(* numpy calls the comparison and the experiments rest on (sort_values,    *)
(* boolean selection, median) stated without an algorithm.                 *)
(***************************************************************************)
EXTENDS Integers, SequencesExt

\* A finite set of integers in increasing order.
Ascending(S) ==
    [k \in 1 .. Cardinality(S) |-> CHOOSE x \in S : Cardinality({y \in S : y < x}) = k - 1]

\* The rows at these positions, in the order of the rows.
RowsAt(rows, positions) ==
    LET index == Ascending(positions)
    IN  [k \in DOMAIN index |-> rows[index[k]]]

\* The k-th smallest of a sequence of numbers.
Ranked(numbers, k) ==
    Min({v \in Range(numbers) : Cardinality({i \in DOMAIN numbers : numbers[i] <= v}) >= k})

=============================================================================
