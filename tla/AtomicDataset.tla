---------------------------- MODULE AtomicDataset ----------------------------
(***************************************************************************)
(* What `ParquetQuoteRepository` promises a reader: a dataset is the pair  *)
(* of its data file and its manifest, the pair appears in one step, and a  *)
(* pair that has appeared stays as it is.                                  *)
(***************************************************************************)
CONSTANTS Id, Writer, None

VARIABLE whole  \* whose pair stands under each dataset id, None if there is none

Init == whole = [i \in Id |-> None]

Appear(i, w) ==
    /\ whole[i] = None
    /\ whole' = [whole EXCEPT ![i] = w]

Next == \E i \in Id, w \in Writer : Appear(i, w)

Spec == Init /\ [][Next]_whole
=============================================================================
