------------------------ MODULE MCParallelCollection ------------------------
(* Instances of ParallelCollection for TLC.                                *)
EXTENDS ParallelCollection, TLC

CONSTANTS j1, j2, j3, s1, s2

TwoJobs == {j1, j2}
ThreeJobs == {j1, j2, j3}
TwoSymbols == {s1, s2}

Everyone == [j \in Job |-> Symbol]

\* One profile is asked for both symbols, the others for one.
OneWantsBoth == [j \in Job |-> IF j = j1 THEN Symbol ELSE {s1}]

\* The profiles that are asked for the same are interchangeable.
TheOthers == Permutations({j2, j3})
=============================================================================
