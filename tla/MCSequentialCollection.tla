----------------------- MODULE MCSequentialCollection -----------------------
(* Instances of SequentialCollection for TLC.                              *)
EXTENDS SequentialCollection

CONSTANTS j1, j2, s1, s2

TwoJobs == {j1, j2}
TwoSymbols == {s1, s2}
InOrder == <<j1, j2>>
Everyone == [j \in Job |-> Symbol]
=============================================================================
