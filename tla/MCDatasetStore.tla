--------------------------- MODULE MCDatasetStore ---------------------------
(* Instances of DatasetStore for TLC.                                      *)
EXTENDS DatasetStore, TLC

CONSTANTS w1, w2, i1, i2

TwoWriters == {w1, w2}
TwoIds == {i1, i2}

\* uuid4 gives every write an id of its own.
FreshIds == (w1 :> i1) @@ (w2 :> i2)
=============================================================================
