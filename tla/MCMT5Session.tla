---------------------------- MODULE MCMT5Session ----------------------------
(* Instances of MT5Session for TLC.                                        *)
EXTENDS MT5Session, TLC

CONSTANTS d1, d2, real

MCAccount == {d1, d2, real}
MCDemo == {d1, d2}

\* d1 and d2 are interchangeable unless one of them is the configured login.
DemoSymmetry == Permutations(MCDemo)
=============================================================================
