--------------------------- MODULE MCGeneralTimer ---------------------------
(* Small instances of GeneralTimer for TLC. *)
EXTENDS GeneralTimer, TLC

CONSTANTS c1, c2, c3

ThreeConns == {c1, c2, c3}
TwoPeriods == {2, 3}
Symmetric == Permutations(ThreeConns)
=============================================================================
