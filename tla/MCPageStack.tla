---------------------------- MODULE MCPageStack ----------------------------
(* Small instances of PageStack for TLC. *)
EXTENDS PageStack, TLC

CONSTANTS home, list, confirm

ThreePages == {home, list, confirm}
TwoPages == {home, list}
=============================================================================
