---------------------------- MODULE MCEventLoop ----------------------------
(* Small instances of EventLoop for TLC. *)
EXTENDS EventLoop, TLC

CONSTANTS keyboard, timer, e1, e2, e3

TwoPosters == {keyboard, timer}
ThreeEvents == {e1, e2, e3}
OneQuit == {e1}
KeyboardQuits == {keyboard}
=============================================================================
