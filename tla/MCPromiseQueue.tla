---------------------------- MODULE MCPromiseQueue ----------------------------
(* The instances of PromiseQueue that TLC checks.                              *)
EXTENDS PromiseQueue

CONSTANTS c1, c2, c3, c4

FourCalls == {c1, c2, c3, c4}
ThreeCalls == {c1, c2, c3}
OneThrows == {c2}
===============================================================================
