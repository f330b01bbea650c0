-------------------------- MODULE MCAuthStateManager --------------------------
(* The instances of AuthStateManager that TLC checks.                          *)
EXTENDS AuthStateManager

CONSTANT caller1

OneCaller == {caller1}
===============================================================================
