---------------------------- MODULE MCTransactions ----------------------------
(* The instances of Transactions that TLC checks.                              *)
EXTENDS Transactions, TLC

CONSTANTS f1, f2, t1, t2, c1, c2

TwoFlows == {f1, f2}
OneStateFlow == {f1}
TwoTabs == {t1, t2}
OneCall == {c1}
TwoCalls == {c1, c2}

Symmetry == Permutations(TwoTabs) \cup Permutations(TwoCalls)
===============================================================================
