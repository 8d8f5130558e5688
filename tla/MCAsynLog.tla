------------------------------ MODULE MCAsynLog ------------------------------
(* The log with two threads that log two different lines. *)
EXTENDS AsynLog, TLC

CONSTANTS t1, t2, a, b

TwoLoggers == {t1, t2}
TwoLines == {a, b}
OneLine == {a}

Symmetry == Permutations(TwoLoggers) \union Permutations(TwoLines)
=============================================================================
