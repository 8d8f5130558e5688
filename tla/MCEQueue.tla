------------------------------- MODULE MCEQueue -------------------------------
(* EQueue with four interchangeable events. *)
EXTENDS EQueue, TLC

CONSTANTS e1, e2, e3, e4

MCEvents == {e1, e2, e3, e4}

Symmetry == Permutations(MCEvents)
=============================================================================
