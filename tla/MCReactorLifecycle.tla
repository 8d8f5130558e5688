-------------------------- MODULE MCReactorLifecycle --------------------------
(* ReactorLifecycle with three events posted by other threads, two workers. *)
EXTENDS ReactorLifecycle

CONSTANTS e1, e2, e3, w1, w2

ThreeEvents == {e1, e2, e3}
TwoWorkers == {w1, w2}
=============================================================================
