---------------------------- MODULE MCBlockEQueue ----------------------------
(* BlockEQueue with three pushers, one of them also a popper (a worker that*)
(* reposts its event), and two poppers.                                    *)
EXTENDS BlockEQueue

CONSTANTS p1, p2, worker, c1, e1, e2, e3, e4

MCPushers == {p1, p2, worker}
MCPoppers == {worker, c1}
MCEvents == {e1, e2, e3, e4}
=============================================================================
