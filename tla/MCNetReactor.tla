----------------------------- MODULE MCNetReactor -----------------------------
(* NetReactor with two connections and one or two worker threads. *)
EXTENDS NetReactor

CONSTANTS c1, c2, w1, w2

TwoConns == {c1, c2}
OneConn == {c1}
TwoWorkers == {w1, w2}

=============================================================================
