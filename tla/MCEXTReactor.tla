---------------------------- MODULE MCEXTReactor -----------------------------
(* EXTReactor with two workers, a thread that posts besides the main        *)
(* thread, and as many events as the queue and the workers hold together.   *)
EXTENDS EXTReactor

CONSTANTS w1, w2, p1, e1, e2, e3, e4

TwoWorkers == {w1, w2}
MainAndProducer == {Main, p1}
FourEvents == {e1, e2, e3, e4}
TwoEvents == {e1, e2}
OneEvent == {e1}
=============================================================================
