----------------------------- MODULE MCMemCache -----------------------------
(* MemCache with two threads, and as many buffers as a copy needs. *)
EXTENDS MemCache, TLC

CONSTANTS t1, t2, b1, b2

TwoThreads == {t1, t2}
TwoBuffers == {b1, b2}
Symmetry == Permutations(TwoThreads) \union Permutations(TwoBuffers)
=============================================================================
