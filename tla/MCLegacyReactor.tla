--------------------------- MODULE MCLegacyReactor ---------------------------
(* LegacyReactor with one descriptor, whose read event may be added twice,  *)
(* and two interchangeable workers.                                        *)
EXTENDS LegacyReactor, TLC

CONSTANTS fd1, w1, w2

OneFd == {fd1}
MCEvents == [fd : OneFd, dir : Dirs, gen : {1}]
            \union [fd : OneFd, dir : {"read"}, gen : {2}]
TwoWorkers == {w1, w2}

Symmetry == Permutations(TwoWorkers)
=============================================================================
