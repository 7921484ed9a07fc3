------------------------ MODULE MCDirectoryStorage ------------------------
(* Two threads that read input, two labels, a few items over several runs. *)
EXTENDS DirectoryStorage, TLC
CONSTANTS t1, t2, l1, l2
MCThreads == {t1, t2}
MCOneThread == {t1}
MCLabels == {l1, l2}
MCSymmetry == Permutations({t1, t2}) \cup Permutations({l1, l2})
===========================================================================
