---------------------------- MODULE MCQuotaThreads ----------------------------
(* Small instances of QuotaThreads for TLC. *)
EXTENDS QuotaThreads, TLC

CONSTANTS t1, t2

MCThreads == {t1, t2}

(* A thread's name means nothing to the store. *)
Symmetry == Permutations(Threads)

===============================================================================
