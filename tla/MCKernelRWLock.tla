--------------------------- MODULE MCKernelRWLock ---------------------------
(* Small instances of KernelRWLock for TLC.                                 *)
EXTENDS KernelRWLock

CONSTANTS t1, t2, t3

ThreeThreads == {t1, t2, t3}
OnlyT1 == {t1}
OnlyT2 == {t2}

(* t1 is the most urgent; the others are equals.                            *)
SomePriorities == [t \in Threads |-> IF t = t1 THEN 1 ELSE 2]
=============================================================================
