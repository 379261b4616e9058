-------------------------- MODULE MCKernelSemaphore --------------------------
(* Small instances of KernelSemaphore for TLC.                              *)
EXTENDS KernelSemaphore

CONSTANTS t1, t2, t3, t4

FourThreads == {t1, t2, t3, t4}
T1T2T3 == {t1, t2, t3}
OnlyT3 == {t3}
OnlyT2 == {t2}

(* t1 is the most urgent; the others are equals.                            *)
SomePriorities == [t \in Threads |-> IF t = t1 THEN 1 ELSE 2]
CancelCounts == {-1, 0, 2}
=============================================================================
