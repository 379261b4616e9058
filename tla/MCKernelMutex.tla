---------------------------- MODULE MCKernelMutex ----------------------------
(* Small instances of KernelMutex for TLC.                                  *)
EXTENDS KernelMutex

CONSTANTS t1, t2, t3

T2T3 == {t2, t3}
ThreeThreads == {t1, t2, t3}
OnlyT1 == {t1}

(* t1 is the most urgent; t2 and t3 are equals.                             *)
SomePriorities == [t \in Threads |-> IF t = t1 THEN 1 ELSE 2]

=============================================================================
