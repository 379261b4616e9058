--------------------------- MODULE MCKernelCondvar ---------------------------
(* Small instances of KernelCondvar for TLC.                                *)
EXTENDS KernelCondvar

CONSTANTS t1, t2, t3

ThreeThreads == {t1, t2, t3}
NoThreads == {}
T2T3 == {t2, t3}
OnlyT2 == {t2}
OnlyT3 == {t3}
T1T2 == {t1, t2}

(* t1 is the most urgent; the others are equals.                            *)
SomePriorities == [t \in Threads |-> IF t = t1 THEN 1 ELSE 2]
=============================================================================
