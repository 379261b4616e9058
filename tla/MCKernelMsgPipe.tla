--------------------------- MODULE MCKernelMsgPipe ---------------------------
(* Small instances of KernelMsgPipe for TLC.                                *)
EXTENDS KernelMsgPipe

CONSTANTS t1, t2, t3

TwoThreads == {t1, t2}
ThreeThreads == {t1, t2, t3}
NoThreads == {}
OnlyT1 == {t1}
OnlyT2 == {t2}
OnlyT3 == {t3}
T1T2 == {t1, t2}

(* t1 is the most urgent; the others are equals.                            *)
SomePriorities == [t \in Threads |-> IF t = t1 THEN 1 ELSE 2]
=============================================================================
