-------------------------- MODULE MCKernelEventFlag --------------------------
(* Small instances of KernelEventFlag for TLC.                              *)
EXTENDS KernelEventFlag

CONSTANTS t1, t2, t3, a, b

ThreeThreads == {t1, t2, t3}
OnlyT2 == {t2}
T1T2 == {t1, t2}

TwoBits == {a, b}
NoBits == {}
SomePatterns == {{a}, {a, b}}

(* t1 is the most urgent; the others are equals.                            *)
SomePriorities == [t \in Threads |-> IF t = t1 THEN 1 ELSE 2]
=============================================================================
