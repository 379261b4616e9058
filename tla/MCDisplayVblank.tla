--------------------------- MODULE MCDisplayVblank ---------------------------
(* A thread with a callback and one that reads the touch screen.            *)
EXTENDS DisplayVblank

CONSTANTS t1, t2, c1

MCThreads == {t1, t2}
MCUsers == {t1}
MCNotifiers == {t2}
MCCallbacks == {c1}
MCOwner == [c \in MCCallbacks |-> t1]
MCVCounts == {2}
MCBufCounts == {2}
=============================================================================
