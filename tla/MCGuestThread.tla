---------------------------- MODULE MCGuestThread ----------------------------
(* Small instances of GuestThread for TLC.                                  *)
EXTENDS GuestThread

CONSTANTS t1, t2

TwoThreads == {t1, t2}
OnlyT2 == {t2}
OnlyT1 == {t1}
(* Nobody waits in a circle.                                                *)
SomeJoins == {<<t1, t2>>}
=============================================================================
