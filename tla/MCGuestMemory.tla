--------------------------- MODULE MCGuestMemory ---------------------------
(* Sixteen pages of two bytes in words of four bits, two regions to ask from.   *)
EXTENDS GuestMemory

MCTypes == {"cdram", "rw"}
MCTypeStart == [cdram |-> 8, rw |-> 16]
MCTypeAlignment == [cdram |-> 4, rw |-> 2]
=============================================================================
