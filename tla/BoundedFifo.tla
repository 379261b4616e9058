---------------------------- MODULE BoundedFifo ----------------------------
(***************************************************************************)
(* What Queue<T> (threads/include/threads/queue.h) promises its callers,   *)
(* without mutex, condition variables or sleepers: while it is open, items *)
(* leave in the order they came, each once, and at most Capacity are       *)
(* inside; once it is closed nothing comes or goes until it is emptied.    *)
(***************************************************************************)
EXTENDS Naturals, Sequences

CONSTANT Capacity

VARIABLES inside, open

Init == inside = <<>> /\ open = TRUE

(* Anything may be put in: all there was stays in front of it.              *)
Put == /\ open /\ Len(inside) < Capacity
       /\ Len(inside') = Len(inside) + 1
       /\ SubSeq(inside', 1, Len(inside)) = inside /\ UNCHANGED open

Get == /\ open /\ inside # <<>>
       /\ inside' = Tail(inside) /\ UNCHANGED open

Close == open' = FALSE /\ UNCHANGED inside

Renew == inside' = <<>> /\ open' = TRUE

Next == Put \/ Get \/ Close \/ Renew

Spec == Init /\ [][Next]_<<inside, open>>
=============================================================================
