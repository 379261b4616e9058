--------------------------- MODULE FramePromise ---------------------------
(***************************************************************************)
(* What sync objects are for: the work on one frame buffer, in the order   *)
(* the application asked for it.  "draw" work of the renderer runs in      *)
(* order with other drawing, a "flip" (the application's display callback) *)
(* in order with other flips; a flip never begins before the drawing asked *)
(* for earlier is finished, nor drawing before the flips asked for earlier *)
(* are.  How: SceGxm, the display thread and the renderer, not told here.  *)
(***************************************************************************)
EXTENDS Naturals, Sequences

CONSTANT Buffers

VARIABLES
  asked,      (* for each buffer, the kinds of work asked for, in order    *)
  begun,      (* the positions in that order of the work begun             *)
  finished    (* and of the work that is over                              *)

Kinds == {"draw", "flip"}

Init ==
  /\ asked = [b \in Buffers |-> <<>>]
  /\ begun = [b \in Buffers |-> {}] /\ finished = [b \in Buffers |-> {}]

Ask(B, kind) ==
  /\ asked' = [b \in Buffers |-> IF b \in B THEN Append(asked[b], kind) ELSE asked[b]]
  /\ UNCHANGED <<begun, finished>>

MayBegin(b, p) ==
  /\ p \notin begun[b]
  /\ \A q \in 1..(p - 1) :
       q \in IF asked[b][q] = asked[b][p] THEN begun[b] ELSE finished[b]

(* One flip shows one buffer and takes another down: a step may be about    *)
(* several buffers, but about one piece of work on each.                    *)
Begin ==
  /\ DOMAIN begun' = Buffers /\ UNCHANGED <<asked, finished>>
  /\ \A b \in Buffers :
       \/ begun'[b] = begun[b]
       \/ \E p \in DOMAIN asked[b] : MayBegin(b, p) /\ begun'[b] = begun[b] \cup {p}

Finish ==
  /\ DOMAIN finished' = Buffers /\ UNCHANGED <<asked, begun>>
  /\ \A b \in Buffers :
       \/ finished'[b] = finished[b]
       \/ \E p \in begun[b] \ finished[b] : finished'[b] = finished[b] \cup {p}

Next == (\E B \in SUBSET Buffers, kind \in Kinds : Ask(B, kind)) \/ Begin \/ Finish

Spec == Init /\ [][Next]_<<asked, begun, finished>>
=============================================================================
