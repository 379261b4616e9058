------------------------------ MODULE PagePool ------------------------------
(***************************************************************************)
(* What the page allocator of mem/ promises: pages are handed out in       *)
(* blocks that share none; a request gets the lowest place it fits in,     *)
(* cut at the front to its alignment; it is refused only when it fits      *)
(* nowhere; and a block given back is all there is to give back.           *)
(***************************************************************************)
EXTENDS Integers

CONSTANTS
  PageCount,
  Requests   (* what is asked: [count, start, align]                       *)

VARIABLES
  taken,   (* the blocks: [first, count]                                   *)
  answer   (* the last request and what came of it                         *)

Pages(block) == block.first .. block.first + block.count - 1

Fits(first, count) ==
  /\ first + count <= PageCount
  /\ \A b \in taken : Pages(b) \cap (first .. first + count - 1) = {}

Lowest(first, count, start) ==
  /\ first >= start /\ Fits(first, count)
  /\ \A lower \in start .. first - 1 : ~Fits(lower, count)

Aligned(first, align) == ((first + align - 1) \div align) * align

Init == taken = {} /\ answer = "nothing"

Take(r) ==
  \E lowest \in r.start .. PageCount :
     LET first == Aligned(lowest, r.align) IN
     /\ Lowest(lowest, r.count, r.start)
     /\ taken' = taken \cup {[first |-> first, count |-> r.count - (first - lowest)]}
     /\ answer' = [request |-> r, page |-> first]

Refuse(r) ==
  /\ \A first \in r.start .. PageCount : ~Fits(first, r.count)
  /\ answer' = [request |-> r, page |-> 0]
  /\ UNCHANGED taken

Give(block) == taken' = taken \ {block} /\ UNCHANGED answer

Next ==
  \/ \E r \in Requests : Take(r) \/ Refuse(r)
  \/ \E block \in taken : Give(block)

Spec == Init /\ [][Next]_<<taken, answer>>
=============================================================================
