-------------------------- MODULE BitmapAllocator --------------------------
(***************************************************************************)
(* BitmapAllocator of mem/src/allocator.cpp: one bit for every page, set   *)
(* while the page is free, in words of WordBits bits.  The words are taken *)
(* as the set of the positions whose bit is set, the first bit of the      *)
(* first word being 0.  best_fit is left out: no caller asks for it.       *)
(***************************************************************************)
EXTENDS Integers, FiniteSets

CONSTANTS WordBits, MaxOffset

WordCount == MaxOffset \div WordBits + (IF MaxOffset % WordBits # 0 THEN 1 ELSE 0)
TotalBits == WordCount * WordBits

None == -1

(* set_maximum() on an allocator without words: all bits are set, those of *)
(* the last word that lie past the maximum too.                            *)
SetMaximum == 0 .. TotalBits - 1

(* force_fill() touches the bits of a range as far as there are words.     *)
Touched(offset, size) == (offset .. offset + size - 1) \cap (0 .. TotalBits - 1)

(* Mutant of TakeBits: only the bits of the first word are taken.           *)
FillWhole(free, offset, size) ==
  free \ {b \in Touched(offset, size) : b \div WordBits = offset \div WordBits}

TakeBits(free, offset, size) == free \ Touched(offset, size)
Free(free, offset, size) ==
  IF offset >= MaxOffset THEN free ELSE free \cup Touched(offset, size)

(* For every position the number of free bits from there on.               *)
Runs(free) ==
  LET run[i \in 0 .. TotalBits] == IF i \in free THEN 1 + run[i + 1] ELSE 0
  IN  run

(* Mutant of Finds: a run that fits exactly is passed over.                 *)
FindsLonger(free, size) ==
  LET run == Runs(free)
      from[i \in 0 .. TotalBits + 1] ==
        IF i >= TotalBits THEN None
        ELSE IF i \in free /\ run[i] > size /\ i + size <= MaxOffset THEN i
        ELSE from[i + run[i] + 1]
  IN  from

(* For every position what the search finds from there on: one run of free *)
(* bits after the other; the run's first bit if it is long enough and ends *)
(* in time, else on behind the bit that ended it.                          *)
Finds(free, size) ==
  LET run == Runs(free)
      from[i \in 0 .. TotalBits + 1] ==
        IF i >= TotalBits THEN None
        ELSE IF i \in free /\ run[i] >= size /\ i + size <= MaxOffset THEN i
        ELSE from[i + run[i] + 1]
  IN  from

(* allocate_from() searches from the first bit of start's word on.         *)
Scan(free, start, size) == Finds(free, size)[(start \div WordBits) * WordBits]
=============================================================================
