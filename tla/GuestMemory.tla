---------------------------- MODULE GuestMemory ----------------------------
(***************************************************************************)
(* Guest memory in pages: alloc(), alloc_aligned() and free() of           *)
(* mem/src/mem.cpp over the bitmap and alloc_table, and their callers: the *)
(* C library (malloc, memalign, free; thread stacks ask the same way) and  *)
(* the memory blocks of SceSysmem.  Each runs under generation_mutex from  *)
(* end to end, so a call is one step.                                      *)
(*                                                                         *)
(* Callers are taken to give back what they hold, once; free(NULL), which  *)
(* C allows, is there.  alloc_at(), VM blocks and the protection of pages  *)
(* are left out.                                                           *)
(***************************************************************************)
EXTENDS Integers, FiniteSets, FiniteSetsExt

CONSTANTS
  PageSize,        (* bytes of a page                                       *)
  WordBits,        (* bits of a word of the bitmap                          *)
  MaxOffset,       (* pages there are; an address has just enough bits      *)
  UserStart,       (* user_main_memory_start                                *)
  Sizes,           (* bytes asked of malloc and memalign                    *)
  Alignments,      (* asked of memalign, and in optp of a block             *)
  BlockTypes, BlockSizes,
  TypeStart, TypeAlignment,  (* start_address and min_alignment of a type   *)
  MaxHeld          (* bound: allocations that are out at a time             *)

TotalSize == MaxOffset * PageSize

ASSUME GuestMemoryAssumption ==
  /\ PageSize \in Nat \ {0} /\ WordBits \in Nat \ {0} /\ MaxOffset \in Nat \ {0, 1}
  /\ MaxOffset % WordBits = 0 /\ MaxHeld \in Nat
  /\ Sizes \subseteq Nat /\ Alignments \subseteq Nat \ {0} /\ BlockSizes \subseteq Nat \ {0}
  /\ \A start \in {UserStart} \cup {TypeStart[k] : k \in BlockTypes} :
       start \in PageSize .. TotalSize - 1 /\ start % (WordBits * PageSize) = 0
  /\ \A k \in BlockTypes : TypeAlignment[k] \in Nat \ {0}

VARIABLES
  free,         (* allocator.words: the free pages                          *)
  alloc_table,  (* for a page: allocated, and the size of what starts there *)
  blocks,       (* SysmemState::blocks, a block being its base and size     *)
  held,         (* history: what malloc and memalign gave and nobody freed  *)
  answer        (* history: the last request, and the page it got           *)

memoryVars == <<free, alloc_table, blocks, held, answer>>

AllPages == 0 .. MaxOffset - 1

Bitmap == INSTANCE BitmapAllocator

Aligned(x, alignment) == ((x + alignment - 1) \div alignment) * alignment

(* align(size, page_size) / page_size, in the bits of an address.          *)
PagesOf(size) == (Aligned(size, PageSize) % TotalSize) \div PageSize

(* The size a page keeps when it is not allocated any more is left out     *)
(* unless a legal call can read it again, which is free(NULL) twice; that  *)
(* holders free allocated pages only is part of PagesAccounted.            *)
Vacant(page) == [allocated |-> FALSE, size |-> IF page = 0 THEN 1 ELSE 0]

MemoryInit ==  (* init(): everything is free but the null page. *)
  /\ free = Bitmap!TakeBits(Bitmap!SetMaximum, 0, 1)
  /\ alloc_table = [p \in AllPages |-> [Vacant(p) EXCEPT !.allocated = p = 0]]
  /\ blocks = {} /\ held = {} /\ answer = "nothing"

(* Mutant of Occupy: what was cut off in front stays in the block's size.  *)
OccupyUncut(page, first, count) ==
  /\ free' = Bitmap!Free(Bitmap!TakeBits(free, page, count), page, first - page)
  /\ alloc_table' = [alloc_table EXCEPT ![page] = Vacant(page),
                                        ![first] = [allocated |-> TRUE, size |-> count]]

(* count pages from page on are taken; those in front of first go back.    *)
Occupy(page, first, count) ==
  /\ free' = Bitmap!Free(Bitmap!TakeBits(free, page, count), page, first - page)
  /\ alloc_table' =
       [alloc_table EXCEPT ![page] = Vacant(page),
                           ![first] = [allocated |-> TRUE, size |-> count - (first - page)]]

(* x & -x: the largest power of two that divides x, a power of two being a *)
(* number that has no odd divisor but 1.                                    *)
LowestBit(x) ==
  Max({a \in 1 .. x : x % a = 0 /\ \A d \in 2 .. a : a % d = 0 => d % 2 = 0})

BlockAlignment(type, size, alignment) ==
  Max({TypeAlignment[type], alignment, LowestBit(size)})

(* What a call asks of the pages.  alloc_aligned asks for room to move.    *)
Plain(size) == [count |-> PagesOf(size), start |-> UserStart, align |-> 1]
Roomy(size, alignment, start) ==
  [count |-> PagesOf((size + alignment) % TotalSize), start |-> start, align |-> alignment]

Found(ask) == Bitmap!Scan(free, ask.start \div PageSize, ask.count)
FirstPage(ask) == Aligned(Found(ask) * PageSize, ask.align) \div PageSize

Asks ==
  {Plain(size) : size \in Sizes} \cup
  {Roomy(size, alignment, UserStart) : size \in Sizes, alignment \in Alignments} \cup
  {Roomy(size, BlockAlignment(type, size, alignment), TypeStart[type]) :
     type \in BlockTypes, size \in BlockSizes, alignment \in Alignments}

Request(ask) == [count |-> ask.count, start |-> ask.start \div PageSize,
                 align |-> Max({1, ask.align \div PageSize})]

Obtain(ask) ==
  /\ Cardinality(held) + Cardinality(blocks) < MaxHeld
  /\ Found(ask) # Bitmap!None
  /\ Occupy(Found(ask), FirstPage(ask), ask.count)
  /\ answer' = [request |-> Request(ask), page |-> FirstPage(ask)]

Fail(ask) ==
  /\ Found(ask) = Bitmap!None
  /\ answer' = [request |-> Request(ask), page |-> 0]
  /\ UNCHANGED <<free, alloc_table, blocks, held>>

Holding(ask, size) == [at |-> FirstPage(ask) * PageSize, size |-> size]

Malloc(size) ==
  \/ Obtain(Plain(size)) /\ held' = held \cup {Holding(Plain(size), size)} /\ UNCHANGED blocks
  \/ Fail(Plain(size))

Memalign(alignment, size) ==
  LET ask == Roomy(size, alignment, UserStart) IN
  \/ Obtain(ask) /\ held' = held \cup {Holding(ask, size)} /\ UNCHANGED blocks
  \/ Fail(ask)

AllocMemBlock(type, size, alignment) ==
  LET ask == Roomy(size, BlockAlignment(type, size, alignment), TypeStart[type])
  IN  \/ Obtain(ask) /\ blocks' = blocks \cup {Holding(ask, size)} /\ UNCHANGED held
      \/ Fail(ask)

(* free(): the table knows how much.                                       *)
FreePages(address) ==
  LET page == address \div PageSize IN
  /\ alloc_table' = [alloc_table EXCEPT ![page] = Vacant(page)]
  /\ free' = Bitmap!Free(free, page, alloc_table[page].size)
  /\ UNCHANGED answer

LibcFree(h) == FreePages(h.at) /\ held' = held \ {h} /\ UNCHANGED blocks
LibcFreeNull == FreePages(0) /\ UNCHANGED <<held, blocks>>
FreeMemBlock(b) == FreePages(b.at) /\ blocks' = blocks \ {b} /\ UNCHANGED held

MemoryNext ==
  \/ \E size \in Sizes : Malloc(size)
  \/ \E alignment \in Alignments, size \in Sizes : Memalign(alignment, size)
  \/ \E type \in BlockTypes, size \in BlockSizes, alignment \in Alignments :
        AllocMemBlock(type, size, alignment)
  \/ \E h \in held : LibcFree(h)
  \/ LibcFreeNull
  \/ \E b \in blocks : FreeMemBlock(b)

MemorySpec == MemoryInit /\ [][MemoryNext]_memoryVars

-----------------------------------------------------------------------------
Entries == {p \in AllPages : alloc_table[p].allocated}
EntryPages(p) == p .. p + alloc_table[p].size - 1
Holders == held \cup blocks

(* Bitmap and table tell the same story: a page above the null page is     *)
(* free exactly when no block of the table reaches over it, blocks share   *)
(* none, and every block has a holder (mem.cpp's two structures are only   *)
(* kept in step by hand, alloc_aligned changing each of them twice).       *)
PagesAccounted ==
  /\ \A p \in AllPages \ {0} : p \in free <=> \A q \in Entries : p \notin EntryPages(q)
  /\ \A p, q \in Entries \ {0} : p # q => EntryPages(p) \cap EntryPages(q) = {}
  /\ Entries \ {0} = {h.at \div PageSize : h \in Holders}

(* What a caller was given is its own until it gives it back: all its      *)
(* bytes lie in memory, in pages that are taken, and no other holder has a *)
(* byte there.                                                             *)
HoldersApart ==
  \A h \in Holders :
     /\ h.at + h.size <= TotalSize
     /\ \A b \in h.at .. h.at + h.size - 1 : b \div PageSize \notin free
     /\ \A g \in Holders \ {h} : g.at + g.size <= h.at \/ h.at + h.size <= g.at

(* Never are two holders given the same address: alloc_inner asserts that  *)
(* the page it returns is not allocated (mem.cpp:183).                      *)
AddressesDiffer == \A h, g \in Holders : h.at = g.at => h = g

(* The allocator keeps the promise of PagePool: blocks of the table are    *)
(* what is taken, every request gets the lowest fit and no refusal is      *)
(* without need.                                                           *)
Pool == INSTANCE PagePool WITH
  PageCount <- MaxOffset,
  Requests <- {Request(ask) : ask \in Asks},
  taken <- {[first |-> p, count |-> alloc_table[p].size] : p \in Entries \ {0}}

PoolPromise == Pool!Spec
=============================================================================
