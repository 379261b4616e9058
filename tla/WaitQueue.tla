------------------------------ MODULE WaitQueue ------------------------------
(***************************************************************************)
(* The queue of sleeping guest threads that every kernel primitive keeps   *)
(* (ThreadDataQueue<WaitingThreadData> of thread_data_queue.h): a std::list*)
(* for a FIFO primitive, a std::multiset ordered by the thread's priority  *)
(* for one created with SCE_KERNEL_ATTR_TH_PRIO.                           *)
(*                                                                         *)
(* A queue is a sequence of records, one per sleeper, with at least the    *)
(* field "thread"; the other fields are the request the sleeper made.      *)
(***************************************************************************)
EXTENDS Integers, FiniteSets, SequencesExt

CONSTANTS
  Threads,     (* the guest threads                                         *)
  Priority,    (* ThreadState::priority; a smaller number is more urgent    *)
  ByPriority   (* the primitive has SCE_KERNEL_ATTR_TH_PRIO                 *)

ASSUME QueueAssumption ==
  /\ IsFiniteSet(Threads)
  /\ Priority \in [Threads -> Int]
  /\ ByPriority \in BOOLEAN

(* The key a queue is ordered by: all sleepers of a list compare equal.     *)
Rank(t) == IF ByPriority THEN Priority[t] ELSE 0

(* Mutant of Push: the priority is ignored.                                 *)
PushUnsorted(q, e) == Append(q, e)

(* Both push operations put an entry behind the entries it does not beat:   *)
(* push_back on the list, insertion at the upper bound in the multiset.     *)
Push(q, e) ==
  LET ahead == {i \in DOMAIN q : Rank(q[i].thread) <= Rank(e.thread)}
  IN  InsertAt(q, Cardinality(ahead) + 1, e)

(* erase of the iterator a sleeper was given when it was pushed.            *)
Erase(q, t) == RemoveAt(q, CHOOSE i \in DOMAIN q : q[i].thread = t)

(* The threads a queue holds, and "no thread is in it twice".               *)
Sleepers(q) == {q[i].thread : i \in DOMAIN q}
Distinct(q) == \A i, j \in DOMAIN q : q[i].thread = q[j].thread => i = j

(* The threads that nobody who comes later is queued in front of.           *)
NeverPassed == {t \in Threads : \A u \in Threads : Rank(t) <= Rank(u)}

(* begin() is the entry to serve: nobody behind it is more urgent.          *)
Ordered(q) ==
  \A i, j \in DOMAIN q : i < j => Rank(q[i].thread) <= Rank(q[j].thread)
=============================================================================
