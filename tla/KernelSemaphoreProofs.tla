------------------------ MODULE KernelSemaphoreProofs ------------------------
(***************************************************************************)
(* The safety of KernelSemaphore for every number of threads, every limit  *)
(* and every positive count a guest may pass.                              *)
(***************************************************************************)
EXTENDS KernelSemaphore, WaitQueueTheorems, WellFoundedInduction

(* What the properties need to be inductive: only the thread inside a       *)
(* wake-up loop holds the lock, and a sleeper asked for a positive count.   *)
LockHolder ==
  \A t \in Threads : pc[t] \in {"signaling", "canceling"} <=> lock = t
SleepersAsk == \A t \in Threads : pc[t] = "asleep" => arg[t] \in Nat

IInv ==
  TypeOK /\ ValueInRange /\ QueueMatchesStatus /\ LockHolder /\ SleepersAsk

LEMMA EmptyQueue == Distinct(<<>>) /\ ToSet(<<>>) = {} /\ Sleepers(<<>>) = {}
BY DEF Distinct, ToSet, Sleepers

LEMMA InitIInv == Init => IInv
<1> SUFFICES ASSUME Init PROVE IInv
  OBVIOUS
<1> USE SemaphoreAssumption DEF Init
<1>1. TypeOK
  <2>1. waiting \in Seq(Entry)
    BY EmptySeq
  <2>2. /\ pc \in [Threads -> {"idle", "found", "asleep", "signaling", "canceling",
                             "erasing"}]
        /\ status \in [Threads -> {"run", "wait"}]
    OBVIOUS
  <2>3. arg \in [Threads -> Int] /\ canceled \in SUBSET Threads
    OBVIOUS
  <2>4. val \in Nat /\ credit \in Int
    OBVIOUS
  <2>5. registered \in BOOLEAN /\ lock \in Threads \cup {NoThread}
    OBVIOUS
  <2> QED
    BY <2>1, <2>2, <2>3, <2>4, <2>5 DEF TypeOK
<1>2. QueueMatchesStatus
  BY EmptyQueue DEF QueueMatchesStatus
<1> QED
  BY <1>1, <1>2 DEF IInv, ValueInRange, LockHolder, SleepersAsk

-----------------------------------------------------------------------------
(* The three ways a step can touch the queue                                *)

(* Steps that leave the queue and every sleeper alone.                      *)
LEMMA QuietQueue ==
  ASSUME IInv, UNCHANGED <<waiting, status>>, NEW t \in Threads,
         status[t] = "run",
         \A u \in Threads \ {t} :
           pc'[u] = pc[u] /\ arg'[u] = arg[u] /\ (u \in canceled' <=> u \in canceled)
  PROVE  QueueMatchesStatus'
BY DEF IInv, TypeOK, QueueMatchesStatus, Distinct, Sleepers, ToSet

(* A thread falls asleep.                                                   *)
LEMMA Enqueue ==
  ASSUME IInv, NEW t \in Threads, NEW n \in Nat, WaitSleep(t, n)
  PROVE  /\ waiting' \in Seq(Entry) /\ QueueMatchesStatus'
<1> USE DEF WaitSleep, Entering, Goto
<1> DEFINE e == [thread |-> t, signal |-> n]
<1>0. /\ e \in Entry /\ waiting \in Seq(Entry) /\ Distinct(waiting)
      /\ status[t] = "run" /\ t \notin Sleepers(waiting)
  BY DEF Entry, IInv, TypeOK, QueueMatchesStatus
<1>1. waiting' \in Seq(Entry) /\ ToSet(waiting') = ToSet(waiting) \cup {e}
  BY <1>0, PushContents
<1>2. Distinct(waiting')
  BY <1>0, PushDistinct
<1>3. Sleepers(waiting') = Sleepers(waiting) \cup {t}
  BY <1>1, SleepersOfEntries
<1>4. ASSUME NEW u \in Threads
      PROVE  status'[u] = "wait" <=> u \in Sleepers(waiting')
  BY <1>3 DEF IInv, TypeOK, QueueMatchesStatus
<1>5. ASSUME NEW u \in Threads, status'[u] = "wait"
      PROVE  /\ pc'[u] = "asleep" /\ u \notin canceled'
             /\ [thread |-> u, signal |-> arg'[u]] \in ToSet(waiting')
  BY <1>1, <1>5 DEF IInv, TypeOK, QueueMatchesStatus
<1> QED
  BY <1>1, <1>2, <1>4, <1>5 DEF QueueMatchesStatus, Distinct, Sleepers, ToSet

(* A sleeper leaves the queue: woken, canceled or timed out.                *)
LEMMA Dequeue ==
  ASSUME IInv, NEW t \in Threads, status[t] = "wait",
         Distinct(waiting'),
         ToSet(waiting') = {x \in ToSet(waiting) : x.thread # t},
         status' = [status EXCEPT ![t] = "run"],
         \A u \in Threads \ {t} :
           pc'[u] = pc[u] /\ arg'[u] = arg[u] /\ (u \in canceled' <=> u \in canceled)
  PROVE  QueueMatchesStatus'
<1>1. Sleepers(waiting') = Sleepers(waiting) \ {t}
  BY SleepersOfEntries
<1>2. ASSUME NEW u \in Threads
      PROVE  status'[u] = "wait" <=> u \in Sleepers(waiting')
  BY <1>1 DEF IInv, TypeOK, QueueMatchesStatus
<1>3. ASSUME NEW u \in Threads, status'[u] = "wait"
      PROVE  /\ pc'[u] = "asleep" /\ u \notin canceled'
             /\ [thread |-> u, signal |-> arg'[u]] \in ToSet(waiting')
  BY <1>3 DEF IInv, TypeOK, QueueMatchesStatus
<1> QED
  BY <1>2, <1>3 DEF QueueMatchesStatus, Distinct, Sleepers, ToSet

(* What a turn of a wake-up loop finds at the head.                         *)
LEMMA HeadSleeps ==
  ASSUME IInv, waiting # <<>>
  PROVE  /\ Head(waiting) \in Entry /\ Head(waiting).thread \in Threads
         /\ status[Head(waiting).thread] = "wait"
         /\ pc[Head(waiting).thread] = "asleep"
         /\ Tail(waiting) \in Seq(Entry) /\ Distinct(Tail(waiting))
         /\ ToSet(Tail(waiting)) =
              {x \in ToSet(waiting) : x.thread # Head(waiting).thread}
<1>1. waiting \in Seq(Entry) /\ Distinct(waiting)
  BY DEF IInv, TypeOK, QueueMatchesStatus
<1>2. /\ Head(waiting) \in Entry /\ Head(waiting).thread \in Sleepers(waiting)
      /\ Tail(waiting) \in Seq(Entry) /\ Distinct(Tail(waiting))
      /\ ToSet(Tail(waiting)) =
           {x \in ToSet(waiting) : x.thread # Head(waiting).thread}
  BY <1>1, TailContents
<1>3. Head(waiting).thread \in Threads
  BY <1>2 DEF Entry
<1> QED
  BY <1>2, <1>3 DEF IInv, QueueMatchesStatus

-----------------------------------------------------------------------------
(* The steps of each call                                                   *)

LEMMA CreateKeepsIInv == IInv /\ CreateSemaphore => IInv'
<1> SUFFICES ASSUME IInv, CreateSemaphore PROVE IInv'
  OBVIOUS
<1> USE SemaphoreAssumption DEF CreateSemaphore
<1>1. \A u \in Threads : status[u] = "run"
  BY DEF IInv, TypeOK, QueueMatchesStatus
<1>2. TypeOK'
  <2>1. waiting' \in Seq(Entry)
    BY EmptySeq
  <2> QED
    BY <2>1 DEF IInv, TypeOK
<1>3. QueueMatchesStatus'
  BY <1>1, EmptyQueue DEF QueueMatchesStatus
<1> QED
  BY <1>2, <1>3 DEF IInv, ValueInRange, LockHolder, SleepersAsk

LEMMA CallKeepsIInv ==
  ASSUME IInv, NEW t \in Threads,
         FindSemaphore(t) \/ DeleteCheck(t) \/ DeleteErase(t)
  PROVE  IInv'
<1> USE SemaphoreAssumption
    DEF FindSemaphore, DeleteCheck, DeleteErase, Goto
<1>0. /\ UNCHANGED <<val, waiting, lock, status, canceled, arg, credit>>
      /\ registered' \in BOOLEAN /\ pc[t] \in {"idle", "found", "erasing"}
      /\ \E label \in {"idle", "found", "erasing"} : pc' = [pc EXCEPT ![t] = label]
  BY DEF IInv, TypeOK
<1>1. status[t] = "run"
  BY <1>0 DEF IInv, TypeOK, QueueMatchesStatus
<1>2. TypeOK'
  BY <1>0 DEF IInv, TypeOK
<1>3. QueueMatchesStatus'
  BY <1>0, <1>1, QuietQueue DEF IInv, TypeOK
<1>4. ValueInRange' /\ LockHolder' /\ SleepersAsk'
  BY <1>0 DEF IInv, TypeOK, ValueInRange, LockHolder, SleepersAsk
<1> QED
  BY <1>2, <1>3, <1>4 DEF IInv

LEMMA WaitKeepsIInv ==
  ASSUME IInv, NEW t \in Threads, NEW n \in Needs,
         WaitTake(t, n) \/ WaitPoll(t, n) \/ WaitSleep(t, n)
  PROVE  IInv'
<1> USE SemaphoreAssumption
    DEF WaitTake, WaitPoll, WaitSleep, Entering, Goto
<1>0. pc[t] = "found" /\ lock = NoThread /\ lock' = lock /\ n \in Nat
      /\ status[t] = "run"
  BY DEF IInv, TypeOK, QueueMatchesStatus
<1>1. LockHolder' /\ SleepersAsk'
  BY <1>0 DEF IInv, TypeOK, LockHolder, SleepersAsk
<1>2. CASE WaitTake(t, n) \/ WaitPoll(t, n)
  <2>1. QueueMatchesStatus'
    BY <1>0, <1>2, QuietQueue DEF IInv, TypeOK
  <2>2. val' \in Nat /\ val' <= MaxVal /\ credit' \in Int
    BY <1>0, <1>2 DEF IInv, TypeOK, ValueInRange
  <2>0. /\ UNCHANGED <<registered, waiting, lock, status, canceled, arg>>
        /\ pc' = [pc EXCEPT ![t] = "idle"]
    BY <1>2
  <2>3. TypeOK' /\ ValueInRange'
    BY <2>0, <2>2 DEF IInv, TypeOK, ValueInRange
  <2> QED
    BY <1>1, <2>1, <2>3 DEF IInv
<1>3. CASE WaitSleep(t, n)
  <2>1. waiting' \in Seq(Entry) /\ QueueMatchesStatus'
    BY <1>0, <1>3, Enqueue
  <2>2. TypeOK' /\ ValueInRange'
    BY <1>0, <1>3, <2>1 DEF IInv, TypeOK, ValueInRange
  <2> QED
    BY <1>1, <2>1, <2>2 DEF IInv
<1> QED
  BY <1>2, <1>3

LEMMA WokenKeepsIInv ==
  ASSUME IInv, NEW t \in Threads, Woken(t)
  PROVE  IInv'
<1> USE SemaphoreAssumption DEF Woken, Goto
<1>1. QueueMatchesStatus'
  BY QuietQueue DEF IInv, TypeOK
<1>2. TypeOK' /\ ValueInRange'
  BY DEF IInv, TypeOK, ValueInRange
<1>3. LockHolder' /\ SleepersAsk'
  BY DEF IInv, TypeOK, LockHolder, SleepersAsk
<1> QED
  BY <1>1, <1>2, <1>3 DEF IInv

LEMMA TimeOutKeepsIInv ==
  ASSUME IInv, NEW t \in Threads, TimeOut(t)
  PROVE  IInv'
<1> USE SemaphoreAssumption DEF TimeOut, Goto
<1>0. waiting \in Seq(Entry) /\ Distinct(waiting) /\ t \in Sleepers(waiting)
  BY DEF IInv, TypeOK, QueueMatchesStatus
<1>1. /\ waiting' \in Seq(Entry) /\ Distinct(waiting')
      /\ ToSet(waiting') = {x \in ToSet(waiting) : x.thread # t}
  BY <1>0, EraseContents
<1>2. QueueMatchesStatus'
  BY <1>1, Dequeue DEF IInv, TypeOK
<1>3. TypeOK' /\ ValueInRange'
  BY <1>1 DEF IInv, TypeOK, ValueInRange
<1>4. LockHolder' /\ SleepersAsk'
  BY DEF IInv, TypeOK, LockHolder, SleepersAsk
<1> QED
  BY <1>2, <1>3, <1>4 DEF IInv

LEMMA SignalKeepsIInv ==
  ASSUME IInv, NEW t \in Threads, Signal(t)
  PROVE  IInv'
<1> USE SemaphoreAssumption DEF Entering, Goto
<1>1. ASSUME NEW n \in Signals, SignalAdd(t, n) \/ SignalOverflow(t, n) PROVE IInv'
  <2> USE <1>1 DEF SignalAdd, SignalOverflow
  <2>0. status[t] = "run" /\ n \in Nat
    BY DEF IInv, TypeOK, QueueMatchesStatus
  <2>1. QueueMatchesStatus'
    BY <2>0, QuietQueue DEF IInv, TypeOK
  <2>2. TypeOK' /\ ValueInRange'
    BY <2>0 DEF IInv, TypeOK, ValueInRange
  <2>3. LockHolder' /\ SleepersAsk'
    BY DEF IInv, TypeOK, LockHolder, SleepersAsk
  <2> QED
    BY <2>1, <2>2, <2>3 DEF IInv
<1>2. CASE SignalWake(t)
  <2> USE <1>2 DEF SignalWake, HeadServed
  <2>1. QueueMatchesStatus'
    BY HeadSleeps, Dequeue
  <2>a. Head(waiting).signal \in Nat /\ Tail(waiting) \in Seq(Entry)
    BY HeadSleeps DEF Entry
  <2>b. val \in 0..MaxVal /\ val' \in 0..MaxVal /\ val' \in Nat
    BY <2>a DEF IInv, TypeOK, ValueInRange
  <2>c. status' \in [Threads -> {"run", "wait"}]
    BY DEF IInv, TypeOK
  <2>2. TypeOK' /\ ValueInRange'
    BY <2>a, <2>b, <2>c DEF IInv, TypeOK, ValueInRange
  <2>3. LockHolder' /\ SleepersAsk'
    BY DEF IInv, TypeOK, LockHolder, SleepersAsk
  <2> QED
    BY <2>1, <2>2, <2>3 DEF IInv
<1>3. CASE SignalDone(t)
  <2> USE <1>3 DEF SignalDone
  <2>0. status[t] = "run"
    BY DEF IInv, TypeOK, QueueMatchesStatus
  <2>1. QueueMatchesStatus'
    BY <2>0, QuietQueue DEF IInv, TypeOK
  <2>2. TypeOK' /\ ValueInRange'
    BY DEF IInv, TypeOK, ValueInRange
  <2>3. LockHolder' /\ SleepersAsk'
    BY DEF IInv, TypeOK, LockHolder, SleepersAsk
  <2> QED
    BY <2>1, <2>2, <2>3 DEF IInv
<1> QED
  BY <1>1, <1>2, <1>3 DEF Signal

LEMMA CancelKeepsIInv ==
  ASSUME IInv, NEW t \in Threads, Cancel(t)
  PROVE  IInv'
<1> USE SemaphoreAssumption DEF Entering, Goto
<1>1. ASSUME NEW n \in SetCounts, CancelStart(t, n) PROVE IInv'
  <2> USE <1>1 DEF CancelStart
  <2>0. status[t] = "run" /\ n \in Int
    BY DEF IInv, TypeOK, QueueMatchesStatus
  <2>1. QueueMatchesStatus'
    BY <2>0, QuietQueue DEF IInv, TypeOK
  <2>2. TypeOK' /\ ValueInRange'
    BY <2>0 DEF IInv, TypeOK, ValueInRange
  <2>3. LockHolder' /\ SleepersAsk'
    BY DEF IInv, TypeOK, LockHolder, SleepersAsk
  <2> QED
    BY <2>1, <2>2, <2>3 DEF IInv
<1>2. CASE CancelWake(t)
  <2> USE <1>2 DEF CancelWake
  <2>1. QueueMatchesStatus'
    BY HeadSleeps, Dequeue
  <2>2. TypeOK' /\ ValueInRange'
    <3>1. Tail(waiting) \in Seq(Entry)
      BY HeadSleeps
    <3>2. status' \in [Threads -> {"run", "wait"}]
      BY DEF IInv, TypeOK
    <3> QED
      BY <3>1, <3>2 DEF IInv, TypeOK, ValueInRange
  <2>3. LockHolder' /\ SleepersAsk'
    BY DEF IInv, TypeOK, LockHolder, SleepersAsk
  <2> QED
    BY <2>1, <2>2, <2>3 DEF IInv
<1>3. CASE CancelDone(t)
  <2> USE <1>3 DEF CancelDone
  <2>0. status[t] = "run"
    BY DEF IInv, TypeOK, QueueMatchesStatus
  <2>1. QueueMatchesStatus'
    BY <2>0, QuietQueue DEF IInv, TypeOK
  <2>2. val' \in 0..MaxVal /\ val' \in Nat
    BY DEF IInv, TypeOK, ValueInRange
  <2>3. TypeOK' /\ ValueInRange'
    BY <2>2 DEF IInv, TypeOK, ValueInRange
  <2>4. LockHolder' /\ SleepersAsk'
    BY DEF IInv, TypeOK, LockHolder, SleepersAsk
  <2> QED
    BY <2>1, <2>3, <2>4 DEF IInv
<1> QED
  BY <1>1, <1>2, <1>3 DEF Cancel

-----------------------------------------------------------------------------
LEMMA NextKeepsIInv == IInv /\ [Next]_vars => IInv'
<1> SUFFICES ASSUME IInv, [Next]_vars PROVE IInv'
  OBVIOUS
<1>1. CASE UNCHANGED vars
  BY <1>1 DEF vars, IInv, TypeOK, ValueInRange, QueueMatchesStatus, Distinct,
     Sleepers, ToSet, LockHolder, SleepersAsk
<1>2. CASE CreateSemaphore
  BY <1>2, CreateKeepsIInv
<1>3. ASSUME NEW t \in Threads,
             \/ FindSemaphore(t) \/ Wait(t) \/ Woken(t) \/ TimeOut(t)
             \/ Signal(t) \/ Cancel(t) \/ DeleteCheck(t) \/ DeleteErase(t)
      PROVE  IInv'
  BY <1>3, CallKeepsIInv, WaitKeepsIInv, WokenKeepsIInv, TimeOutKeepsIInv,
     SignalKeepsIInv, CancelKeepsIInv DEF Wait
<1> QED
  BY <1>1, <1>2, <1>3 DEF Next

LEMMA SpecIInv == Spec => []IInv
BY InitIInv, NextKeepsIInv, PTL DEF Spec

(* Type correctness of the semaphore and its queue.                         *)
THEOREM SemaphoreTypeCorrect == Spec => []TypeOK
BY SpecIInv, PTL DEF IInv

(* The value stays within 0..max, whatever the calls and their order.       *)
THEOREM SemaphoreValueInRange == Spec => []ValueInRange
BY SpecIInv, PTL DEF IInv

(* Sleeping and being queued are one thing, and the canceled are not queued. *)
THEOREM SemaphoreQueueMatchesStatus == Spec => []QueueMatchesStatus
BY SpecIInv, PTL DEF IInv

(* Only the time-out of the first sleeper can leave a sleeper behind that   *)
(* there are enough units for.                                              *)
THEOREM SemaphoreStrandsOnlyByTimeOut == Spec => StrandedOnlyByTimeOut
<1>1. ASSUME IInv, [Next]_vars
      PROVE  [HeadBlocked => HeadBlocked' \/ HeadTimesOut]_vars
  <2> SUFFICES ASSUME Next, HeadBlocked, lock' = NoThread, HeadServed'
               PROVE  HeadTimesOut
    BY <1>1 DEF HeadBlocked
  <2> USE SemaphoreAssumption DEF HeadBlocked, HeadServed
  <2>0. waiting \in Seq(Entry) /\ Distinct(waiting)
    BY <1>1 DEF IInv, TypeOK, QueueMatchesStatus
  <2>1. CASE CreateSemaphore
    BY <2>1 DEF CreateSemaphore
  <2>2. ASSUME NEW t \in Threads,
               \/ FindSemaphore(t) \/ Woken(t) \/ DeleteCheck(t) \/ DeleteErase(t)
               \/ \E n \in Signals : SignalOverflow(t, n)
               \/ \E n \in Needs : WaitPoll(t, n)
        PROVE  FALSE
    BY <2>2 DEF FindSemaphore, Woken, DeleteCheck, DeleteErase, SignalOverflow, WaitPoll
  <2>3. ASSUME NEW t \in Threads, NEW n \in Needs, WaitTake(t, n)
        PROVE  FALSE
    <3>1. Head(waiting).signal \in Nat
      BY <2>0, <2>3, HeadSleeps, <1>1 DEF Entry, WaitTake
    <3> QED
      BY <1>1, <2>3, <3>1 DEF WaitTake, Entering, IInv, TypeOK
  <2>4. ASSUME NEW t \in Threads, NEW n \in Needs, WaitSleep(t, n)
        PROVE  FALSE
    <3> DEFINE e == [thread |-> t, signal |-> n]
    <3>1. e \in Entry /\ n \in Nat
      BY DEF Entry
    <3>2. Head(Push(waiting, e)) = e
          \/ (waiting # <<>> /\ Head(Push(waiting, e)) = Head(waiting))
      BY <2>0, <3>1, PushHead
    <3>3. CASE Head(Push(waiting, e)) = e
      BY <1>1, <2>4, <3>1, <3>3 DEF WaitSleep, IInv, TypeOK
    <3>4. CASE waiting # <<>> /\ Head(Push(waiting, e)) = Head(waiting)
      BY <2>4, <3>4 DEF WaitSleep, Entering
    <3> QED
      BY <3>2, <3>3, <3>4
  <2>5. ASSUME NEW t \in Threads, TimeOut(t)
        PROVE  HeadTimesOut
    <3>1. t \in Sleepers(waiting) /\ waiting # <<>>
      BY <1>1, <2>5, EmptyQueue DEF TimeOut, IInv, QueueMatchesStatus
    <3>2. CASE Head(waiting).thread = t
      BY <1>1, <2>5, <3>1, <3>2 DEF TimeOut, HeadTimesOut, Goto, IInv, TypeOK
    <3>3. CASE Head(waiting).thread # t
      <4>1. Head(waiting') = Head(waiting)
        BY <2>0, <2>5, <3>1, <3>3, EraseHead DEF TimeOut
      <4> QED
        BY <2>5, <3>1, <4>1 DEF TimeOut
    <3> QED
      BY <3>2, <3>3
  <2>6. ASSUME NEW t \in Threads,
               \/ \E n \in Signals : SignalAdd(t, n)
               \/ \E n \in SetCounts : CancelStart(t, n)
               \/ SignalDone(t) \/ CancelDone(t)
        PROVE  FALSE
    BY <2>6 DEF SignalAdd, CancelStart, SignalDone, CancelDone
  <2>7. ASSUME NEW t \in Threads, SignalWake(t) \/ CancelWake(t)
        PROVE  FALSE
    <3>1. lock = t
      BY <1>1, <2>7 DEF SignalWake, CancelWake, IInv, LockHolder
    <3> QED
      BY <2>7, <3>1 DEF SignalWake, CancelWake
  <2> QED
    BY <2>1, <2>2, <2>3, <2>4, <2>5, <2>6, <2>7 DEF Next, Wait, Signal, Cancel
<1> QED
  BY <1>1, SpecIInv, PTL DEF Spec, StrandedOnlyByTimeOut

-----------------------------------------------------------------------------
(* Sums over a finite set: what the folds of FiniteSetsExt compute does not *)
(* depend on the order they choose.  Each induction over the size of the set *)
(* is made as the search for a least counterexample.                        *)

Below == {mn \in Nat \X Nat : mn[1] < mn[2]}

LEMMA BelowWellFounded == IsWellFoundedOn(Below, Nat)
BY NatLessThanWellFounded, Zenon DEF OpToRel, Below

(* A set of natural numbers that is not empty has a least element.          *)
LEMMA Least ==
  ASSUME NEW T \in SUBSET Nat, T # {}
  PROVE  \E n \in T : \A m \in T : n <= m
<1>1. PICK n \in T : \A m \in T : ~ (<<m, n>> \in Below)
  BY BelowWellFounded, WFMin
<1>2. ASSUME NEW m \in T PROVE ~ (m < n)
  <2>1. <<m, n>> \notin Below
    BY <1>1
  <2> QED
    BY <2>1 DEF Below
<1> QED
  BY <1>2

(* g gives for each set of D the sum of f over it, in the order of CHOOSE.  *)
SumsOver(g, f, D) ==
  g = [X \in D |-> IF X = {} THEN 0
                   ELSE LET x == CHOOSE x \in X : TRUE IN f[x] + g[X \ {x}]]
Sums(g, f, S) == SumsOver(g, f, SUBSET S)
Total(f, S) == MapThenSumSet(LAMBDA x : f[x], S)

(* What a sum over X begins with.                                           *)
First(X) == CHOOSE x \in X : TRUE

LEMMA SumsOf ==
  ASSUME NEW g, NEW f, NEW D, SumsOver(g, f, D), NEW X \in D
  PROVE  g[X] = IF X = {} THEN 0 ELSE f[First(X)] + g[X \ {First(X)}]
BY DEF SumsOver, First

LEMMA FirstIn == \A X : X # {} => First(X) \in X
BY DEF First

(* The size of a set without one of its elements.                           *)
LEMMA TakeOne ==
  ASSUME NEW X, IsFiniteSet(X), NEW x \in X
  PROVE  /\ Cardinality(X) \in Nat /\ Cardinality(X) - 1 \in Nat
         /\ Cardinality(X \ {x}) = Cardinality(X) - 1
<1>1. /\ IsFiniteSet(X \ {x})
      /\ Cardinality(X \ {x}) = Cardinality(X) - 1
  BY FS_RemoveElement
<1>2. Cardinality(X) \in Nat /\ Cardinality(X \ {x}) \in Nat
  BY <1>1, FS_CardinalityType
<1> QED
  BY <1>1, <1>2

(* The recursion defines a function.                                        *)
LEMMA SumsExist ==
  ASSUME NEW f, NEW S, IsFiniteSet(S)
  PROVE  \E g : Sums(g, f, S)
<1> DEFINE Small(n) == {X \in SUBSET S : Cardinality(X) <= n}
           Bad == {n \in Nat : ~ \E g : SumsOver(g, f, Small(n))}
<1>1. \A X \in SUBSET S : IsFiniteSet(X) /\ Cardinality(X) \in Nat
  BY FS_Subset, FS_CardinalityType
<1>2. Bad = {}
  <2> SUFFICES ASSUME Bad # {} PROVE FALSE
    OBVIOUS
  <2>1. PICK n \in Bad : \A m \in Bad : n <= m
    BY Least
  <2>2. n # 0
    <3>1. SumsOver([X \in {{}} |-> 0], f, {{}})
      BY DEF SumsOver
    <3>2. Small(0) = {{}}
      BY <1>1, FS_EmptySet
    <3> QED
      BY <3>1, <3>2
  <2>3. n \in Nat /\ n - 1 \in Nat /\ n - 1 \notin Bad
    <3>1. Bad \subseteq Nat
      OBVIOUS
    <3> HIDE DEF Bad
    <3> QED
      BY <2>1, <2>2, <3>1
  <2>4. PICK g : SumsOver(g, f, Small(n - 1))
    BY <2>3
  <2> DEFINE h == [X \in Small(n) |-> IF X = {} THEN 0 ELSE f[First(X)] + g[X \ {First(X)}]]
  <2>5. ASSUME NEW X \in Small(n), X # {}
        PROVE  h[X \ {First(X)}] = g[X \ {First(X)}]
    <3> DEFINE Y == X \ {First(X)}
    <3>1. First(X) \in X
      BY <2>5, FirstIn
    <3>2. Cardinality(Y) = Cardinality(X) - 1
      BY <1>1, <3>1, FS_RemoveElement
    <3>3. Y \in Small(n) /\ Y \in Small(n - 1)
      BY <1>1, <2>3, <3>2
    <3>4. h[Y] = IF Y = {} THEN 0 ELSE f[First(Y)] + g[Y \ {First(Y)}]
      BY <3>3
    <3>5. g[Y] = IF Y = {} THEN 0 ELSE f[First(Y)] + g[Y \ {First(Y)}]
      BY <3>3, <2>4, SumsOf
    <3> QED
      BY <3>4, <3>5
  <2>6. SumsOver(h, f, Small(n))
    <3>1. h = [X \in Small(n) |-> IF X = {} THEN 0 ELSE f[First(X)] + h[X \ {First(X)}]]
      BY <2>5
    <3> HIDE DEF h
    <3> QED
      BY <3>1 DEF Sums, SumsOver, First
  <2> QED
    BY <2>1, <2>6
<1>3. Small(Cardinality(S)) = SUBSET S /\ Cardinality(S) \in Nat
  BY <1>1, FS_Subset
<1> QED
  BY <1>2, <1>3 DEF Sums

LEMMA SumsAreInt ==
  ASSUME NEW f, NEW S, IsFiniteSet(S), \A x \in S : f[x] \in Int,
         NEW g, Sums(g, f, S)
  PROVE  \A X \in SUBSET S : g[X] \in Int
<1> DEFINE Bad == {n \in Nat : \E X \in SUBSET S : Cardinality(X) = n /\ g[X] \notin Int}
<1>1. \A X \in SUBSET S : IsFiniteSet(X) /\ Cardinality(X) \in Nat
  BY FS_Subset, FS_CardinalityType
<1>2. Bad = {}
  <2> SUFFICES ASSUME Bad # {} PROVE FALSE
    OBVIOUS
  <2>1. PICK n \in Bad : \A m \in Bad : n <= m
    BY Least
  <2>2. PICK X \in SUBSET S : Cardinality(X) = n /\ g[X] \notin Int
    BY <2>1
  <2>3. X # {} /\ First(X) \in X /\ g[X] = f[First(X)] + g[X \ {First(X)}]
    <3>1. g[X] = IF X = {} THEN 0 ELSE f[First(X)] + g[X \ {First(X)}]
      BY SumsOf DEF Sums
    <3>2. X # {}
      BY <2>2, <3>1
    <3> QED
      BY <3>1, <3>2, FirstIn
  <2>4. Cardinality(X \ {First(X)}) = n - 1 /\ n \in Nat /\ n - 1 \in Nat
    BY <1>1, <2>2, <2>3, TakeOne
  <2>5. g[X \ {First(X)}] \in Int
    BY <2>1, <2>4
  <2> QED
    BY <2>2, <2>3, <2>5
<1> QED
  BY <1>1, <1>2

(* Any element may be added last.                                           *)
LEMMA SumsStep ==
  ASSUME NEW f, NEW S, IsFiniteSet(S), \A x \in S : f[x] \in Int,
         NEW g, Sums(g, f, S)
  PROVE  \A x \in S : g[S] = f[x] + g[S \ {x}]
<1> DEFINE Right(X) == \A x \in X : g[X] = f[x] + g[X \ {x}]
           Bad == {n \in Nat : \E X \in SUBSET S : Cardinality(X) = n /\ ~Right(X)}
<1>1. \A X \in SUBSET S : IsFiniteSet(X) /\ Cardinality(X) \in Nat
  BY FS_Subset, FS_CardinalityType
<1>2. Bad = {}
  <2> SUFFICES ASSUME Bad # {} PROVE FALSE
    OBVIOUS
  <2>1. PICK n \in Bad : \A m \in Bad : n <= m
    BY Least
  <2>2. PICK X \in SUBSET S : Cardinality(X) = n /\ ~Right(X)
    BY <2>1
  <2>3. X # {}
    BY <2>2
  <2> DEFINE c == First(X)
  <2>4. c \in X /\ g[X] = f[c] + g[X \ {c}]
    BY <2>3, SumsOf, FirstIn DEF Sums
  <2>5. ASSUME NEW x \in X PROVE Right(X \ {x})
    <3>1. Cardinality(X \ {x}) = n - 1 /\ n \in Nat /\ n - 1 \in Nat
      BY <1>1, <2>2, TakeOne
    <3> QED
      BY <2>1, <3>1
  <2>7. ASSUME NEW x \in X PROVE g[X] = f[x] + g[X \ {x}]
    <3>1. CASE x = c
      BY <3>1, <2>4
    <3>2. CASE x # c
      <4>1. g[X \ {c}] = f[x] + g[(X \ {c}) \ {x}]
        BY <2>4, <2>5, <3>2
      <4>2. g[X \ {x}] = f[c] + g[(X \ {x}) \ {c}]
        BY <2>4, <2>5, <3>2
      <4>3. (X \ {c}) \ {x} = (X \ {x}) \ {c}
        OBVIOUS
      <4>4. g[(X \ {x}) \ {c}] \in Int
        BY SumsAreInt
      <4>5. f[c] \in Int /\ f[x] \in Int
        BY <2>4
      <4>6. PICK r \in Int : r = g[(X \ {x}) \ {c}]
        BY <4>4
      <4>7. g[X \ {c}] = f[x] + r /\ g[X \ {x}] = f[c] + r
        BY <4>1, <4>2, <4>3, <4>6
      <4>8. g[X] = f[c] + (f[x] + r) /\ f[x] + g[X \ {x}] = f[x] + (f[c] + r)
        BY <4>7, <2>4
      <4> QED
        BY <4>5, <4>8
    <3> QED
      BY <3>1, <3>2
  <2> QED
    BY <2>2, <2>7
<1> QED
  BY <1>1, <1>2

(* A sum depends on the values at the elements only.                        *)
LEMMA SumsAgree ==
  ASSUME NEW S, IsFiniteSet(S), NEW f, NEW e, \A x \in S : f[x] = e[x],
         NEW R, S \subseteq R, NEW g, Sums(g, f, R),
         NEW Q, S \subseteq Q, NEW h, Sums(h, e, Q)
  PROVE  g[S] = h[S]
<1> DEFINE Bad == {n \in Nat : \E X \in SUBSET S : Cardinality(X) = n /\ g[X] # h[X]}
<1>1. \A X \in SUBSET S : IsFiniteSet(X) /\ Cardinality(X) \in Nat
  BY FS_Subset, FS_CardinalityType
<1>2. Bad = {}
  <2> SUFFICES ASSUME Bad # {} PROVE FALSE
    OBVIOUS
  <2>1. PICK n \in Bad : \A m \in Bad : n <= m
    BY Least
  <2>2. PICK X \in SUBSET S : Cardinality(X) = n /\ g[X] # h[X]
    BY <2>1
  <2>3. X # {} /\ First(X) \in X /\ g[X] = f[First(X)] + g[X \ {First(X)}]
                                /\ h[X] = e[First(X)] + h[X \ {First(X)}]
    <3>1. X \in SUBSET R /\ X \in SUBSET Q
      OBVIOUS
    <3>2. g[X] = IF X = {} THEN 0 ELSE f[First(X)] + g[X \ {First(X)}]
      BY <3>1 DEF Sums, SumsOver, First
    <3>3. h[X] = IF X = {} THEN 0 ELSE e[First(X)] + h[X \ {First(X)}]
      BY <3>1 DEF Sums, SumsOver, First
    <3>4. X # {}
      BY <2>2, <3>2, <3>3
    <3> QED
      BY <3>2, <3>3, <3>4, FirstIn
  <2>4. Cardinality(X \ {First(X)}) = n - 1 /\ n \in Nat /\ n - 1 \in Nat
    BY <1>1, <2>2, <2>3, TakeOne
  <2>5. g[X \ {First(X)}] = h[X \ {First(X)}]
    BY <2>1, <2>4
  <2> QED
    BY <2>2, <2>3, <2>5
<1> QED
  BY <1>1, <1>2

(* MapThenSumSet is such a sum.                                             *)
LEMMA TotalIsSum ==
  ASSUME NEW f, NEW S, IsFiniteSet(S)
  PROVE  \E g : Sums(g, f, S) /\ Total(f, S) = g[S]
<1> DEFINE g == CHOOSE iter : Sums(iter, f, S)
<1>1. Sums(g, f, S)
  BY SumsExist
<1>2. Total(f, S) = g[S]
  BY DEF Total, MapThenSumSet, MapThenFoldSet, Sums, SumsOver
<1> QED
  BY <1>1, <1>2

LEMMA TotalIsInt ==
  ASSUME NEW S, IsFiniteSet(S), NEW f, \A x \in S : f[x] \in Int
  PROVE  Total(f, S) \in Int
<1>1. PICK g : Sums(g, f, S) /\ Total(f, S) = g[S]
  BY TotalIsSum
<1> QED
  BY <1>1, SumsAreInt

LEMMA TotalEmpty == ASSUME NEW f PROVE Total(f, {}) = 0
<1>1. PICK g : Sums(g, f, {}) /\ Total(f, {}) = g[{}]
  BY TotalIsSum, FS_EmptySet
<1> QED
  BY <1>1, SumsOf DEF Sums

LEMMA TotalSame ==
  ASSUME NEW S, IsFiniteSet(S), NEW f, NEW e, \A x \in S : f[x] = e[x]
  PROVE  Total(f, S) = Total(e, S)
<1>1. PICK g : Sums(g, f, S) /\ Total(f, S) = g[S]
  BY TotalIsSum
<1>2. PICK h : Sums(h, e, S) /\ Total(e, S) = h[S]
  BY TotalIsSum
<1> QED
  BY <1>1, <1>2, SumsAgree

LEMMA TotalWithout ==
  ASSUME NEW S, IsFiniteSet(S), NEW f, \A x \in S : f[x] \in Int, NEW x \in S
  PROVE  /\ Total(f, S) \in Int /\ Total(f, S \ {x}) \in Int
         /\ Total(f, S) = f[x] + Total(f, S \ {x})
<1> DEFINE R == S \ {x}
<1>1. PICK g : Sums(g, f, S) /\ Total(f, S) = g[S]
  BY TotalIsSum
<1>2. IsFiniteSet(R)
  BY FS_RemoveElement
<1>3. PICK h : Sums(h, f, R) /\ Total(f, R) = h[R]
  BY <1>2, TotalIsSum
<1>4. g[R] = h[R]
  <2>1. R \subseteq R /\ R \subseteq S /\ \A y \in R : f[y] = f[y]
    OBVIOUS
  <2> HIDE DEF R
  <2> QED
    BY <1>1, <1>2, <1>3, <2>1, SumsAgree
<1>5. g[S] \in Int /\ g[R] \in Int
  BY <1>1, SumsAreInt
<1>6. g[S] = f[x] + g[R]
  BY <1>1, SumsStep
<1> QED
  BY <1>1, <1>3, <1>4, <1>5, <1>6

-----------------------------------------------------------------------------
(* Units: finitely many sleepers are on their way back with some.           *)
Conserved == IsFiniteSet(InFlight) /\ credit = val + Total(arg, InFlight)

LEMMA UnitsAreTotal == UnitsConserved <=> credit = val + Total(arg, InFlight)
BY Zenon DEF UnitsConserved, Total

LEMMA FlightArgs == ASSUME IInv PROVE \A t \in InFlight : arg[t] \in Nat
BY DEF IInv, SleepersAsk, InFlight

(* The three things a step can do to the units in flight.                   *)
LEMMA FlightStays ==
  ASSUME IInv, IInv', Conserved, InFlight' = InFlight,
         \A t \in InFlight : arg'[t] = arg[t], credit' - val' = credit - val
  PROVE  Conserved'
<1>1. Total(arg, InFlight)' = Total(arg, InFlight)
  BY TotalSame DEF Conserved
<1>2. /\ credit \in Int /\ credit' \in Int /\ val \in Int /\ val' \in Int
  BY DEF IInv, TypeOK
<1>3. Total(arg, InFlight) \in Int
  BY FlightArgs, TotalIsInt DEF Conserved
<1> QED
  BY <1>1, <1>2, <1>3 DEF Conserved

LEMMA FlightEnds ==
  ASSUME IInv, IInv', Conserved, NEW t \in InFlight, InFlight' = InFlight \ {t},
         \A u \in InFlight' : arg'[u] = arg[u],
         val' = val, credit' = credit - arg[t]
  PROVE  Conserved'
<1>1. /\ IsFiniteSet(InFlight') /\ InFlight' \subseteq InFlight
  BY FS_RemoveElement DEF Conserved
<1>2. Total(arg, InFlight)' = Total(arg, InFlight \ {t})
  BY <1>1, TotalSame
<1>3. /\ Total(arg, InFlight) \in Int /\ Total(arg, InFlight \ {t}) \in Int
      /\ Total(arg, InFlight) = arg[t] + Total(arg, InFlight \ {t})
  BY FlightArgs, TotalWithout DEF Conserved
<1>4. /\ credit \in Int /\ val \in Int /\ arg[t] \in Int
  BY FlightArgs DEF IInv, TypeOK
<1> QED
  BY <1>1, <1>2, <1>3, <1>4 DEF Conserved

LEMMA FlightBegins ==
  ASSUME IInv, IInv', Conserved, NEW t, t \notin InFlight, InFlight' = InFlight \cup {t},
         \A u \in InFlight' : arg'[u] = arg[u],
         credit' = credit, val' = val - arg[t]
  PROVE  Conserved'
<1>1. IsFiniteSet(InFlight')
  BY FS_AddElement DEF Conserved
<1>2. Total(arg, InFlight)' = Total(arg, InFlight')
  BY <1>1, TotalSame
<1>3. InFlight' \ {t} = InFlight /\ t \in InFlight'
  OBVIOUS
<1>4. \A u \in InFlight' : arg[u] \in Int
  BY FlightArgs DEF IInv, SleepersAsk, InFlight
<1>5. /\ Total(arg, InFlight') \in Int /\ Total(arg, InFlight) \in Int
      /\ Total(arg, InFlight') = arg[t] + Total(arg, InFlight)
  <2>1. /\ Total(arg, InFlight') \in Int /\ Total(arg, InFlight' \ {t}) \in Int
        /\ Total(arg, InFlight') = arg[t] + Total(arg, InFlight' \ {t})
    BY <1>1, <1>3, <1>4, TotalWithout
  <2> QED
    BY <2>1, <1>3
<1>6. /\ credit \in Int /\ val \in Int /\ arg[t] \in Int
  BY <1>3, <1>4 DEF IInv, TypeOK
<1> QED
  BY <1>1, <1>2, <1>5, <1>6 DEF Conserved

LEMMA InitConserved == Init => Conserved
<1> SUFFICES ASSUME Init PROVE Conserved
  OBVIOUS
<1>1. InFlight = {}
  BY DEF Init, InFlight
<1> QED
  BY <1>1, TotalEmpty, FS_EmptySet DEF Init, Conserved

(* A call begins, ends or goes on without sleeping.                         *)
LEMMA CallKeepsConserved ==
  ASSUME IInv, IInv', Conserved, NEW t \in Threads,
         \/ FindSemaphore(t) \/ DeleteCheck(t) \/ DeleteErase(t)
         \/ \E n \in Needs : WaitTake(t, n) \/ WaitPoll(t, n)
         \/ \E n \in Signals : SignalAdd(t, n) \/ SignalOverflow(t, n)
         \/ \E n \in SetCounts : CancelStart(t, n)
         \/ SignalDone(t) \/ CancelDone(t)
  PROVE  Conserved'
<1> USE SemaphoreAssumption
<1> DEFINE Quiet == /\ pc[t] # "asleep" /\ pc'[t] # "asleep"
                    /\ \A u \in Threads \ {t} : pc'[u] = pc[u] /\ arg'[u] = arg[u]
                    /\ status' = status /\ canceled' = canceled
<1>1. Quiet
  <2> USE DEF Goto, Entering
  <2>0. pc \in [Threads -> {"idle", "found", "asleep", "signaling", "canceling",
                           "erasing"}] /\ arg \in [Threads -> Int]
    BY DEF IInv, TypeOK
  <2>1. ASSUME FindSemaphore(t) \/ DeleteCheck(t) \/ DeleteErase(t) PROVE Quiet
    BY <2>0, <2>1 DEF FindSemaphore, DeleteCheck, DeleteErase
  <2>2. ASSUME NEW n \in Needs, WaitTake(t, n) \/ WaitPoll(t, n) PROVE Quiet
    BY <2>0, <2>2 DEF WaitTake, WaitPoll
  <2>3. ASSUME NEW n \in Signals, SignalAdd(t, n) \/ SignalOverflow(t, n) PROVE Quiet
    BY <2>0, <2>3 DEF SignalAdd, SignalOverflow
  <2>4. ASSUME NEW n \in SetCounts, CancelStart(t, n) PROVE Quiet
    BY <2>0, <2>4 DEF CancelStart
  <2>5. ASSUME SignalDone(t) PROVE Quiet
    BY <2>0, <2>5 DEF SignalDone
  <2>6. ASSUME CancelDone(t) PROVE Quiet
    BY <2>0, <2>6 DEF CancelDone
  <2> HIDE DEF Quiet
  <2> QED
    BY <2>1, <2>2, <2>3, <2>4, <2>5, <2>6
<1>2. credit' - val' = credit - val
  <2>1. val \in Int /\ val' \in Int /\ credit \in Int
    BY DEF IInv, TypeOK
  <2>2. \/ UNCHANGED <<credit, val>>
        \/ \E n \in Int : val' = val + n /\ credit' = credit + n
        \/ \E n \in Int : val' = val - n /\ credit' = credit - n
        \/ credit' = credit + (val' - val)
    BY DEF FindSemaphore, DeleteCheck, DeleteErase, WaitTake, WaitPoll, SignalAdd,
       SignalOverflow, CancelStart, SignalDone, CancelDone
  <2> QED
    BY <2>1, <2>2
<1>3. InFlight' = InFlight /\ t \notin InFlight /\ InFlight \subseteq Threads
  BY <1>1 DEF InFlight
<1> QED
  BY <1>1, <1>2, <1>3, FlightStays

(* A thread falls asleep or gives up.                                       *)
LEMMA SleepKeepsConserved ==
  ASSUME IInv, IInv', Conserved, NEW t \in Threads,
         TimeOut(t) \/ \E n \in Needs : WaitSleep(t, n)
  PROVE  Conserved'
<1>1. /\ pc[t] # "asleep" \/ status[t] # "run"
      /\ pc'[t] # "asleep" \/ status'[t] # "run"
      /\ \A u \in Threads \ {t} :
           /\ pc'[u] = pc[u] /\ arg'[u] = arg[u] /\ status'[u] = status[u]
           /\ u \in canceled' <=> u \in canceled
      /\ UNCHANGED <<credit, val>>
  <2>1. CASE TimeOut(t)
    BY <2>1 DEF TimeOut, Goto, IInv, TypeOK
  <2>2. ASSUME NEW n \in Needs, WaitSleep(t, n)
        PROVE  /\ pc[t] = "found" /\ status'[t] = "wait"
               /\ \A u \in Threads \ {t} :
                    pc'[u] = pc[u] /\ arg'[u] = arg[u] /\ status'[u] = status[u]
               /\ canceled' = canceled \ {t} /\ UNCHANGED <<credit, val>>
    BY <2>2 DEF WaitSleep, Entering, Goto, IInv, TypeOK
  <2> QED
    BY <2>1, <2>2
<1>2. InFlight' = InFlight /\ t \notin InFlight /\ InFlight \subseteq Threads
  BY <1>1 DEF InFlight
<1> QED
  BY <1>1, <1>2, FlightStays

(* The sleeper at the head is woken.                                        *)
LEMMA WakeKeepsConserved ==
  ASSUME IInv, IInv', Conserved, NEW t \in Threads, SignalWake(t) \/ CancelWake(t)
  PROVE  Conserved'
<1> DEFINE h == Head(waiting).thread
<1>1. /\ waiting # <<>> /\ UNCHANGED <<pc, arg, credit>>
      /\ status' = [status EXCEPT ![h] = "run"]
  BY DEF SignalWake, CancelWake, HeadServed
<1>2. /\ h \in Threads /\ status[h] = "wait" /\ pc[h] = "asleep"
      /\ h \notin canceled /\ arg[h] = Head(waiting).signal
  <2>1. h \in Threads /\ status[h] = "wait" /\ pc[h] = "asleep"
    BY <1>1, HeadSleeps
  <2>2. waiting \in Seq(Entry) /\ 1 \in DOMAIN waiting /\ Head(waiting) = waiting[1]
    BY <1>1 DEF IInv, TypeOK
  <2>3. PICK i \in DOMAIN waiting : waiting[i] = [thread |-> h, signal |-> arg[h]]
    BY <2>1 DEF IInv, QueueMatchesStatus, ToSet
  <2>4. i = 1
    BY <2>2, <2>3 DEF IInv, QueueMatchesStatus, Distinct
  <2> QED
    BY <2>1, <2>2, <2>3, <2>4 DEF IInv, QueueMatchesStatus
<1> HIDE DEF h
<1>3. h \notin InFlight /\ status' \in [Threads -> {"run", "wait"}]
      /\ status'[h] = "run" /\ \A u \in Threads \ {h} : status'[u] = status[u]
  BY <1>1, <1>2 DEF InFlight, IInv, TypeOK
<1>4. CASE SignalWake(t)
  <2>1. InFlight' = InFlight \cup {h}
    BY <1>1, <1>2, <1>3, <1>4 DEF InFlight, SignalWake
  <2>2. val' = val - arg[h]
    BY <1>2, <1>4 DEF SignalWake
  <2> QED
    BY <1>1, <1>3, <2>1, <2>2, FlightBegins
<1>5. CASE CancelWake(t)
  <2>1. InFlight' = InFlight
    BY <1>1, <1>2, <1>3, <1>5 DEF InFlight, CancelWake, h
  <2> QED
    BY <1>1, <1>5, <2>1, FlightStays DEF CancelWake
<1> QED
  BY <1>4, <1>5

(* A sleeper returns, with its units or without.                            *)
LEMMA WokenKeepsConserved ==
  ASSUME IInv, IInv', Conserved, NEW t \in Threads, Woken(t)
  PROVE  Conserved'
<1>1. /\ pc[t] = "asleep" /\ status[t] = "run" /\ pc'[t] # "asleep"
      /\ \A u \in Threads \ {t} : pc'[u] = pc[u] /\ arg'[u] = arg[u]
                                  /\ (u \in canceled' <=> u \in canceled)
      /\ status' = status /\ val' = val
      /\ credit' = IF t \in canceled THEN credit ELSE credit - arg[t]
  BY DEF Woken, Goto, IInv, TypeOK
<1>2. InFlight' = InFlight \ {t} /\ InFlight \subseteq Threads
      /\ (t \in InFlight <=> t \notin canceled)
  BY <1>1 DEF InFlight
<1>3. \A u \in InFlight' : arg'[u] = arg[u]
  BY <1>1, <1>2
<1>4. CASE t \in InFlight
  BY <1>1, <1>2, <1>3, <1>4, FlightEnds
<1>5. CASE t \notin InFlight
  BY <1>1, <1>2, <1>3, <1>5, FlightStays
<1> QED
  BY <1>4, <1>5

LEMMA CreateKeepsConserved ==
  ASSUME CreateSemaphore PROVE Conserved'
<1>1. InFlight' = {}
  BY DEF CreateSemaphore, InFlight
<1>2. credit' = val' + 0
  BY SemaphoreAssumption DEF CreateSemaphore
<1>3. Total(arg, InFlight)' = Total(arg', {})
  BY <1>1
<1> QED
  BY <1>1, <1>2, <1>3, TotalEmpty, FS_EmptySet DEF Conserved

LEMMA NextKeepsConserved == IInv /\ Conserved /\ [Next]_vars => Conserved'
<1> SUFFICES ASSUME IInv, Conserved, [Next]_vars PROVE Conserved'
  OBVIOUS
<1>0. IInv'
  BY NextKeepsIInv
<1>1. CASE UNCHANGED vars
  <2>1. InFlight' = InFlight /\ arg' = arg /\ credit' = credit /\ val' = val
    BY <1>1 DEF vars, InFlight
  <2> QED
    BY <1>0, <2>1, FlightStays
<1>2. CASE CreateSemaphore
  BY <1>2, CreateKeepsConserved
<1>3. ASSUME NEW t \in Threads,
             \/ FindSemaphore(t) \/ Wait(t) \/ Woken(t) \/ TimeOut(t)
             \/ Signal(t) \/ Cancel(t) \/ DeleteCheck(t) \/ DeleteErase(t)
      PROVE  Conserved'
  BY <1>0, <1>3, CallKeepsConserved, SleepKeepsConserved, WakeKeepsConserved,
     WokenKeepsConserved DEF Wait, Signal, Cancel
<1> QED
  BY <1>1, <1>2, <1>3 DEF Next

(* No unit is lost or handed out twice, by signals, cancels and time-outs   *)
(* of any number of threads: what the guests put in and have not been given *)
(* is the value and what threads that were woken are about to take away.    *)
THEOREM SemaphoreConservesUnits == Spec => []UnitsConserved
<1>1. Spec => [](IInv /\ Conserved)
  BY InitIInv, InitConserved, NextKeepsIInv, NextKeepsConserved, PTL DEF Spec
<1> QED
  BY <1>1, UnitsAreTotal, PTL DEF Conserved
=============================================================================
