------------------------- MODULE KernelRWLockProofs -------------------------
(***************************************************************************)
(* The safety of KernelRWLock for every number of threads, every priority, *)
(* recursive or not: what the kernel keeps is right whatever guests do, and*)
(* the lock excludes and keeps its promise for guests that do not nest the *)
(* two kinds.                                                              *)
(***************************************************************************)
EXTENDS KernelRWLock, WaitQueueTheorems

(* What the properties need to be inductive.  RWLock::mutex is kept between *)
(* two steps only by the walk through the queue, and a sleeper owns nothing,*)
(* so that waking it may put it into the map as a new owner.                *)
Walker == \A t \in Threads : pc[t] = "waking" <=> lock = t
SleepersOwnNothing == \A t \in Threads : status[t] = "wait" => owners[t] = 0

(* Without nesting the state is that of every lock that was told or is on   *)
(* its way, and a lock for writing has one owner.                           *)
KindsApart ==
  ~Nesting =>
    /\ \A t \in Threads : writes[t] > 0 => state = "WriteLocked"
    /\ \A t \in Threads : reads[t] > 0 => state = "ReadLocked"
    /\ \A t \in Threads : InFlight(t) = 1 => state = StateFor(want[t])
    /\ state = "WriteLocked" =>
         \A t, u \in Threads : owners[t] > 0 /\ owners[u] > 0 => t = u

IInv ==
  /\ TypeOK /\ QueueMatchesStatus /\ Ordered(waiting)
  /\ OwnersAsTold /\ FreeMeansEmpty
  /\ Walker /\ SleepersOwnNothing
  /\ KindsApart /\ ReadersNotStranded

-----------------------------------------------------------------------------
(* The queue                                                                *)

LEMMA EmptyQueue ==
  Distinct(<<>>) /\ ToSet(<<>>) = {} /\ Sleepers(<<>>) = {} /\ Ordered(<<>>)
BY DEF Distinct, ToSet, Sleepers, Ordered

LEMMA EntriesOfThreads == \A x \in Entry : x.thread \in Threads
BY DEF Entry

(* Who is not asleep runs and is in no queue.                               *)
LEMMA AwakeRuns ==
  ASSUME IInv, NEW t \in Threads, pc[t] # "asleep"
  PROVE  status[t] = "run" /\ t \notin Sleepers(waiting) /\ InFlight(t) = 0
BY DEF IInv, TypeOK, QueueMatchesStatus, InFlight

(* Steps of a thread that is awake before and after.                        *)
LEMMA QuietQueue ==
  ASSUME IInv, UNCHANGED <<waiting, status>>, NEW t \in Threads,
         status[t] = "run",
         \A u \in Threads \ {t} : pc'[u] = pc[u] /\ want'[u] = want[u]
  PROVE  QueueMatchesStatus' /\ Ordered(waiting)'
<1>1. ASSUME NEW u \in Threads
      PROVE  status'[u] = "wait" <=> u \in Sleepers(waiting)
  BY DEF IInv, QueueMatchesStatus
<1>2. ASSUME NEW u \in Threads, status'[u] = "wait"
      PROVE  /\ pc'[u] = "asleep"
             /\ [thread |-> u, kind |-> want'[u]] \in ToSet(waiting)
  BY <1>2 DEF IInv, QueueMatchesStatus
<1>3. QueueMatchesStatus'
  BY <1>1, <1>2 DEF IInv, QueueMatchesStatus, Distinct, Sleepers, ToSet
<1>4. Ordered(waiting)'
  BY DEF IInv, Ordered, Rank
<1> QED
  BY <1>3, <1>4

(* A sleeper leaves the queue.                                              *)
LEMMA Dequeue ==
  ASSUME IInv, NEW t \in Threads, status[t] = "wait",
         waiting' = Erase(waiting, t), status' = [status EXCEPT ![t] = "run"],
         want' = want, \A u \in Threads \ {t} : pc'[u] = pc[u]
  PROVE  /\ QueueMatchesStatus' /\ Ordered(waiting)'
         /\ waiting' \in Seq(Entry)
         /\ ToSet(waiting') = {x \in ToSet(waiting) : x.thread # t}
<1>0. /\ waiting \in Seq(Entry) /\ Distinct(waiting) /\ Ordered(waiting)
      /\ t \in Sleepers(waiting)
  BY DEF IInv, TypeOK, QueueMatchesStatus
<1>1. /\ waiting' \in Seq(Entry) /\ Distinct(waiting') /\ Ordered(Erase(waiting, t))
      /\ ToSet(waiting') = {x \in ToSet(waiting) : x.thread # t}
  BY <1>0, EraseContents
<1>2. Sleepers(waiting') = Sleepers(waiting) \ {t}
  BY <1>1, SleepersOfEntries
<1>3. ASSUME NEW u \in Threads
      PROVE  status'[u] = "wait" <=> u \in Sleepers(waiting')
  BY <1>2 DEF IInv, TypeOK, QueueMatchesStatus
<1>4. ASSUME NEW u \in Threads, status'[u] = "wait"
      PROVE  /\ pc'[u] = "asleep"
             /\ [thread |-> u, kind |-> want'[u]] \in ToSet(waiting')
  BY <1>1, <1>4 DEF IInv, TypeOK, QueueMatchesStatus
<1>5. QueueMatchesStatus'
  BY <1>1, <1>3, <1>4 DEF QueueMatchesStatus, Distinct, Sleepers, ToSet
<1>6. Ordered(waiting)'
  BY <1>1 DEF Ordered, Rank
<1> QED
  BY <1>1, <1>5, <1>6

(* What the walk finds at a place of the queue.                             *)
LEMMA EntrySleeps ==
  ASSUME IInv, NEW i \in DOMAIN waiting
  PROVE  /\ waiting[i] \in Entry
         /\ waiting[i].thread \in Threads
         /\ waiting[i].kind = want[waiting[i].thread]
         /\ status[waiting[i].thread] = "wait"
         /\ pc[waiting[i].thread] = "asleep"
         /\ owners[waiting[i].thread] = 0
<1> DEFINE e == waiting[i]
           t == e.thread
<1>0. waiting \in Seq(Entry) /\ Distinct(waiting)
  BY DEF IInv, TypeOK, QueueMatchesStatus
<1>1. e \in Entry /\ e \in ToSet(waiting) /\ t \in Threads /\ t \in Sleepers(waiting)
  <2>1. e \in Entry
    BY <1>0
  <2>2. e \in ToSet(waiting)
    BY DEF ToSet
  <2>3. t \in Sleepers(waiting)
    BY DEF Sleepers
  <2> QED
    BY <2>1, <2>2, <2>3, EntriesOfThreads
<1>2. /\ status[t] = "wait" /\ pc[t] = "asleep" /\ owners[t] = 0
      /\ [thread |-> t, kind |-> want[t]] \in ToSet(waiting)
  BY <1>1 DEF IInv, QueueMatchesStatus, SleepersOwnNothing
<1>3. e = [thread |-> t, kind |-> want[t]]
  BY <1>0, <1>1, <1>2, EntryUnique
<1> QED
  BY <1>1, <1>2, <1>3

(* Nobody owns an unlocked lock, is told it holds one or is being woken.    *)
LEMMA UnlockedIsFree ==
  ASSUME IInv, state = "Unlocked", NEW t \in Threads
  PROVE  owners[t] = 0 /\ reads[t] = 0 /\ writes[t] = 0 /\ InFlight(t) = 0
<1>1. owners[t] = 0 /\ owners[t] = reads[t] + writes[t] + InFlight(t)
  BY DEF IInv, FreeMeansEmpty, OwnersAsTold
<1>2. reads[t] \in Nat /\ writes[t] \in Nat /\ InFlight(t) \in {0, 1}
  BY DEF IInv, TypeOK, InFlight
<1> QED
  BY <1>1, <1>2

-----------------------------------------------------------------------------
(* Creating, looking up and deleting                                        *)

LEMMA InitIInv == Init => IInv
<1> SUFFICES ASSUME Init PROVE IInv
  OBVIOUS
<1> USE RWLockAssumption DEF Init, Nothing
<1>1. TypeOK
  <2>1. waiting \in Seq(Entry)
    BY EmptySeq
  <2>2. /\ owners \in [Threads -> Nat] /\ reads \in [Threads -> Nat]
        /\ writes \in [Threads -> Nat]
    OBVIOUS
  <2>3. want \in [Threads -> Kinds] /\ status \in [Threads -> {"run", "wait"}]
    BY DEF Kinds
  <2> QED
    BY <2>1, <2>2, <2>3 DEF TypeOK
<1>2. QueueMatchesStatus /\ Ordered(waiting)
  BY EmptyQueue DEF QueueMatchesStatus
<1>3. OwnersAsTold /\ FreeMeansEmpty /\ Walker /\ SleepersOwnNothing
  BY DEF OwnersAsTold, InFlight, FreeMeansEmpty, Walker, SleepersOwnNothing
<1>4. KindsApart /\ ReadersNotStranded
  BY DEF KindsApart, InFlight, ReadersNotStranded
<1> QED
  BY <1>1, <1>2, <1>3, <1>4 DEF IInv

LEMMA CreateKeepsIInv ==
  ASSUME IInv, CreateRWLock
  PROVE  IInv'
<1> USE RWLockAssumption DEF CreateRWLock, Nothing
<1>1. \A u \in Threads : status[u] = "run"
  BY AwakeRuns
<1>2. TypeOK'
  <2>1. waiting' \in Seq(Entry)
    BY EmptySeq
  <2> QED
    BY <2>1 DEF IInv, TypeOK
<1>3. QueueMatchesStatus' /\ Ordered(waiting)'
  BY <1>1, EmptyQueue DEF QueueMatchesStatus, Ordered
<1>4. OwnersAsTold' /\ FreeMeansEmpty' /\ Walker' /\ SleepersOwnNothing'
  BY DEF IInv, OwnersAsTold, InFlight, FreeMeansEmpty, Walker, SleepersOwnNothing
<1>5. KindsApart' /\ ReadersNotStranded'
  BY DEF KindsApart, InFlight, ReadersNotStranded
<1> QED
  BY <1>2, <1>3, <1>4, <1>5 DEF IInv

(* Steps that leave the lock and what guests were told alone.               *)
LEMMA QuietCallKeepsIInv ==
  ASSUME IInv, NEW t \in Threads,
         \/ FindRWLock(t) \/ UnlockRefused(t) \/ DeleteCheck(t) \/ DeleteErase(t)
         \/ LockPoll(t, "read") \/ LockPoll(t, "write")
         \/ LockRefused(t, "read") \/ LockRefused(t, "write")
  PROVE  IInv'
<1> USE RWLockAssumption DEF rwVars, told, Goto
<1>0. /\ UNCHANGED <<rwVars, status, want, told>> /\ registered' \in BOOLEAN
      /\ pc[t] # "asleep" /\ pc[t] # "waking"
      /\ \E label \in {"idle", "found", "erasing"} : pc' = [pc EXCEPT ![t] = label]
  BY DEF IInv, TypeOK, FindRWLock, UnlockRefused, DeleteCheck, DeleteErase,
     LockPoll, LockRefused, MustWait, Entering
<1>1. QueueMatchesStatus' /\ Ordered(waiting)'
  BY <1>0, AwakeRuns, QuietQueue DEF IInv, TypeOK
<1>2. TypeOK'
  BY <1>0 DEF IInv, TypeOK
<1>3. \A u \in Threads : InFlight(u)' = InFlight(u)
  BY <1>0 DEF IInv, TypeOK, InFlight
<1>4. OwnersAsTold' /\ FreeMeansEmpty' /\ Walker' /\ SleepersOwnNothing'
  BY <1>0, <1>3 DEF IInv, TypeOK, OwnersAsTold, FreeMeansEmpty, Walker,
     SleepersOwnNothing
<1>5. KindsApart' /\ ReadersNotStranded'
  BY <1>0, <1>3 DEF IInv, KindsApart, StateFor, ReadersNotStranded
<1> QED
  BY <1>1, <1>2, <1>4, <1>5 DEF IInv
-----------------------------------------------------------------------------
(* Locking                                                                  *)

LEMMA LockAtOnceKeepsIInv ==
  ASSUME IInv, NEW t \in Threads, NEW k \in Kinds, LockAtOnce(t, k)
  PROVE  IInv'
<1> USE RWLockAssumption DEF LockAtOnce, Entering, Granted, Goto, Kinds
<1>0. /\ pc[t] = "found" /\ lock = NoThread /\ MayAsk(t, k) /\ NoNeedToWait(t, k)
      /\ owners[t] \in Nat /\ reads[t] \in Nat /\ writes[t] \in Nat
      /\ status[t] = "run" /\ InFlight(t) = 0
      /\ owners[t] = reads[t] + writes[t]
  <2>1. status[t] = "run" /\ InFlight(t) = 0
    BY AwakeRuns
  <2>2. owners[t] \in Nat /\ reads[t] \in Nat /\ writes[t] \in Nat
    BY DEF IInv, TypeOK
  <2>3. owners[t] = reads[t] + writes[t] + InFlight(t)
    BY DEF IInv, OwnersAsTold
  <2> QED
    BY <2>1, <2>2, <2>3
<1>1. /\ owners' = [owners EXCEPT ![t] = owners[t] + 1]
      /\ state' = StateFor(k) /\ state' # "Unlocked"
      /\ pc' = [pc EXCEPT ![t] = "idle"]
      /\ k = "read" => reads' = [reads EXCEPT ![t] = reads[t] + 1] /\ writes' = writes
      /\ k = "write" => writes' = [writes EXCEPT ![t] = writes[t] + 1] /\ reads' = reads
      /\ UNCHANGED <<registered, waiting, lock, status, want>>
  BY DEF StateFor
<1>2. QueueMatchesStatus' /\ Ordered(waiting)'
  BY <1>0, <1>1, QuietQueue DEF IInv, TypeOK
<1>3. TypeOK'
  BY <1>0, <1>1 DEF IInv, TypeOK, StateFor
<1>4. \A u \in Threads : InFlight(u)' = InFlight(u)
  BY <1>0, <1>1 DEF IInv, TypeOK, InFlight
<1>5. OwnersAsTold'
  <2> SUFFICES ASSUME NEW u \in Threads
               PROVE  owners'[u] = reads'[u] + writes'[u] + InFlight(u)
    BY <1>4 DEF OwnersAsTold
  <2>1. CASE u = t
    BY <1>0, <1>1, <2>1 DEF IInv, TypeOK
  <2>2. CASE u # t
    BY <1>0, <1>1, <2>2 DEF IInv, TypeOK, OwnersAsTold
  <2> QED
    BY <2>1, <2>2
<1>6. FreeMeansEmpty'
  BY <1>0, <1>1 DEF IInv, TypeOK, FreeMeansEmpty
<1>7. Walker' /\ SleepersOwnNothing'
  BY <1>0, <1>1 DEF IInv, TypeOK, Walker, SleepersOwnNothing
<1>8. CASE Nesting
  BY <1>2, <1>3, <1>5, <1>6, <1>7, <1>8 DEF IInv, KindsApart, ReadersNotStranded
<1>9. ASSUME ~Nesting PROVE KindsApart' /\ ReadersNotStranded'
  <2>1. CASE state = "Unlocked"
    <3>1. \A u \in Threads : /\ owners[u] = 0 /\ reads[u] = 0 /\ writes[u] = 0
                             /\ InFlight(u) = 0
      BY <2>1, UnlockedIsFree
    <3>2. \A u \in Threads \ {t} :
            owners'[u] = 0 /\ reads'[u] = 0 /\ writes'[u] = 0
      BY <1>1, <3>1 DEF IInv, TypeOK
    <3>3. k = "read" => writes'[t] = 0
      BY <1>1, <3>1
    <3>4. k = "write" => reads'[t] = 0
      BY <1>1, <3>1
    <3>5. /\ \A u \in Threads : writes'[u] > 0 => state' = "WriteLocked"
          /\ \A u \in Threads : reads'[u] > 0 => state' = "ReadLocked"
      BY <1>1, <3>2, <3>3, <3>4 DEF StateFor
    <3>6. \A u, v \in Threads : owners'[u] > 0 /\ owners'[v] > 0 => u = v
      BY <3>2
    <3>7. KindsApart'
      BY <1>4, <3>1, <3>5, <3>6 DEF KindsApart
    <3>8. ReadersNotStranded'
      BY <1>0, <1>1, <2>1 DEF IInv, FreeMeansEmpty, ReadersNotStranded
    <3> QED
      BY <3>7, <3>8
  <2>2. CASE state # "Unlocked"
    <3>1. state' = state
      BY <1>0, <1>1, <1>9, <2>2
         DEF IInv, TypeOK, KindsApart, MayAsk, NoNeedToWait, IsRecursive, StateFor
    <3>2. state = "WriteLocked" => owners[t] > 0
      BY <1>0, <1>1, <1>9, <2>2, <3>1 DEF NoNeedToWait, StateFor
    <3>3. KindsApart'
      BY <1>0, <1>1, <1>3, <1>4, <3>1, <3>2 DEF IInv, TypeOK, KindsApart, StateFor
    <3>4. ReadersNotStranded'
      BY <1>1, <3>1 DEF IInv, ReadersNotStranded
    <3> QED
      BY <3>3, <3>4
  <2> QED
    BY <2>1, <2>2
<1> QED
  BY <1>2, <1>3, <1>5, <1>6, <1>7, <1>8, <1>9 DEF IInv

LEMMA LockSleepKeepsIInv ==
  ASSUME IInv, NEW t \in Threads, NEW k \in Kinds, LockSleep(t, k)
  PROVE  IInv'
<1> USE RWLockAssumption DEF LockSleep, MustWait, Entering, Goto
<1> DEFINE e == [thread |-> t, kind |-> k]
<1>0. /\ pc[t] = "found" /\ lock = NoThread /\ e \in Entry /\ ~NoNeedToWait(t, k)
      /\ status[t] = "run" /\ t \notin Sleepers(waiting) /\ InFlight(t) = 0
  BY AwakeRuns DEF Entry
<1>1. owners[t] = 0 /\ state # "Unlocked"
  BY DEF IInv, TypeOK, NoNeedToWait
<1>2. waiting \in Seq(Entry) /\ Distinct(waiting) /\ Ordered(waiting)
  BY DEF IInv, TypeOK, QueueMatchesStatus
<1>3. waiting' \in Seq(Entry) /\ ToSet(waiting') = ToSet(waiting) \cup {e}
  <2>1. waiting' = Push(waiting, e)
    OBVIOUS
  <2>2. e \in Entry /\ waiting \in Seq(Entry)
    BY <1>0, <1>2
  <2> HIDE DEF e
  <2>3. /\ Push(waiting, e) \in Seq(Entry)
        /\ ToSet(Push(waiting, e)) = ToSet(waiting) \cup {e}
    BY ONLY <2>2, PushContents
  <2> QED
    BY <2>1, <2>3
<1>4. Distinct(waiting')
  BY <1>0, <1>2, PushDistinct
<1>5. Ordered(waiting)'
  <2>1. Ordered(Push(waiting, e))
    BY <1>0, <1>2, EntriesOfThreads, PushOrdered
  <2> QED
    BY <2>1 DEF Ordered, Rank
<1>6. Sleepers(waiting') = Sleepers(waiting) \cup {t}
  BY <1>3, SleepersOfEntries
<1>7. QueueMatchesStatus'
  <2>1. ASSUME NEW u \in Threads
        PROVE  status'[u] = "wait" <=> u \in Sleepers(waiting')
    BY <1>6 DEF IInv, TypeOK, QueueMatchesStatus
  <2>2. ASSUME NEW u \in Threads, status'[u] = "wait"
        PROVE  /\ pc'[u] = "asleep"
               /\ [thread |-> u, kind |-> want'[u]] \in ToSet(waiting')
    BY <1>3, <2>2 DEF IInv, TypeOK, QueueMatchesStatus
  <2> QED
    BY <1>4, <2>1, <2>2 DEF QueueMatchesStatus, Distinct, Sleepers, ToSet
<1>8. TypeOK'
  BY <1>3 DEF IInv, TypeOK, told
<1>9. \A u \in Threads : InFlight(u)' = InFlight(u)
  BY <1>0 DEF IInv, TypeOK, InFlight
<1>10. OwnersAsTold' /\ FreeMeansEmpty' /\ Walker' /\ SleepersOwnNothing'
  BY <1>0, <1>1, <1>9 DEF IInv, TypeOK, OwnersAsTold, FreeMeansEmpty, Walker,
     SleepersOwnNothing, told
<1>11. KindsApart'
  BY <1>0, <1>9 DEF IInv, TypeOK, KindsApart, StateFor, InFlight, told
<1>12. ReadersNotStranded'
  <2> SUFFICES ASSUME ~Nesting, state = "ReadLocked", NEW i \in DOMAIN waiting'
               PROVE  waiting'[i].kind = "write"
    BY DEF ReadersNotStranded
  <2>1. waiting'[i] \in ToSet(waiting) \cup {e}
    BY <1>3 DEF ToSet
  <2>2. k = "write"
    BY <1>0 DEF NoNeedToWait, Kinds
  <2>3. ASSUME NEW x \in ToSet(waiting) PROVE x.kind = "write"
    BY <1>0, <2>3 DEF IInv, ReadersNotStranded, ToSet
  <2> QED
    BY <2>1, <2>2, <2>3
<1> QED
  BY <1>5, <1>7, <1>8, <1>10, <1>11, <1>12 DEF IInv

(* A woken sleeper is told what it owns already.                            *)
LEMMA WokenKeepsIInv ==
  ASSUME IInv, NEW t \in Threads, Woken(t)
  PROVE  IInv'
<1> USE RWLockAssumption DEF Woken, Granted, Goto, rwVars
<1>0. /\ pc[t] = "asleep" /\ status[t] = "run" /\ want[t] \in {"read", "write"}
      /\ InFlight(t) = 1 /\ owners[t] = reads[t] + writes[t] + 1
      /\ owners[t] \in Nat /\ reads[t] \in Nat /\ writes[t] \in Nat
  BY DEF IInv, TypeOK, Kinds, InFlight, OwnersAsTold
<1>1. /\ pc' = [pc EXCEPT ![t] = "idle"]
      /\ want[t] = "read" =>
           reads' = [reads EXCEPT ![t] = reads[t] + 1] /\ writes' = writes
      /\ want[t] = "write" =>
           writes' = [writes EXCEPT ![t] = writes[t] + 1] /\ reads' = reads
      /\ UNCHANGED <<registered, state, owners, waiting, lock, status, want>>
  BY <1>0
<1>2. QueueMatchesStatus' /\ Ordered(waiting)'
  BY <1>0, <1>1, QuietQueue DEF IInv, TypeOK
<1>3. TypeOK'
  BY <1>0, <1>1 DEF IInv, TypeOK
<1>4. InFlight(t)' = 0 /\ \A u \in Threads \ {t} : InFlight(u)' = InFlight(u)
  BY <1>0, <1>1 DEF IInv, TypeOK, InFlight
<1>5. OwnersAsTold'
  <2> SUFFICES ASSUME NEW u \in Threads
               PROVE  owners'[u] = reads'[u] + writes'[u] + InFlight(u)'
    BY DEF OwnersAsTold
  <2>1. CASE u = t
    <3>1. \/ reads'[t] = reads[t] + 1 /\ writes'[t] = writes[t]
          \/ reads'[t] = reads[t] /\ writes'[t] = writes[t] + 1
      BY <1>0, <1>1 DEF IInv, TypeOK
    <3>2. owners'[t] = reads[t] + writes[t] + 1
      BY <1>0, <1>1
    <3> QED
      BY <1>0, <1>4, <2>1, <3>1, <3>2
  <2>2. CASE u # t
    BY <1>0, <1>1, <1>4, <2>2 DEF IInv, TypeOK, OwnersAsTold
  <2> QED
    BY <2>1, <2>2
<1>6. FreeMeansEmpty' /\ Walker' /\ SleepersOwnNothing'
  BY <1>0, <1>1 DEF IInv, TypeOK, FreeMeansEmpty, Walker, SleepersOwnNothing
<1>7. KindsApart'
  <2>1. ~Nesting => state = StateFor(want[t])
    BY <1>0 DEF IInv, KindsApart
  <2> QED
    BY <1>0, <1>1, <1>3, <1>4, <2>1 DEF IInv, TypeOK, KindsApart, StateFor
<1>8. ReadersNotStranded'
  BY <1>1 DEF IInv, ReadersNotStranded
<1> QED
  BY <1>2, <1>3, <1>5, <1>6, <1>7, <1>8 DEF IInv

LEMMA TimeOutKeepsIInv ==
  ASSUME IInv, NEW t \in Threads, TimeOut(t)
  PROVE  IInv'
<1> USE RWLockAssumption DEF TimeOut, Goto, told
<1>0. pc[t] = "asleep" /\ status[t] = "wait" /\ lock = NoThread
  OBVIOUS
<1>1. /\ QueueMatchesStatus' /\ Ordered(waiting)'
      /\ waiting' \in Seq(Entry)
      /\ ToSet(waiting') = {x \in ToSet(waiting) : x.thread # t}
  BY <1>0, Dequeue DEF IInv, TypeOK
<1>2. TypeOK'
  BY <1>1 DEF IInv, TypeOK
<1>3. \A u \in Threads : InFlight(u)' = InFlight(u)
  BY <1>0 DEF IInv, TypeOK, InFlight
<1>4. state # "Unlocked"
  <2>1. t \in Sleepers(waiting)
    BY <1>0 DEF IInv, QueueMatchesStatus
  <2>2. waiting # <<>>
    BY <2>1, EmptyQueue
  <2> QED
    BY <1>0, <2>2 DEF IInv, FreeMeansEmpty
<1>5. OwnersAsTold' /\ FreeMeansEmpty' /\ Walker' /\ SleepersOwnNothing'
  BY <1>0, <1>3, <1>4 DEF IInv, TypeOK, OwnersAsTold, FreeMeansEmpty, Walker,
     SleepersOwnNothing
<1>6. KindsApart'
  BY <1>3 DEF IInv, KindsApart, StateFor
<1>7. ReadersNotStranded'
  <2> SUFFICES ASSUME ~Nesting, state = "ReadLocked", NEW i \in DOMAIN waiting'
               PROVE  waiting'[i].kind = "write"
    BY DEF ReadersNotStranded
  <2>1. waiting'[i] \in ToSet(waiting)
    BY <1>1 DEF ToSet
  <2> QED
    BY <1>0, <2>1 DEF IInv, ReadersNotStranded, ToSet
<1> QED
  BY <1>1, <1>2, <1>5, <1>6, <1>7 DEF IInv
-----------------------------------------------------------------------------
(* Unlocking                                                                *)

(* What both unlocks do to the counts of the caller.                        *)
LEMMA ReleasedCounts ==
  ASSUME IInv, NEW t \in Threads, NEW k \in Kinds, Entering(t), Released(t, k),
         owners' = [owners EXCEPT ![t] = owners[t] - 1],
         UNCHANGED <<status, want>>, NEW label, label # "asleep", Goto(t, label)
  PROVE  /\ status[t] = "run"
         /\ owners' \in [Threads -> Nat]
         /\ reads' \in [Threads -> Nat] /\ writes' \in [Threads -> Nat]
         /\ \A u \in Threads : InFlight(u)' = InFlight(u)
         /\ \A u \in Threads : /\ owners'[u] <= owners[u]
                               /\ reads'[u] <= reads[u] /\ writes'[u] <= writes[u]
         /\ OwnersAsTold' /\ SleepersOwnNothing'
<1> USE DEF Kinds, Entering, Released, Goto
<1>1. pc[t] = "found" /\ status[t] = "run" /\ InFlight(t) = 0
  BY AwakeRuns
<1>2. /\ owners[t] \in Nat /\ reads[t] \in Nat /\ writes[t] \in Nat
      /\ owners[t] = reads[t] + writes[t]
  <2>1. owners[t] = reads[t] + writes[t] + InFlight(t)
    BY DEF IInv, OwnersAsTold
  <2> QED
    BY <1>1, <2>1 DEF IInv, TypeOK
<1>3. \/ /\ reads[t] > 0 /\ reads' = [reads EXCEPT ![t] = reads[t] - 1]
         /\ writes' = writes
      \/ /\ writes[t] > 0 /\ writes' = [writes EXCEPT ![t] = writes[t] - 1]
         /\ reads' = reads
  OBVIOUS
<1>4. /\ owners' \in [Threads -> Nat]
      /\ reads' \in [Threads -> Nat] /\ writes' \in [Threads -> Nat]
  BY <1>2, <1>3 DEF IInv, TypeOK
<1>5. \A u \in Threads : InFlight(u)' = InFlight(u)
  BY <1>1 DEF IInv, TypeOK, InFlight
<1>6. \A u \in Threads \ {t} :
        owners'[u] = owners[u] /\ reads'[u] = reads[u] /\ writes'[u] = writes[u]
  BY <1>3 DEF IInv, TypeOK
<1>7. /\ owners'[t] = owners[t] - 1
      /\ \/ reads'[t] = reads[t] - 1 /\ writes'[t] = writes[t]
         \/ reads'[t] = reads[t] /\ writes'[t] = writes[t] - 1
  BY <1>3 DEF IInv, TypeOK
<1>8. \A u \in Threads : /\ owners'[u] <= owners[u]
                         /\ reads'[u] <= reads[u] /\ writes'[u] <= writes[u]
  <2> SUFFICES ASSUME NEW u \in Threads
               PROVE  /\ owners'[u] <= owners[u]
                      /\ reads'[u] <= reads[u] /\ writes'[u] <= writes[u]
    OBVIOUS
  <2>1. owners[u] \in Nat /\ reads[u] \in Nat /\ writes[u] \in Nat
    BY DEF IInv, TypeOK
  <2> QED
    BY <1>2, <1>6, <1>7, <2>1
<1>9. OwnersAsTold'
  <2> SUFFICES ASSUME NEW u \in Threads
               PROVE  owners'[u] = reads'[u] + writes'[u] + InFlight(u)
    BY <1>5 DEF OwnersAsTold
  <2>1. CASE u = t
    BY <1>1, <1>2, <1>7, <2>1
  <2>2. CASE u # t
    BY <1>6, <2>2 DEF IInv, OwnersAsTold
  <2> QED
    BY <2>1, <2>2
<1>10. SleepersOwnNothing'
  BY <1>1, <1>6 DEF IInv, SleepersOwnNothing
<1> QED
  BY <1>1, <1>4, <1>5, <1>8, <1>9, <1>10

LEMMA UnlockSharedKeepsIInv ==
  ASSUME IInv, NEW t \in Threads, NEW k \in Kinds, UnlockShared(t, k)
  PROVE  IInv'
<1> USE RWLockAssumption
<1>0. /\ Entering(t) /\ Released(t, k) /\ Goto(t, "idle")
      /\ owners' = [owners EXCEPT ![t] = owners[t] - 1] /\ owners[t] > 0
      /\ ~LastOwner(t)
      /\ UNCHANGED <<registered, state, waiting, lock, status, want>>
  BY DEF UnlockShared
<1>1. /\ status[t] = "run" /\ pc[t] = "found"
      /\ pc' = [pc EXCEPT ![t] = "idle"]
      /\ owners' \in [Threads -> Nat]
      /\ reads' \in [Threads -> Nat] /\ writes' \in [Threads -> Nat]
      /\ \A u \in Threads : InFlight(u)' = InFlight(u)
      /\ \A u \in Threads : /\ owners'[u] <= owners[u]
                            /\ reads'[u] <= reads[u] /\ writes'[u] <= writes[u]
      /\ OwnersAsTold' /\ SleepersOwnNothing'
  BY <1>0, ReleasedCounts DEF Goto, Entering
<1>2. QueueMatchesStatus' /\ Ordered(waiting)'
  BY <1>0, <1>1, QuietQueue DEF IInv, TypeOK
<1>3. TypeOK'
  BY <1>0, <1>1 DEF IInv, TypeOK
<1>4. FreeMeansEmpty'
  <2>1. state # "Unlocked"
    BY <1>0 DEF IInv, FreeMeansEmpty
  <2>2. \E u \in Threads : owners'[u] # 0
    <3>1. CASE owners[t] # 1
      BY <1>0, <3>1 DEF IInv, TypeOK
    <3>2. CASE \E u \in Threads \ {t} : owners[u] # 0
      BY <1>0, <3>2 DEF IInv, TypeOK
    <3> QED
      BY <1>0, <3>1, <3>2 DEF LastOwner
  <2> QED
    BY <1>0, <2>1, <2>2 DEF FreeMeansEmpty
<1>5. Walker'
  BY <1>0, <1>1 DEF IInv, TypeOK, Walker, Entering
<1>6. KindsApart'
  <2> SUFFICES ASSUME ~Nesting PROVE KindsApart'
    BY DEF KindsApart
  <2>1. \A u \in Threads : /\ owners[u] \in Nat /\ owners'[u] \in Nat
                           /\ reads[u] \in Nat /\ reads'[u] \in Nat
                           /\ writes[u] \in Nat /\ writes'[u] \in Nat
    BY <1>1 DEF IInv, TypeOK
  <2>2. \A u \in Threads : /\ owners'[u] > 0 => owners[u] > 0
                           /\ reads'[u] > 0 => reads[u] > 0
                           /\ writes'[u] > 0 => writes[u] > 0
    BY <1>1, <2>1
  <2> QED
    BY <1>0, <1>1, <2>2 DEF IInv, KindsApart, StateFor
<1>7. ReadersNotStranded'
  BY <1>0 DEF IInv, ReadersNotStranded
<1> QED
  BY <1>1, <1>2, <1>3, <1>4, <1>5, <1>6, <1>7 DEF IInv

LEMMA UnlockLastKeepsIInv ==
  ASSUME IInv, NEW t \in Threads, NEW k \in Kinds, UnlockLast(t, k)
  PROVE  IInv'
<1> USE RWLockAssumption
<1>0. /\ Entering(t) /\ Released(t, k) /\ Goto(t, "waking") /\ LastOwner(t)
      /\ owners' = [owners EXCEPT ![t] = owners[t] - 1]
      /\ state' = "Unlocked" /\ lock' = t
      /\ UNCHANGED <<registered, waiting, status, want>>
  BY DEF UnlockLast, LastOwner
<1>1. /\ status[t] = "run" /\ pc[t] = "found" /\ lock = NoThread
      /\ pc' = [pc EXCEPT ![t] = "waking"]
      /\ owners' \in [Threads -> Nat]
      /\ reads' \in [Threads -> Nat] /\ writes' \in [Threads -> Nat]
      /\ \A u \in Threads : InFlight(u)' = InFlight(u)
      /\ OwnersAsTold' /\ SleepersOwnNothing'
  BY <1>0, ReleasedCounts DEF Goto, Entering
<1>2. QueueMatchesStatus' /\ Ordered(waiting)'
  BY <1>0, <1>1, QuietQueue DEF IInv, TypeOK
<1>3. TypeOK'
  BY <1>0, <1>1 DEF IInv, TypeOK
<1>4. \A u \in Threads : owners'[u] = 0
  BY <1>0 DEF IInv, TypeOK, LastOwner
<1>5. FreeMeansEmpty' /\ ReadersNotStranded'
  BY <1>0, <1>4 DEF FreeMeansEmpty, ReadersNotStranded
<1>6. Walker'
  BY <1>0, <1>1 DEF IInv, TypeOK, Walker
<1>7. KindsApart'
  <2>1. ASSUME NEW u \in Threads
        PROVE  reads'[u] = 0 /\ writes'[u] = 0 /\ InFlight(u)' = 0
    <3>1. 0 = reads'[u] + writes'[u] + InFlight(u)'
      BY <1>1, <1>4 DEF OwnersAsTold
    <3>2. reads'[u] \in Nat /\ writes'[u] \in Nat /\ InFlight(u)' \in {0, 1}
      BY <1>1 DEF InFlight
    <3> QED
      BY <3>1, <3>2
  <2> QED
    BY <1>0, <2>1 DEF KindsApart
<1> QED
  BY <1>1, <1>2, <1>3, <1>5, <1>6, <1>7 DEF IInv

(* The walk makes the sleeper an owner for it.                              *)
LEMMA WakeNextKeepsIInv ==
  ASSUME IInv, NEW t \in Threads, WakeNext(t)
  PROVE  IInv'
<1> USE RWLockAssumption
<1>0. PICK i \in DOMAIN waiting :
        /\ NextToWake(i)
        /\ waiting' = Erase(waiting, waiting[i].thread)
        /\ status' = [status EXCEPT ![waiting[i].thread] = "run"]
        /\ owners' = [owners EXCEPT ![waiting[i].thread] = 1]
        /\ state' = StateFor(waiting[i].kind)
  BY DEF WakeNext
<1> DEFINE s == waiting[i].thread
<1>1. /\ pc[t] = "waking" /\ lock = t
      /\ UNCHANGED <<registered, lock, pc, want, reads, writes>>
  BY DEF WakeNext, IInv, Walker, told
<1>2. /\ s \in Threads /\ waiting[i].kind = want[s] /\ want[s] \in Kinds
      /\ status[s] = "wait" /\ pc[s] = "asleep" /\ owners[s] = 0
  BY EntrySleeps DEF IInv, TypeOK
<1> HIDE DEF s
<1>3. /\ waiting' = Erase(waiting, s) /\ status' = [status EXCEPT ![s] = "run"]
      /\ owners' = [owners EXCEPT ![s] = 1] /\ state' = StateFor(want[s])
      /\ state' \in {"ReadLocked", "WriteLocked"}
  BY <1>0, <1>2 DEF s, StateFor
<1>4. QueueMatchesStatus' /\ Ordered(waiting)' /\ waiting' \in Seq(Entry)
  BY <1>1, <1>2, <1>3, Dequeue
<1>5. TypeOK'
  BY <1>1, <1>3, <1>4 DEF IInv, TypeOK
<1>6. /\ InFlight(s) = 0
      /\ \A u \in Threads : InFlight(u)' = IF u = s THEN 1 ELSE InFlight(u)
  <2>1. \A u \in Threads : status'[u] = IF u = s THEN "run" ELSE status[u]
    BY <1>3 DEF IInv, TypeOK
  <2> QED
    BY <1>1, <1>2, <2>1 DEF InFlight
<1>7. OwnersAsTold'
  <2> SUFFICES ASSUME NEW u \in Threads
               PROVE  owners'[u] = reads[u] + writes[u] + InFlight(u)'
    BY <1>1 DEF OwnersAsTold
  <2>1. owners[u] = reads[u] + writes[u] + InFlight(u)
        /\ reads[u] \in Nat /\ writes[u] \in Nat
    BY DEF IInv, TypeOK, OwnersAsTold
  <2>2. CASE u = s
    <3>1. owners'[u] = 1 /\ owners[u] = 0 /\ InFlight(u) = 0 /\ InFlight(u)' = 1
      BY <1>2, <1>3, <1>6, <2>2 DEF IInv, TypeOK
    <3> QED
      BY <2>1, <3>1
  <2>3. CASE u # s
    BY <1>3, <1>6, <2>1, <2>3 DEF IInv, TypeOK
  <2> QED
    BY <2>2, <2>3
<1>8. FreeMeansEmpty' /\ ReadersNotStranded'
  <2>1. owners'[s] = 1 /\ state' # "Unlocked" /\ lock' # NoThread
    BY <1>1, <1>2, <1>3 DEF IInv, TypeOK
  <2> QED
    BY <1>2, <2>1 DEF FreeMeansEmpty, ReadersNotStranded
<1>9. Walker' /\ SleepersOwnNothing'
  BY <1>1, <1>2, <1>3 DEF IInv, TypeOK, Walker, SleepersOwnNothing
<1>10. KindsApart'
  <2>1. CASE state = "Unlocked"
    <3>1. \A u \in Threads : /\ owners[u] = 0 /\ reads[u] = 0 /\ writes[u] = 0
                             /\ InFlight(u) = 0
      BY <2>1, UnlockedIsFree
    <3>2. \A u \in Threads \ {s} : owners'[u] = 0 /\ InFlight(u)' = 0
      BY <1>3, <1>6, <3>1 DEF IInv, TypeOK
    <3>3. \A u, v \in Threads : owners'[u] > 0 /\ owners'[v] > 0 => u = v
      BY <3>2
    <3>4. \A u \in Threads : reads'[u] = 0 /\ writes'[u] = 0
      BY <1>1, <3>1
    <3>5. \A u \in Threads : InFlight(u)' = 1 => state' = StateFor(want[u])
      BY <1>3, <3>2
    <3> QED
      BY <1>1, <3>3, <3>4, <3>5 DEF KindsApart, StateFor
  <2>2. CASE state # "Unlocked"
    <3>1. state = "ReadLocked" /\ want[s] = "read"
      BY <1>0, <1>2, <2>2 DEF NextToWake, CanWake
    <3>2. state' = "ReadLocked"
      BY <1>3, <3>1 DEF StateFor
    <3> QED
      BY <1>1, <1>6, <3>1, <3>2 DEF IInv, KindsApart, StateFor
  <2> QED
    BY <2>1, <2>2
<1> QED
  BY <1>4, <1>5, <1>7, <1>8, <1>9, <1>10 DEF IInv

LEMMA WakeDoneKeepsIInv ==
  ASSUME IInv, NEW t \in Threads, WakeDone(t)
  PROVE  IInv'
<1> USE RWLockAssumption DEF WakeDone, Goto, told
<1>0. /\ pc[t] = "waking" /\ lock = t
      /\ \A i \in DOMAIN waiting : ~CanWake(waiting[i])
      /\ waiting \in Seq(Entry)
  BY DEF IInv, TypeOK, Walker
<1>1. QueueMatchesStatus' /\ Ordered(waiting)'
  BY <1>0, AwakeRuns, QuietQueue DEF IInv, TypeOK
<1>2. TypeOK'
  BY DEF IInv, TypeOK
<1>3. \A u \in Threads : InFlight(u)' = InFlight(u)
  BY <1>0 DEF IInv, TypeOK, InFlight
<1>4. state = "Unlocked" => waiting = <<>>
  <2>1. waiting # <<>> => 1 \in DOMAIN waiting
    BY <1>0
  <2> QED
    BY <1>0, <2>1 DEF CanWake
<1>5. OwnersAsTold' /\ FreeMeansEmpty' /\ SleepersOwnNothing' /\ KindsApart'
  BY <1>3, <1>4 DEF IInv, OwnersAsTold, FreeMeansEmpty, SleepersOwnNothing,
     KindsApart, StateFor
<1>6. Walker'
  BY <1>0 DEF IInv, TypeOK, Walker
<1>7. ReadersNotStranded'
  <2> SUFFICES ASSUME state = "ReadLocked", NEW i \in DOMAIN waiting
               PROVE  waiting[i].kind = "write"
    BY DEF ReadersNotStranded
  <2>1. waiting[i] \in Entry /\ waiting[i].kind # "read"
    BY <1>0 DEF CanWake
  <2> QED
    BY <2>1 DEF Entry, Kinds
<1> QED
  BY <1>1, <1>2, <1>5, <1>6, <1>7 DEF IInv
-----------------------------------------------------------------------------
(* The inductive invariant                                                  *)

LEMMA NextKeepsIInv == IInv /\ [Next]_vars => IInv'
<1> SUFFICES ASSUME IInv, [Next]_vars PROVE IInv'
  OBVIOUS
<1>1. CASE UNCHANGED vars
  <2>1. \A u \in Threads : InFlight(u)' = InFlight(u)
    BY <1>1 DEF vars, InFlight
  <2>2. TypeOK' /\ QueueMatchesStatus' /\ Ordered(waiting)'
    BY <1>1 DEF vars, rwVars, told, IInv, TypeOK, QueueMatchesStatus, Distinct,
       Sleepers, ToSet, Ordered, Rank
  <2>3. OwnersAsTold' /\ FreeMeansEmpty' /\ Walker' /\ SleepersOwnNothing'
    BY <1>1, <2>1 DEF vars, rwVars, told, IInv, OwnersAsTold, FreeMeansEmpty,
       Walker, SleepersOwnNothing
  <2>4. KindsApart' /\ ReadersNotStranded'
    BY <1>1, <2>1 DEF vars, rwVars, told, IInv, KindsApart, StateFor,
       ReadersNotStranded
  <2> QED
    BY <2>2, <2>3, <2>4 DEF IInv
<1>2. CASE CreateRWLock
  BY <1>2, CreateKeepsIInv
<1>3. ASSUME NEW t \in Threads,
             FindRWLock(t) \/ DeleteCheck(t) \/ DeleteErase(t) \/ UnlockRefused(t)
      PROVE  IInv'
  BY <1>3, QuietCallKeepsIInv
<1>4. ASSUME NEW t \in Threads, LockCall(t) PROVE IInv'
  BY <1>4, LockAtOnceKeepsIInv, LockSleepKeepsIInv, QuietCallKeepsIInv
     DEF LockCall, Kinds
<1>5. ASSUME NEW t \in Threads, Woken(t) \/ TimeOut(t) PROVE IInv'
  BY <1>5, WokenKeepsIInv, TimeOutKeepsIInv
<1>6. ASSUME NEW t \in Threads, UnlockCall(t) PROVE IInv'
  BY <1>3, <1>6, UnlockSharedKeepsIInv, UnlockLastKeepsIInv, WakeNextKeepsIInv,
     WakeDoneKeepsIInv DEF UnlockCall
<1> QED
  BY <1>1, <1>2, <1>3, <1>4, <1>5, <1>6 DEF Next

LEMMA SpecIInv == Spec => []IInv
BY InitIInv, NextKeepsIInv, PTL DEF Spec

-----------------------------------------------------------------------------
(* What follows from it                                                     *)

(* Type correctness of the lock, its owners map and its queue.              *)
THEOREM RWLockTypeCorrect == Spec => []TypeOK
BY SpecIInv, PTL DEF IInv

(* The owners map is what guests were told, however they nest the two kinds *)
(* of rwlock_lock and whoever is being woken.                               *)
THEOREM RWLockOwnersRight == Spec => []OwnersAsTold
BY SpecIInv, PTL DEF IInv

(* The walk of rwlock_unlock leaves nobody asleep on a lock without owners. *)
THEOREM RWLockLosesNoWakeup == Spec => []FreeMeansEmpty
BY SpecIInv, PTL DEF IInv

(* Being queued, for the kind one asked for, is being asleep.               *)
THEOREM RWLockQueueRight == Spec => []QueueMatchesStatus
BY SpecIInv, PTL DEF IInv

(* No reader sleeps while readers hold the lock: one walk lets them all in. *)
THEOREM RWLockReadersTogether == Spec => []ReadersNotStranded
BY SpecIInv, PTL DEF IInv

(* A writer is told that it holds the lock only when nobody else was.       *)
LEMMA IInvWriterAlone == IInv => WriterAlone
<1> SUFFICES ASSUME IInv, ~Nesting, NEW t \in Threads, NEW u \in Threads,
                    writes[t] > 0
             PROVE  reads[u] = 0 /\ (u # t => writes[u] = 0)
  BY DEF WriterAlone
<1>1. state = "WriteLocked"
  BY DEF IInv, KindsApart
<1>2. \A v \in Threads :
        /\ owners[v] = reads[v] + writes[v] + InFlight(v)
        /\ reads[v] \in Nat /\ writes[v] \in Nat /\ InFlight(v) \in {0, 1}
  BY DEF IInv, TypeOK, OwnersAsTold, InFlight
<1>3. reads[u] = 0
  BY <1>1, <1>2 DEF IInv, KindsApart
<1>4. ASSUME u # t PROVE writes[u] = 0
  <2>1. ASSUME writes[u] > 0 PROVE FALSE
    <3>1. owners[t] > 0 /\ owners[u] > 0
      BY <1>2, <2>1
    <3> QED
      BY <1>1, <1>4, <3>1 DEF IInv, KindsApart
  <2> QED
    BY <1>2, <2>1
<1> QED
  BY <1>3, <1>4

THEOREM RWLockWriterAlone == Spec => []WriterAlone
BY IInvWriterAlone, SpecIInv, PTL

(* The walk passes over a more urgent sleeper only if it is a writer and    *)
(* the lock has gone to readers.                                            *)
THEOREM RWLockServesMostUrgent == Spec => WakeMostUrgent
<1>1. ASSUME IInv, [Next]_vars PROVE [WakesInOrder]_vars
  <2> SUFFICES ASSUME NEW t \in Threads, NEW u \in Threads, Next,
                      status[t] = "wait", status'[t] = "run", owners'[t] > 0,
                      t # u, status[u] = "wait"
               PROVE  \/ Rank(t) <= Rank(u)
                      \/ state = "ReadLocked" /\ want[u] = "write" /\ want[t] = "read"
    BY <1>1 DEF WakesInOrder
  <2>0. /\ owners[t] = 0 /\ pc[t] = "asleep"
        /\ owners \in [Threads -> Nat] /\ status \in [Threads -> {"run", "wait"}]
    BY <1>1 DEF IInv, TypeOK, SleepersOwnNothing, QueueMatchesStatus
  <2>1. PICK w \in Threads : WakeNext(w)
    <3>1. ASSUME NEW v \in Threads, NEW k \in Kinds,
                 LockAtOnce(v, k) \/ LockRefused(v, k) \/ LockPoll(v, k)
                 \/ UnlockShared(v, k) \/ UnlockLast(v, k)
          PROVE  FALSE
      BY <3>1 DEF LockAtOnce, LockRefused, LockPoll, UnlockShared, UnlockLast
    <3>2. ASSUME NEW v \in Threads, NEW k \in Kinds, LockSleep(v, k)
          PROVE  FALSE
      BY <2>0, <3>2 DEF LockSleep
    <3>3. ASSUME NEW v \in Threads,
                 FindRWLock(v) \/ DeleteCheck(v) \/ DeleteErase(v) \/ Woken(v)
                 \/ UnlockRefused(v) \/ WakeDone(v)
          PROVE  FALSE
      BY <3>3 DEF FindRWLock, DeleteCheck, DeleteErase, Woken, UnlockRefused, WakeDone
    <3>4. ASSUME NEW v \in Threads, TimeOut(v) PROVE FALSE
      BY <2>0, <3>4 DEF TimeOut
    <3>5. ~CreateRWLock
      BY <2>0 DEF CreateRWLock
    <3> QED
      BY <3>1, <3>2, <3>3, <3>4, <3>5 DEF Next, LockCall, UnlockCall
  <2>2. PICK i \in DOMAIN waiting :
          /\ NextToWake(i)
          /\ status' = [status EXCEPT ![waiting[i].thread] = "run"]
    BY <2>1 DEF WakeNext
  <2>3. t = waiting[i].thread /\ waiting[i].kind = want[t]
    BY <1>1, <2>0, <2>2, EntrySleeps
  <2>4. PICK j \in DOMAIN waiting : waiting[j].thread = u
    BY <1>1 DEF IInv, QueueMatchesStatus, Sleepers
  <2>5. waiting[j].kind = want[u] /\ want[t] \in Kinds /\ want[u] \in Kinds
        /\ state \in {"Unlocked", "ReadLocked", "WriteLocked"}
        /\ waiting \in Seq(Entry) /\ i \in Nat /\ j \in Nat /\ i # j
    <3>1. /\ want \in [Threads -> Kinds] /\ waiting \in Seq(Entry)
          /\ state \in {"Unlocked", "ReadLocked", "WriteLocked"}
      BY <1>1 DEF IInv, TypeOK
    <3>2. u = waiting[j].thread /\ waiting[j].kind = want[u] /\ u \in Threads
      BY <1>1, <2>4, EntrySleeps
    <3>3. t \in Threads /\ t # u
      BY <1>1
    <3> QED
      BY <2>2, <2>3, <2>4, <3>1, <3>2, <3>3
  <2>6. CASE i < j
    BY <1>1, <2>3, <2>4, <2>6 DEF IInv, Ordered
  <2>7. CASE j < i
    BY <2>2, <2>3, <2>4, <2>5, <2>7 DEF NextToWake, CanWake, Kinds
  <2> QED
    BY <2>5, <2>6, <2>7
<1> QED
  BY <1>1, SpecIInv, PTL DEF Spec, WakeMostUrgent

(* For guests that do not nest the two kinds the lock implements its        *)
(* promise: readers share it, a writer has it alone.                        *)
THEOREM RWLockKeepsPromise ==
  ASSUME ~Nesting PROVE Spec => KeepsPromise
<1>1. Init => Promise!Init
  BY DEF Init, Nothing, Promise!Init, Promise!Nothing
<1>2. ASSUME IInv, [Next]_vars
      PROVE  [Promise!Next]_(Promise!vars)
  <2> USE RWLockAssumption DEF Promise!Next, Promise!vars
  <2>0. /\ reads \in [Threads -> Nat] /\ writes \in [Threads -> Nat]
        /\ \A u \in Threads : owners[u] = reads[u] + writes[u] + InFlight(u)
        /\ \A u \in Threads : InFlight(u) \in {0, 1}
    BY <1>2 DEF IInv, TypeOK, OwnersAsTold, InFlight
  <2>1. CASE UNCHANGED vars
    BY <2>1 DEF vars, told
  <2>2. CASE CreateRWLock
    <3>1. Promise!Create
      BY <2>2 DEF CreateRWLock, Nothing, Promise!Create, Promise!Nothing
    <3> QED
      BY <3>1
  <2>3. ASSUME NEW t \in Threads,
               FindRWLock(t) \/ DeleteCheck(t) \/ TimeOut(t) \/ UnlockRefused(t)
               \/ WakeNext(t) \/ WakeDone(t)
               \/ (\E k \in Kinds : LockRefused(t, k) \/ LockSleep(t, k) \/ LockPoll(t, k))
        PROVE  UNCHANGED <<registered, reads, writes>>
    BY <2>3 DEF FindRWLock, DeleteCheck, TimeOut, UnlockRefused, WakeNext, WakeDone,
       LockRefused, LockSleep, LockPoll, told
  <2>4. ASSUME NEW t \in Threads, DeleteErase(t) PROVE Promise!Delete
    BY <2>4 DEF DeleteErase, told, Promise!Delete
  <2>5. ASSUME NEW t \in Threads, NEW k \in Kinds, Granted(t, k),
               UNCHANGED registered,
               \A u \in Threads : writes[u] > 0 => k = "write" /\ u = t,
               k = "write" => \A u \in Threads : reads[u] = 0
        PROVE  Promise!GrantRead(t) \/ Promise!GrantWrite(t)
    BY <2>0, <2>5 DEF Granted, Kinds, Promise!GrantRead, Promise!GrantWrite
  <2>6. ASSUME NEW t \in Threads, NEW k \in Kinds, LockAtOnce(t, k)
        PROVE  Promise!GrantRead(t) \/ Promise!GrantWrite(t)
    <3>1. Granted(t, k) /\ UNCHANGED registered /\ MayAsk(t, k) /\ NoNeedToWait(t, k)
          /\ pc[t] # "asleep"
      BY <2>6 DEF LockAtOnce, Entering
    <3>2. InFlight(t) = 0
      BY <1>2, <3>1, AwakeRuns
    <3>3. CASE state = "Unlocked"
      BY <1>2, <2>5, <3>1, <3>3, UnlockedIsFree
    <3>4. CASE state = "ReadLocked" /\ k = "read"
      <4>1. \A u \in Threads : writes[u] = 0
        BY <1>2, <2>0, <3>4 DEF IInv, KindsApart
      <4> QED
        BY <2>5, <3>1, <3>4, <4>1
    <3>5. CASE state # "Unlocked" /\ ~(state = "ReadLocked" /\ k = "read")
      <4>1. owners[t] > 0 /\ IsRecursive(k)
        BY <3>1, <3>5 DEF NoNeedToWait
      <4>2. state = "WriteLocked"
        BY <1>2, <2>0, <3>1, <3>2, <3>5, <4>1
           DEF IInv, TypeOK, KindsApart, MayAsk, IsRecursive, Kinds
      <4>3. writes[t] > 0 /\ k = "write" /\ \A u \in Threads : reads[u] = 0
        <5>1. \A u \in Threads : reads[u] = 0
          BY <1>2, <2>0, <4>2 DEF IInv, KindsApart
        <5>2. writes[t] > 0
          BY <2>0, <3>2, <4>1, <5>1
        <5> QED
          BY <2>0, <3>1, <5>1, <5>2 DEF MayAsk, Kinds
      <4>4. \A u \in Threads : writes[u] > 0 => u = t
        BY <1>2, <2>0, <4>1, <4>2 DEF IInv, KindsApart
      <4> QED
        BY <2>5, <3>1, <4>3, <4>4
    <3> QED
      BY <3>3, <3>4, <3>5
  <2>7. ASSUME NEW t \in Threads, Woken(t)
        PROVE  Promise!GrantRead(t) \/ Promise!GrantWrite(t)
    <3>1. /\ Granted(t, want[t]) /\ UNCHANGED registered /\ want[t] \in Kinds
          /\ InFlight(t) = 1
      BY <1>2, <2>7 DEF Woken, InFlight, IInv, TypeOK
    <3>2. state = StateFor(want[t])
      BY <1>2, <3>1 DEF IInv, KindsApart
    <3>3. CASE want[t] = "read"
      <4>1. \A u \in Threads : writes[u] = 0
        BY <1>2, <2>0, <3>2, <3>3 DEF IInv, KindsApart, StateFor
      <4> QED
        BY <2>5, <3>1, <3>3, <4>1
    <3>4. CASE want[t] = "write"
      <4>1. \A u \in Threads : reads[u] = 0
        BY <1>2, <2>0, <3>2, <3>4 DEF IInv, KindsApart, StateFor
      <4>2. owners[t] > 0 /\ \A u \in Threads : writes[u] > 0 => owners[u] > 0
        BY <2>0, <3>1
      <4>3. \A u \in Threads : writes[u] > 0 => u = t
        BY <1>2, <3>2, <3>4, <4>2 DEF IInv, KindsApart, StateFor
      <4> QED
        BY <2>5, <3>1, <3>4, <4>1, <4>3
    <3> QED
      BY <3>1, <3>3, <3>4 DEF Kinds
  <2>8. ASSUME NEW t \in Threads, NEW k \in Kinds,
               UnlockShared(t, k) \/ UnlockLast(t, k)
        PROVE  Promise!GiveBackRead(t) \/ Promise!GiveBackWrite(t)
    <3>1. Released(t, k) /\ UNCHANGED registered
      BY <2>8 DEF UnlockShared, UnlockLast
    <3> QED
      BY <2>0, <3>1 DEF Released, Kinds, Promise!GiveBackRead, Promise!GiveBackWrite
  <2>9. ASSUME NEW t \in Threads, LockCall(t) \/ UnlockCall(t)
        PROVE  [Promise!Next]_(Promise!vars)
    BY <2>3, <2>6, <2>8, <2>9 DEF LockCall, UnlockCall
  <2> QED
    BY <1>2, <2>1, <2>2, <2>3, <2>4, <2>7, <2>9 DEF Next
<1> QED
  BY <1>1, <1>2, SpecIInv, PTL DEF Spec, KeepsPromise, Promise!Spec
=============================================================================
