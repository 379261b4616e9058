-------------------------- MODULE KernelMutexProofs --------------------------
(***************************************************************************)
(* The safety of KernelMutex for every number of threads, every priority   *)
(* and every positive count a guest may pass, alone and with a condition   *)
(* variable around it.  The invariant of the mutex therefore speaks about  *)
(* the status of a thread only while the thread is asleep in the mutex: in *)
(* KernelCondvar it may sleep elsewhere.                                   *)
(***************************************************************************)
EXTENDS KernelCondvar, WaitQueueTheorems

(* What the properties need to be inductive: the queue holds whoever sleeps *)
(* in the mutex, a queued or woken sleeper asked for at least one lock and  *)
(* has been told nothing yet, it does not own what it is queued for, the    *)
(* owner knows it unless it was just woken, and the queue is served from    *)
(* its most urgent end.                                                     *)
QueueHoldsSleepers ==
  /\ Distinct(waiting)
  /\ \A t \in Threads :
       t \in Sleepers(waiting) <=> pc[t] = "asleep" /\ status[t] = "wait"
  /\ \A x \in ToSet(waiting) : x.count = want[x.thread]
SleepersAsk == \A t \in Threads : pc[t] = "asleep" => want[t] > 0 /\ held[t] = 0
WaiterNotOwner ==
  \A t \in Threads : pc[t] = "asleep" /\ status[t] = "wait" => owner # t
OwnerKnows == \A t \in Threads : owner = t => held[t] > 0 \/ pc[t] = "asleep"

IInv ==
  /\ TypeOK /\ HolderIsOwner /\ NoSleeperOnFree /\ QueueHoldsSleepers
  /\ WokenOwns /\ WorkareaNamesHolder
  /\ SleepersAsk /\ WaiterNotOwner /\ OwnerKnows /\ Ordered(waiting)

(* Without a condition variable nobody sleeps outside the mutex.            *)
AwakeOutside == \A t \in Threads : pc[t] # "asleep" => status[t] = "run"

LEMMA EmptyQueue ==
  /\ Distinct(<<>>) /\ Ordered(<<>>)
  /\ ToSet(<<>>) = {} /\ Sleepers(<<>>) = {}
BY DEF Distinct, Ordered, ToSet, Sleepers

LEMMA InitIInv == Init => IInv
<1> SUFFICES ASSUME Init PROVE IInv
  OBVIOUS
<1> USE MutexAssumption DEF Init
<1>1. TypeOK
  <2>1. waiting \in Seq(Entry)
    BY EmptySeq
  <2> QED
    BY <2>1 DEF TypeOK
<1>2. QueueHoldsSleepers /\ Ordered(waiting)
  BY EmptyQueue DEF QueueHoldsSleepers
<1> QED
  BY <1>1, <1>2 DEF IInv, HolderIsOwner, NoSleeperOnFree, WokenOwns,
     WorkareaNamesHolder, SleepersAsk, WaiterNotOwner, OwnerKnows

(* Facts about one thread's entry that the action lemmas share.             *)
LEMMA Queued ==
  ASSUME IInv
  PROVE  /\ \A x \in Entry : x.thread \in Threads
         /\ waiting \in Seq(Entry)
         /\ \A t \in Threads : pc[t] # "asleep" => t \notin Sleepers(waiting)
         /\ \A x \in ToSet(waiting) : x \in Entry /\ status[x.thread] = "wait"
              /\ x.count = want[x.thread] /\ pc[x.thread] = "asleep"
<1>1. waiting \in Seq(Entry)
  BY DEF IInv, TypeOK
<1>2. ASSUME NEW t \in Threads, pc[t] # "asleep"
      PROVE  t \notin Sleepers(waiting)
  BY <1>2 DEF IInv, TypeOK, QueueHoldsSleepers
<1>3. ASSUME NEW x \in ToSet(waiting)
      PROVE  x \in Entry /\ status[x.thread] = "wait"
             /\ x.count = want[x.thread] /\ pc[x.thread] = "asleep"
  <2>1. x \in Entry
    BY <1>1 DEF ToSet
  <2>2. x.thread \in Threads /\ x.thread \in Sleepers(waiting)
    BY <2>1, SleepersOfEntries DEF Entry
  <2>3. /\ status[x.thread] = "wait" /\ pc[x.thread] = "asleep"
        /\ x.count = want[x.thread]
    BY <2>2 DEF IInv, QueueHoldsSleepers
  <2> QED
    BY <2>1, <2>3
<1> QED
  BY <1>1, <1>2, <1>3 DEF Entry

-----------------------------------------------------------------------------
(* One lemma per operation of the mutex                                     *)

LEMMA CreateKeepsIInv ==
  ASSUME IInv, NEW t \in Threads, NEW n \in InitCounts, CreateMutex(t, n)
  PROVE  IInv'
<1> USE MutexAssumption DEF CreateMutex, mutexVars, Goto, Mirror
<1>1. \A u \in Threads : pc[u] = "idle"
  OBVIOUS
<1>2. TypeOK'
  BY DEF IInv, TypeOK
<1>3. QueueHoldsSleepers' /\ Ordered(waiting)'
  BY <1>1, EmptyQueue DEF QueueHoldsSleepers
<1>4. HolderIsOwner' /\ NoSleeperOnFree' /\ WokenOwns'
  BY DEF IInv, TypeOK, HolderIsOwner, NoSleeperOnFree, WokenOwns
<1>5. WorkareaNamesHolder'
  BY DEF IInv, TypeOK, WorkareaNamesHolder
<1>6. SleepersAsk' /\ WaiterNotOwner' /\ OwnerKnows'
  BY <1>1 DEF SleepersAsk, WaiterNotOwner, OwnerKnows
<1> QED
  BY <1>2, <1>3, <1>4, <1>5, <1>6 DEF IInv

(* Steps that leave the queue and every sleeper alone.                      *)
LEMMA QuietQueue ==
  ASSUME IInv, UNCHANGED <<waiting, status, want>>, NEW t \in Threads,
         pc[t] # "asleep", NEW label, Goto(t, label), label # "asleep"
  PROVE  QueueHoldsSleepers' /\ Ordered(waiting)'
<1> QED
  BY DEF IInv, TypeOK, QueueHoldsSleepers, Goto, Distinct, Sleepers, ToSet,
     Ordered, Rank

(* Steps outside the mutex proper: a thread that is not asleep in it moves, *)
(* and what else sleeps or wakes does so outside it.                        *)
LEMMA MoveKeepsIInv ==
  ASSUME IInv, NEW t \in Threads, NEW label \in {"idle", "found", "erasing"},
         pc[t] # "asleep", Goto(t, label), registered' \in BOOLEAN,
         UNCHANGED <<mutexVars, want, held>>,
         status' \in [Threads -> {"run", "wait"}],
         \A u \in Threads : pc[u] = "asleep" => status'[u] = status[u]
  PROVE  IInv'
<1> USE MutexAssumption DEF mutexVars
<1>1. /\ pc' \in [Threads -> {"idle", "found", "asleep", "erasing"}]
      /\ pc'[t] = label
      /\ \A u \in Threads : pc'[u] = "asleep" <=> pc[u] = "asleep"
  BY DEF IInv, TypeOK, Goto
<1>2. QueueHoldsSleepers' /\ Ordered(waiting)'
  BY <1>1 DEF IInv, QueueHoldsSleepers, Distinct, Sleepers, ToSet, Ordered, Rank
<1>3. TypeOK'
  BY <1>1 DEF IInv, TypeOK
<1>4. HolderIsOwner' /\ NoSleeperOnFree' /\ WokenOwns' /\ WorkareaNamesHolder'
  BY <1>1 DEF IInv, HolderIsOwner, NoSleeperOnFree, WokenOwns, WorkareaNamesHolder
<1>5. SleepersAsk' /\ WaiterNotOwner' /\ OwnerKnows'
  BY <1>1 DEF IInv, SleepersAsk, WaiterNotOwner, OwnerKnows
<1> QED
  BY <1>2, <1>3, <1>4, <1>5 DEF IInv

LEMMA CallKeepsIInv ==
  ASSUME IInv, NEW t \in Threads,
         FindMutex(t) \/ LockRefused(t) \/ DeleteCheck(t) \/ DeleteErase(t)
         \/ \E n \in Nat \ {0} : UnlockUnderflow(t, n)
  PROVE  IInv'
<1>1. /\ UNCHANGED <<mutexVars, status, want, held>> /\ registered' \in BOOLEAN
      /\ pc[t] # "asleep"
      /\ \E label \in {"idle", "found", "erasing"} : Goto(t, label)
  BY DEF IInv, TypeOK, FindMutex, LockRefused, DeleteCheck, DeleteErase,
     UnlockUnderflow, mutexVars
<1>2. PICK label \in {"idle", "found", "erasing"} : Goto(t, label)
  BY <1>1
<1> QED
  BY <1>1, <1>2, MoveKeepsIInv DEF IInv, TypeOK

LEMMA LockFreeKeepsIInv ==
  ASSUME IInv, NEW t \in Threads, NEW n \in Nat \ {0}, LockFree(t, n)
  PROVE  IInv'
<1> USE MutexAssumption DEF LockFree, mutexVars, Mirror, Granted
<1>0. n \in Nat /\ n > 0 /\ pc[t] = "found" /\ Goto(t, "idle")
  OBVIOUS
<1>1. owner = NoThread /\ waiting = <<>> /\ \A u \in Threads : held[u] = 0
  BY DEF IInv, TypeOK, HolderIsOwner, NoSleeperOnFree
<1>2. \A u \in Threads : pc[u] # "asleep"
  BY <1>1, EmptyQueue DEF IInv, TypeOK, QueueHoldsSleepers, WokenOwns
<1>3. QueueHoldsSleepers' /\ Ordered(waiting)'
  BY <1>0, QuietQueue
<1>4. TypeOK'
  BY <1>0 DEF IInv, TypeOK, Goto
<1>5. HolderIsOwner' /\ NoSleeperOnFree' /\ WokenOwns' /\ WorkareaNamesHolder'
  BY <1>0, <1>1, <1>2 DEF IInv, TypeOK, HolderIsOwner, NoSleeperOnFree, WokenOwns,
     WorkareaNamesHolder, Goto
<1>6. SleepersAsk' /\ WaiterNotOwner' /\ OwnerKnows'
  BY <1>0, <1>1, <1>2 DEF IInv, TypeOK, SleepersAsk, WaiterNotOwner, OwnerKnows, Goto
<1> QED
  BY <1>3, <1>4, <1>5, <1>6 DEF IInv

LEMMA LockAgainKeepsIInv ==
  ASSUME IInv, NEW t \in Threads, NEW n \in Nat \ {0}, LockAgain(t, n)
  PROVE  IInv'
<1> USE MutexAssumption DEF LockAgain, mutexVars, Granted
<1>0. n \in Nat /\ n > 0 /\ pc[t] = "found" /\ Goto(t, "idle")
  OBVIOUS
<1>1. held[t] = lockCount /\ \A u \in Threads \ {t} : held[u] = 0
  BY <1>0 DEF IInv, TypeOK, HolderIsOwner, OwnerKnows
<1>2. QueueHoldsSleepers' /\ Ordered(waiting)'
  BY <1>0, QuietQueue
<1>3. TypeOK'
  <2>1. work' \in [count : Nat, owner : Threads \cup {NoThread}]
    <3>1. work \in [count : Nat, owner : Threads \cup {NoThread}]
          /\ work.count + n \in Nat
      BY <1>0 DEF IInv, TypeOK
    <3> QED
      BY <3>1
  <2>2. held' \in [Threads -> Nat] /\ lockCount' \in Nat
    BY <1>0 DEF IInv, TypeOK
  <2> QED
    BY <1>0, <2>1, <2>2 DEF IInv, TypeOK, Goto
<1>4. HolderIsOwner' /\ NoSleeperOnFree' /\ WokenOwns'
  BY <1>0, <1>1 DEF IInv, TypeOK, HolderIsOwner, NoSleeperOnFree, WokenOwns, Goto
<1>5. WorkareaNamesHolder'
  BY <1>0, <1>1 DEF IInv, TypeOK, WorkareaNamesHolder
<1>6. SleepersAsk' /\ WaiterNotOwner' /\ OwnerKnows'
  BY <1>0, <1>1 DEF IInv, TypeOK, SleepersAsk, WaiterNotOwner, OwnerKnows, Goto
<1> QED
  BY <1>2, <1>3, <1>4, <1>5, <1>6 DEF IInv

LEMMA LockPollKeepsIInv ==
  ASSUME IInv, NEW t \in Threads, LockPoll(t)
  PROVE  IInv'
<1> USE MutexAssumption DEF LockPoll, mutexVars, Mirror
<1>0. pc[t] = "found" /\ Goto(t, "idle")
  OBVIOUS
<1>1. QueueHoldsSleepers' /\ Ordered(waiting)'
  BY <1>0, QuietQueue
<1>2. TypeOK'
  BY <1>0 DEF IInv, TypeOK, Goto
<1>3. HolderIsOwner' /\ NoSleeperOnFree' /\ WokenOwns'
  BY <1>0 DEF IInv, TypeOK, HolderIsOwner, NoSleeperOnFree, WokenOwns, Goto
<1>4. WorkareaNamesHolder'
  BY <1>0 DEF IInv, TypeOK, HolderIsOwner, WorkareaNamesHolder
<1>5. SleepersAsk' /\ WaiterNotOwner' /\ OwnerKnows'
  BY <1>0 DEF IInv, TypeOK, SleepersAsk, WaiterNotOwner, OwnerKnows, Goto
<1> QED
  BY <1>1, <1>2, <1>3, <1>4, <1>5 DEF IInv

LEMMA LockSleepKeepsIInv ==
  ASSUME IInv, NEW t \in Threads, NEW n \in Nat \ {0}, LockSleep(t, n)
  PROVE  IInv'
<1> USE MutexAssumption DEF LockSleep, mutexVars
<1> DEFINE e == [thread |-> t, count |-> n]
<1>0. n \in Nat /\ n > 0 /\ pc[t] = "found" /\ Goto(t, "asleep") /\ e \in Entry
  BY DEF Entry
<1>1. t \notin Sleepers(waiting) /\ waiting \in Seq(Entry)
      /\ Distinct(waiting) /\ Ordered(waiting) /\ held[t] = 0
  <2>1. waiting \in Seq(Entry) /\ Distinct(waiting) /\ Ordered(waiting)
    BY DEF IInv, TypeOK, QueueHoldsSleepers
  <2>2. t \notin Sleepers(waiting)
    BY <1>0 DEF IInv, QueueHoldsSleepers
  <2>3. held[t] = 0
    BY <1>0 DEF IInv, TypeOK, HolderIsOwner
  <2> QED
    BY <2>1, <2>2, <2>3
<1>2. /\ waiting' \in Seq(Entry) /\ waiting' # <<>>
      /\ ToSet(waiting') = ToSet(waiting) \cup {e}
  <2>1. waiting' = Push(waiting, e)
    BY <1>0
  <2> HIDE DEF e
  <2> QED
    BY ONLY <1>0, <1>1, <2>1, PushContents
<1>3. Distinct(waiting')
  BY <1>0, <1>1, PushDistinct
<1>4. Ordered(waiting)'
  <2>1. \A x \in Entry : x.thread \in Threads
    BY DEF Entry
  <2>2. Ordered(Push(waiting, e))
    BY <1>0, <1>1, <2>1, PushOrdered
  <2> QED
    BY <2>2 DEF Ordered, Rank
<1>5. Sleepers(waiting') = Sleepers(waiting) \cup {t}
  BY <1>2, SleepersOfEntries
<1>6. TypeOK'
  BY <1>0, <1>2 DEF IInv, TypeOK, Goto
<1>7. QueueHoldsSleepers'
  <2>1. ASSUME NEW u \in Threads
        PROVE  u \in Sleepers(waiting') <=>
                 pc'[u] = "asleep" /\ status'[u] = "wait"
    BY <1>0, <1>5 DEF IInv, TypeOK, QueueHoldsSleepers, Goto
  <2>2. ASSUME NEW x \in ToSet(waiting') PROVE x.count = want'[x.thread]
    <3>1. CASE x = e
      BY <3>1 DEF IInv, TypeOK
    <3>2. CASE x \in ToSet(waiting)
      <4>1. x \in Entry /\ pc[x.thread] = "asleep" /\ x.count = want[x.thread]
        BY <3>2, Queued
      <4> QED
        BY <1>0, <4>1 DEF Entry, IInv, TypeOK
    <3> QED
      BY <1>2, <3>1, <3>2
  <2> QED
    BY <1>3, <2>1, <2>2 DEF QueueHoldsSleepers, Distinct, Sleepers, ToSet
<1>8. HolderIsOwner' /\ NoSleeperOnFree' /\ WokenOwns' /\ WorkareaNamesHolder'
  BY <1>0 DEF IInv, TypeOK, HolderIsOwner, NoSleeperOnFree, WokenOwns,
     WorkareaNamesHolder, Goto
<1>9. SleepersAsk' /\ WaiterNotOwner' /\ OwnerKnows'
  BY <1>0, <1>1 DEF IInv, TypeOK, SleepersAsk, WaiterNotOwner, OwnerKnows, Goto
<1> QED
  BY <1>4, <1>6, <1>7, <1>8, <1>9 DEF IInv

LEMMA WokenKeepsIInv ==
  ASSUME IInv, NEW t \in Threads, Woken(t)
  PROVE  IInv'
<1> USE MutexAssumption DEF Woken, mutexVars, Mirror, Granted
<1>0. /\ pc[t] = "asleep" /\ status[t] = "run" /\ Goto(t, "idle")
      /\ owner = t /\ lockCount = want[t] /\ want[t] > 0 /\ held[t] = 0
  BY DEF IInv, WokenOwns, SleepersAsk
<1>1. \A u \in Threads \ {t} : held[u] = 0
  BY <1>0 DEF IInv, TypeOK, HolderIsOwner
<1>2. TypeOK'
  BY <1>0 DEF IInv, TypeOK, Goto
<1>3. QueueHoldsSleepers' /\ Ordered(waiting)'
  BY <1>0 DEF IInv, TypeOK, QueueHoldsSleepers, Goto, Distinct, Sleepers, ToSet,
     Ordered, Rank
<1>4. HolderIsOwner' /\ NoSleeperOnFree' /\ WokenOwns' /\ WorkareaNamesHolder'
  BY <1>0, <1>1 DEF IInv, TypeOK, HolderIsOwner, NoSleeperOnFree, WokenOwns,
     WorkareaNamesHolder, Goto
<1>5. SleepersAsk' /\ WaiterNotOwner' /\ OwnerKnows'
  BY <1>0, <1>1 DEF IInv, TypeOK, SleepersAsk, WaiterNotOwner, OwnerKnows, Goto
<1> QED
  BY <1>2, <1>3, <1>4, <1>5 DEF IInv

(* Taking one sleeper out of the queue, by serving it or by its time-out.   *)
LEMMA Dequeue ==
  ASSUME IInv, NEW t \in Threads, t \in Sleepers(waiting),
         waiting' \in Seq(Entry), Distinct(waiting'),
         ToSet(waiting') = {x \in ToSet(waiting) : x.thread # t},
         status' = [status EXCEPT ![t] = "run"],
         \A u \in Threads \ {t} : u \in Sleepers(waiting) =>
            pc'[u] = pc[u] /\ want'[u] = want[u],
         \A u \in Threads \ {t} : pc'[u] = "asleep" => pc[u] = "asleep"
  PROVE  QueueHoldsSleepers'
<1>1. Sleepers(waiting') = Sleepers(waiting) \ {t}
  BY SleepersOfEntries
<1>2. ASSUME NEW u \in Threads
      PROVE  u \in Sleepers(waiting') <=>
               pc'[u] = "asleep" /\ status'[u] = "wait"
  BY <1>1 DEF IInv, TypeOK, QueueHoldsSleepers
<1>3. ASSUME NEW x \in ToSet(waiting') PROVE x.count = want'[x.thread]
  <2>1. x \in ToSet(waiting) /\ x.thread # t /\ x.thread \in Sleepers(waiting)
    BY <1>3, SleepersOfEntries
  <2>2. x.thread \in Threads /\ x.count = want[x.thread]
    BY <2>1, Queued DEF Entry
  <2> QED
    BY <2>1, <2>2
<1> QED
  BY <1>2, <1>3 DEF QueueHoldsSleepers, Distinct, Sleepers, ToSet

LEMMA TimeOutKeepsIInv ==
  ASSUME IInv, NEW t \in Threads, TimeOut(t)
  PROVE  IInv'
<1> USE MutexAssumption DEF TimeOut, mutexVars, Mirror
<1>0. /\ pc[t] = "asleep" /\ status[t] = "wait" /\ Goto(t, "idle")
      /\ t \in Sleepers(waiting) /\ waiting \in Seq(Entry)
      /\ Distinct(waiting) /\ Ordered(waiting) /\ owner # t /\ held[t] = 0
  BY DEF IInv, TypeOK, QueueHoldsSleepers, WaiterNotOwner, SleepersAsk
<1>1. /\ waiting' \in Seq(Entry) /\ Distinct(waiting') /\ Ordered(Erase(waiting, t))
      /\ ToSet(waiting') = {x \in ToSet(waiting) : x.thread # t}
  BY <1>0, EraseContents
<1>2. Ordered(waiting)'
  BY <1>1 DEF Ordered, Rank
<1>3. QueueHoldsSleepers'
  BY <1>0, <1>1, Dequeue DEF IInv, TypeOK, Goto
<1>4. TypeOK'
  BY <1>0, <1>1 DEF IInv, TypeOK, Goto
<1>5. lockCount > 0
  <2>1. waiting # <<>>
    BY <1>0, EmptyQueue
  <2> QED
    BY <2>1 DEF IInv, TypeOK, NoSleeperOnFree
<1>6. HolderIsOwner' /\ NoSleeperOnFree' /\ WokenOwns' /\ WorkareaNamesHolder'
  BY <1>0, <1>5 DEF IInv, TypeOK, HolderIsOwner, NoSleeperOnFree, WokenOwns,
     WorkareaNamesHolder, Goto
<1>7. SleepersAsk' /\ WaiterNotOwner' /\ OwnerKnows'
  BY <1>0 DEF IInv, TypeOK, SleepersAsk, WaiterNotOwner, OwnerKnows, Goto
<1> QED
  BY <1>2, <1>3, <1>4, <1>6, <1>7 DEF IInv

LEMMA UnlockPartKeepsIInv ==
  ASSUME IInv, NEW t \in Threads, NEW n \in Nat \ {0},
         UnlockOwned(t, n), lockCount # n
  PROVE  IInv'
<1> USE MutexAssumption DEF UnlockOwned, mutexVars, Released
<1>0. /\ n \in Nat /\ n > 0 /\ pc[t] = "found" /\ Goto(t, "idle")
      /\ owner = t /\ lockCount' = lockCount - n /\ lockCount' \in Nat \ {0}
      /\ UNCHANGED <<owner, waiting, status, want, work, registered>>
  BY DEF IInv, TypeOK
<1>1. held[t] = lockCount /\ \A u \in Threads \ {t} : held[u] = 0
  BY <1>0 DEF IInv, TypeOK, HolderIsOwner, OwnerKnows
<1>2. held' = [held EXCEPT ![t] = lockCount - n]
  BY <1>0, <1>1 DEF IInv, TypeOK
<1>3. QueueHoldsSleepers' /\ Ordered(waiting)'
  BY <1>0, QuietQueue
<1>4. TypeOK'
  BY <1>0, <1>2 DEF IInv, TypeOK, Goto
<1>5. HolderIsOwner' /\ NoSleeperOnFree' /\ WokenOwns' /\ WorkareaNamesHolder'
  BY <1>0, <1>1, <1>2 DEF IInv, TypeOK, HolderIsOwner, NoSleeperOnFree, WokenOwns,
     WorkareaNamesHolder, Goto
<1>6. SleepersAsk' /\ WaiterNotOwner' /\ OwnerKnows'
  BY <1>0, <1>1, <1>2 DEF IInv, TypeOK, SleepersAsk, WaiterNotOwner, OwnerKnows, Goto
<1> QED
  BY <1>3, <1>4, <1>5, <1>6 DEF IInv

(* The last unlock: the mutex becomes free, or the head's.                  *)
LEMMA UnlockLastKeepsIInv ==
  ASSUME IInv, NEW t \in Threads, UnlockOwned(t, lockCount), lockCount > 0
  PROVE  IInv'
<1> USE MutexAssumption DEF UnlockOwned, mutexVars, Released
<1> DEFINE h == Head(waiting).thread
<1>0. /\ pc[t] = "found" /\ Goto(t, "idle") /\ owner = t /\ HandOver
      /\ UNCHANGED <<want, work, registered>>
  BY DEF IInv, TypeOK
<1>1. held[t] = lockCount /\ \A u \in Threads \ {t} : held[u] = 0
  BY <1>0 DEF IInv, TypeOK, HolderIsOwner, OwnerKnows
<1>2. held' \in [Threads -> Nat] /\ \A u \in Threads : held'[u] = 0
  BY <1>0, <1>1 DEF IInv, TypeOK
<1>3. \A u \in Threads : pc[u] = "asleep" => status[u] = "wait"
  BY <1>0 DEF IInv, TypeOK, WokenOwns
<1>4. CASE waiting = <<>>
  <2>1. UNCHANGED <<waiting, status>> /\ lockCount' = 0 /\ owner' = NoThread
    BY <1>0, <1>4 DEF HandOver
  <2>2. QueueHoldsSleepers' /\ Ordered(waiting)'
    BY <1>0, <2>1, QuietQueue
  <2>3. \A u \in Threads : pc[u] # "asleep"
    BY <1>3, <1>4, EmptyQueue DEF IInv, QueueHoldsSleepers
  <2>4. TypeOK'
    BY <1>0, <1>2, <2>1 DEF IInv, TypeOK, Goto
  <2>5. HolderIsOwner' /\ NoSleeperOnFree' /\ WokenOwns' /\ WorkareaNamesHolder'
    BY <1>0, <1>2, <1>4, <2>1, <2>3 DEF IInv, TypeOK, HolderIsOwner,
       NoSleeperOnFree, WokenOwns, WorkareaNamesHolder, Goto
  <2>6. SleepersAsk' /\ WaiterNotOwner' /\ OwnerKnows'
    BY <1>0, <1>2, <2>1, <2>3 DEF IInv, TypeOK, SleepersAsk, WaiterNotOwner,
       OwnerKnows, Goto
  <2> QED
    BY <2>2, <2>4, <2>5, <2>6 DEF IInv
<1>5. CASE waiting # <<>>
  <2>0. /\ lockCount' = Head(waiting).count /\ owner' = h
        /\ waiting' = Tail(waiting) /\ status' = [status EXCEPT ![h] = "run"]
    BY <1>0, <1>5 DEF HandOver
  <2>1. waiting \in Seq(Entry) /\ Distinct(waiting) /\ Ordered(waiting)
    BY DEF IInv, TypeOK, QueueHoldsSleepers
  <2>2. /\ Head(waiting) \in ToSet(waiting)
        /\ waiting' \in Seq(Entry) /\ Distinct(waiting') /\ Ordered(Tail(waiting))
        /\ ToSet(waiting') = {x \in ToSet(waiting) : x.thread # h}
    BY <1>5, <2>0, <2>1, TailContents
  <2>3. /\ h \in Threads /\ status[h] = "wait" /\ pc[h] = "asleep"
        /\ lockCount' = want[h] /\ want[h] > 0 /\ h # t
    BY <1>0, <2>0, <2>2, Queued DEF Entry, IInv, SleepersAsk
  <2>4. Ordered(waiting)'
    BY <2>0, <2>2 DEF Ordered, Rank
  <2>5. /\ \A u \in Threads \ {h} : u \in Sleepers(waiting) =>
             pc'[u] = pc[u] /\ want'[u] = want[u]
        /\ \A u \in Threads \ {h} : pc'[u] = "asleep" => pc[u] = "asleep"
        /\ h \in Sleepers(waiting)
    BY <1>0, <2>3 DEF IInv, TypeOK, QueueHoldsSleepers, Goto
  <2>6. QueueHoldsSleepers'
    BY <2>0, <2>2, <2>3, <2>5, Dequeue
  <2>7. TypeOK'
    BY <1>0, <1>2, <2>0, <2>2, <2>3 DEF IInv, TypeOK, Goto
  <2>8. HolderIsOwner' /\ NoSleeperOnFree' /\ WorkareaNamesHolder'
    BY <1>0, <1>2, <2>0, <2>3 DEF IInv, TypeOK, HolderIsOwner, NoSleeperOnFree,
       WorkareaNamesHolder
  <2>9. WokenOwns'
    BY <1>0, <1>3, <2>0, <2>3 DEF IInv, TypeOK, WokenOwns, Goto
  <2>10. SleepersAsk' /\ WaiterNotOwner' /\ OwnerKnows'
    BY <1>0, <1>2, <1>3, <2>0, <2>3 DEF IInv, TypeOK, SleepersAsk,
       WaiterNotOwner, OwnerKnows, Goto
  <2> QED
    BY <2>4, <2>6, <2>7, <2>8, <2>9, <2>10 DEF IInv
<1> QED
  BY <1>4, <1>5

LEMMA UnlockNotOwnedKeepsIInv ==
  ASSUME IInv, NEW t \in Threads, NEW n \in Nat \ {0}, UnlockNotOwned(t, n)
  PROVE  IInv' /\ held' = held
<1> USE MutexAssumption DEF UnlockNotOwned, mutexVars, Released
<1>0. pc[t] = "found" /\ Goto(t, "idle") /\ n \in Nat /\ n > 0
  OBVIOUS
<1>1. held' = held
  BY <1>0 DEF IInv, TypeOK, HolderIsOwner
<1>2. QueueHoldsSleepers' /\ Ordered(waiting)'
  BY <1>0, QuietQueue
<1>3. TypeOK'
  BY <1>0, <1>1 DEF IInv, TypeOK, Goto
<1>4. HolderIsOwner' /\ NoSleeperOnFree' /\ WokenOwns' /\ WorkareaNamesHolder'
  BY <1>0, <1>1 DEF IInv, TypeOK, HolderIsOwner, NoSleeperOnFree, WokenOwns,
     WorkareaNamesHolder, Goto
<1>5. SleepersAsk' /\ WaiterNotOwner' /\ OwnerKnows'
  BY <1>0, <1>1 DEF IInv, TypeOK, SleepersAsk, WaiterNotOwner, OwnerKnows, Goto
<1> QED
  BY <1>1, <1>2, <1>3, <1>4, <1>5 DEF IInv

-----------------------------------------------------------------------------
(* The inductive invariant                                                  *)

LEMMA UnlockKeepsIInv ==
  ASSUME IInv, NEW t \in Threads, NEW n \in Nat \ {0}, UnlockOwned(t, n)
  PROVE  IInv'
<1>1. CASE lockCount = n
  BY <1>1, UnlockLastKeepsIInv
<1> QED
  BY <1>1, UnlockPartKeepsIInv

LEMMA NextKeepsIInv == IInv /\ [Next]_vars => IInv'
<1> SUFFICES ASSUME IInv, [Next]_vars PROVE IInv'
  OBVIOUS
<1> USE MutexAssumption
<1>1. CASE UNCHANGED vars
  BY <1>1 DEF vars, mutexVars, IInv, TypeOK, HolderIsOwner, NoSleeperOnFree,
     QueueHoldsSleepers, Distinct, Sleepers, ToSet, WokenOwns, WorkareaNamesHolder,
     SleepersAsk, WaiterNotOwner, OwnerKnows, Ordered, Rank
<1>2. ASSUME NEW t \in Threads, NEW n \in InitCounts, CreateMutex(t, n)
      PROVE  IInv'
  BY <1>2, CreateKeepsIInv
<1>3. ASSUME NEW t \in Threads,
             FindMutex(t) \/ DeleteCheck(t) \/ DeleteErase(t)
      PROVE  IInv'
  BY <1>3, CallKeepsIInv
<1>4. ASSUME NEW t \in Threads, LockCall(t) PROVE IInv'
  BY <1>4, LockFreeKeepsIInv, LockAgainKeepsIInv, LockSleepKeepsIInv,
     CallKeepsIInv, LockPollKeepsIInv DEF LockCall
<1>5. ASSUME NEW t \in Threads, Woken(t) \/ TimeOut(t) PROVE IInv'
  BY <1>5, WokenKeepsIInv, TimeOutKeepsIInv
<1>6. ASSUME NEW t \in Threads, UnlockCall(t) PROVE IInv'
  BY <1>6, UnlockKeepsIInv, CallKeepsIInv, UnlockNotOwnedKeepsIInv DEF UnlockCall
<1> QED
  BY <1>1, <1>2, <1>3, <1>4, <1>5, <1>6 DEF Next

(* Alone, only a lock call of the mutex puts a thread to sleep.             *)
LEMMA NextKeepsAwake == IInv /\ AwakeOutside /\ [Next]_vars => AwakeOutside'
<1> SUFFICES ASSUME IInv, AwakeOutside, [Next]_vars PROVE AwakeOutside'
  OBVIOUS
<1> USE DEF AwakeOutside, IInv, TypeOK, Goto, mutexVars
<1>1. CASE UNCHANGED vars
  BY <1>1 DEF vars
<1>2. ASSUME NEW t \in Threads,
             \/ \E n \in InitCounts : CreateMutex(t, n)
             \/ FindMutex(t) \/ DeleteCheck(t) \/ DeleteErase(t)
      PROVE  AwakeOutside'
  BY <1>2 DEF CreateMutex, FindMutex, DeleteCheck, DeleteErase
<1>3. ASSUME NEW t \in Threads, LockCall(t) PROVE AwakeOutside'
  BY <1>3 DEF LockCall, LockFree, LockAgain, LockSleep, LockRefused, LockPoll
<1>4. ASSUME NEW t \in Threads, Woken(t) \/ TimeOut(t) PROVE AwakeOutside'
  BY <1>4 DEF Woken, TimeOut
<1>5. ASSUME NEW t \in Threads, UnlockCall(t) PROVE AwakeOutside'
  BY <1>5 DEF UnlockCall, UnlockOwned, UnlockUnderflow, UnlockNotOwned, HandOver
<1> QED
  BY <1>1, <1>2, <1>3, <1>4, <1>5 DEF Next

LEMMA SpecIInv == Spec => [](IInv /\ AwakeOutside)
<1>1. Init => AwakeOutside
  BY DEF Init, AwakeOutside
<1> QED
  BY <1>1, InitIInv, NextKeepsIInv, NextKeepsAwake, PTL DEF Spec

-----------------------------------------------------------------------------
(* What follows from it                                                     *)

(* Type correctness of the mutex, its queue and its work area.              *)
THEOREM MutexTypeCorrect == Spec => []TypeOK
BY SpecIInv, PTL DEF IInv

(* Two guests are never both told that they hold the mutex, for every       *)
(* number of threads and whatever they are told it by.                      *)
THEOREM MutexExcludes == Spec => []MutualExclusion
<1>1. IInv => MutualExclusion
  <2> SUFFICES ASSUME IInv, NEW t \in Threads, NEW u \in Threads,
                      held[t] > 0, held[u] > 0
               PROVE  t = u
    BY DEF MutualExclusion
  <2>1. owner = t /\ owner = u
    BY DEF IInv, HolderIsOwner
  <2> QED
    BY <2>1
<1> QED
  BY <1>1, SpecIInv, PTL

(* The kernel's owner and lock_count are what the holder was told.          *)
THEOREM MutexKnowsItsHolder == Spec => []HolderIsOwner
BY SpecIInv, PTL DEF IInv

(* Nobody sleeps on a free mutex, and being queued is being asleep.         *)
THEOREM MutexLosesNoWakeup ==
  Spec => [](NoSleeperOnFree /\ QueueMatchesStatus /\ WokenOwns)
<1>1. IInv /\ AwakeOutside => QueueMatchesStatus
  <2> SUFFICES ASSUME IInv, AwakeOutside PROVE QueueMatchesStatus
    OBVIOUS
  <2>1. \A t \in Threads : status[t] = "wait" => pc[t] = "asleep"
    BY DEF AwakeOutside
  <2>2. \A t \in Threads : status[t] = "wait" <=> t \in Sleepers(waiting)
    BY <2>1 DEF IInv, QueueHoldsSleepers
  <2>3. ASSUME NEW t \in Threads, t \in Sleepers(waiting)
        PROVE  [thread |-> t, count |-> want[t]] \in ToSet(waiting)
    <3>1. PICK x \in ToSet(waiting) : x.thread = t
      BY <2>3, SleepersOfEntries
    <3>2. x \in Entry /\ x.count = want[t]
      BY <3>1, Queued
    <3>3. x = [thread |-> t, count |-> want[t]]
      BY <3>1, <3>2 DEF Entry
    <3> QED
      BY <3>3
  <2> QED
    BY <2>1, <2>2, <2>3 DEF QueueMatchesStatus, IInv, QueueHoldsSleepers
<1> QED
  BY <1>1, SpecIInv, PTL DEF IInv

(* The work area in guest memory names the holder.                          *)
THEOREM MutexWorkarea == Spec => []WorkareaNamesHolder
BY SpecIInv, PTL DEF IInv

(* Whatever the priorities are, a hand-over serves the most urgent sleeper. *)
THEOREM MutexServesMostUrgent == Spec => WakeMostUrgent
<1>1. ASSUME IInv, AwakeOutside, [Next]_vars
      PROVE  [ServesMostUrgent]_vars
  <2> SUFFICES ASSUME NEW t \in Threads, NEW u \in Threads, Next,
                      status[t] = "wait", status'[t] = "run", owner' = t,
                      status[u] = "wait"
               PROVE  Rank(t) <= Rank(u)
    BY <1>1 DEF ServesMostUrgent
  <2>1. /\ owner # t /\ u \in Sleepers(waiting) /\ waiting \in Seq(Entry)
        /\ Ordered(waiting) /\ waiting # <<>>
    BY <1>1, EmptyQueue DEF IInv, TypeOK, AwakeOutside, WaiterNotOwner,
       QueueHoldsSleepers
  <2>2. \E s \in Threads, n \in UnlockCounts : UnlockOwned(s, n) /\ HandOver
    BY <1>1, <2>1 DEF Next, LockCall, UnlockCall, CreateMutex, FindMutex, LockFree,
       LockAgain, LockSleep, LockRefused, LockPoll, Woken, TimeOut, UnlockOwned,
       UnlockUnderflow, UnlockNotOwned, DeleteCheck, DeleteErase, mutexVars
  <2>3. t = Head(waiting).thread
    BY <2>1, <2>2 DEF HandOver
  <2>4. \A x \in Entry : x.thread \in Threads
    BY DEF Entry
  <2> QED
    BY <2>1, <2>3, <2>4, HeadMostUrgent
<1> QED
  BY <1>1, SpecIInv, PTL DEF Spec, WakeMostUrgent

(* What a thread does to the mutex in one step, on its own behalf or on     *)
(* that of condvar_wait, is for the promise a grant while nobody else holds *)
(* the mutex, a give-back, a deletion or a stutter.                         *)
MutexStep(t, n) ==
  \/ FindMutex(t)
  \/ LockFree(t, n) \/ LockAgain(t, n) \/ LockSleep(t, n)
  \/ LockRefused(t) \/ LockPoll(t) \/ Woken(t) \/ TimeOut(t)
  \/ UnlockOwned(t, n) \/ UnlockUnderflow(t, n) \/ UnlockNotOwned(t, n)
  \/ DeleteCheck(t) \/ DeleteErase(t)

LEMMA MutexStepKeepsIInv ==
  ASSUME IInv, NEW t \in Threads, NEW n \in Nat \ {0}, MutexStep(t, n)
  PROVE  IInv'
BY CallKeepsIInv, LockFreeKeepsIInv, LockAgainKeepsIInv, LockSleepKeepsIInv,
   LockPollKeepsIInv, WokenKeepsIInv, TimeOutKeepsIInv, UnlockKeepsIInv,
   UnlockNotOwnedKeepsIInv DEF MutexStep

LEMMA CreateMapsToPromise ==
  ASSUME NEW t \in Threads, NEW n \in InitCounts, CreateMutex(t, n)
  PROVE  Promise!Next
BY MutexAssumption DEF CreateMutex, Promise!Create, Promise!Next

LEMMA MutexStepMapsToPromise ==
  ASSUME IInv, NEW t \in Threads, NEW n \in Nat \ {0}, MutexStep(t, n)
  PROVE  [Promise!Next]_(Promise!vars)
<1> USE MutexAssumption DEF Promise!Next, Promise!vars, Promise!OnlyFor
<1>0. held \in [Threads -> Nat]
  BY DEF IInv, TypeOK
<1>1. CASE DeleteErase(t)
  BY <1>1 DEF DeleteErase, Promise!Delete
<1>2. ASSUME NEW k \in Nat, k > 0, Granted(t, k),
             \A u \in Threads \ {t} : held[u] = 0, UNCHANGED registered
      PROVE  Promise!Grant(t)
  BY <1>0, <1>2 DEF Granted, Promise!Grant
<1>3. CASE LockFree(t, n) \/ LockAgain(t, n)
  <2>1. Granted(t, n) /\ UNCHANGED registered
        /\ \A u \in Threads \ {t} : held[u] = 0
    BY <1>3 DEF LockFree, LockAgain, IInv, TypeOK, HolderIsOwner, NoSleeperOnFree
  <2> QED
    BY <1>2, <2>1
<1>4. CASE Woken(t)
  <2>1. Granted(t, want[t]) /\ UNCHANGED registered
        /\ want[t] \in Nat /\ want[t] > 0
        /\ \A u \in Threads \ {t} : held[u] = 0
    BY <1>4 DEF Woken, IInv, TypeOK, HolderIsOwner, WokenOwns, SleepersAsk
  <2> QED
    BY <1>2, <2>1
<1>5. CASE UnlockOwned(t, n)
  <2>1. Released(t, n) /\ UNCHANGED registered
    BY <1>5 DEF UnlockOwned
  <2>2. CASE n <= held[t]
    <3>1. Promise!GiveBack(t)
      BY <1>0, <2>1, <2>2 DEF Released, Promise!GiveBack
    <3> QED
      BY <3>1
  <2>3. CASE n > held[t]
    BY <1>0, <2>1, <2>3 DEF Released
  <2> QED
    BY <1>0, <2>2, <2>3
<1>6. CASE UnlockNotOwned(t, n)
  BY <1>6, UnlockNotOwnedKeepsIInv DEF UnlockNotOwned
<1>7. CASE \/ LockSleep(t, n) \/ UnlockUnderflow(t, n) \/ FindMutex(t)
           \/ LockRefused(t) \/ LockPoll(t) \/ TimeOut(t) \/ DeleteCheck(t)
  BY <1>7 DEF LockSleep, UnlockUnderflow, FindMutex, LockRefused, LockPoll,
     TimeOut, DeleteCheck
<1> QED
  BY <1>1, <1>3, <1>4, <1>5, <1>6, <1>7 DEF MutexStep

(* The mutex implements its promise: every step is a grant while nobody     *)
(* else holds it, a give-back, a creation, a deletion or a stutter.         *)
THEOREM MutexKeepsPromise == Spec => KeepsPromise
<1>1. Init => Promise!Init
  BY DEF Init, Promise!Init
<1>2. ASSUME IInv, [Next]_vars
      PROVE  [Promise!Next]_(Promise!vars)
  <2>1. CASE UNCHANGED vars
    BY <2>1 DEF vars, Promise!vars
  <2>2. ASSUME NEW t \in Threads, NEW n \in InitCounts, CreateMutex(t, n)
        PROVE  Promise!Next
    BY <2>2, CreateMapsToPromise
  <2>3. Next => \E t \in Threads : \/ \E n \in InitCounts : CreateMutex(t, n)
                                  \/ MutexStep(t, 1)
                                  \/ \E n \in Nat \ {0} : MutexStep(t, n)
    BY MutexAssumption DEF Next, MutexStep, LockCall, UnlockCall
  <2> QED
    BY <1>2, <2>1, <2>2, <2>3, MutexStepMapsToPromise
<1> QED
  BY <1>1, <1>2, SpecIInv, PTL DEF Spec, KeepsPromise, Promise!Spec

-----------------------------------------------------------------------------
(* The mutex under a condition variable                                     *)

(* Such a step moves its thread and may wake one that sleeps in the mutex.  *)
LEMMA MutexStepMoves ==
  ASSUME IInv, NEW t \in Threads, NEW n \in Nat \ {0}, MutexStep(t, n)
  PROVE  /\ \A u \in Threads \ {t} : pc'[u] = pc[u]
         /\ \A u \in Threads \ {t} : pc[u] # "asleep" => status'[u] = status[u]
         /\ \A u \in Threads \ {t} : status'[u] = "wait" => status[u] = "wait"
         /\ status'[t] = "wait" /\ pc'[t] # "asleep" =>
              status[t] = "wait" /\ pc[t] # "asleep"
<1> USE DEF IInv, TypeOK, Goto, mutexVars
<1>1. CASE HandOver
  <2>1. CASE waiting = <<>>
    BY <1>1, <2>1 DEF MutexStep, HandOver, FindMutex, LockFree, LockAgain,
       LockSleep, LockRefused, LockPoll, Woken, TimeOut, UnlockOwned,
       UnlockUnderflow, UnlockNotOwned, DeleteCheck, DeleteErase
  <2>2. CASE waiting # <<>>
    <3> DEFINE h == Head(waiting).thread
    <3>1. status' = [status EXCEPT ![h] = "run"]
      BY <1>1, <2>2 DEF HandOver
    <3>2. Head(waiting) \in ToSet(waiting)
      BY <2>2, TailContents DEF QueueHoldsSleepers
    <3>3. h \in Threads /\ pc[h] = "asleep"
      BY <3>2, Queued DEF Entry
    <3> HIDE DEF h
    <3>4. \A u \in Threads \ {t} : pc'[u] = pc[u]
      BY DEF MutexStep, FindMutex, LockFree, LockAgain,
         LockSleep, LockRefused, LockPoll, Woken, TimeOut, UnlockOwned,
         UnlockUnderflow, UnlockNotOwned, DeleteCheck, DeleteErase
    <3>5. pc[t] = "asleep" => pc'[t] = "asleep" \/ status'[t] = "run"
      BY DEF MutexStep, FindMutex, LockFree, LockAgain,
         LockSleep, LockRefused, LockPoll, Woken, TimeOut, UnlockOwned,
         UnlockUnderflow, UnlockNotOwned, DeleteCheck, DeleteErase
    <3> QED
      BY <3>1, <3>3, <3>4, <3>5
  <2> QED
    BY <2>1, <2>2
<1>2. CASE ~HandOver
  BY <1>2 DEF MutexStep, FindMutex, LockFree, LockAgain,
     LockSleep, LockRefused, LockPoll, Woken, TimeOut, UnlockOwned,
     UnlockUnderflow, UnlockNotOwned, DeleteCheck, DeleteErase
<1> QED
  BY <1>1, <1>2

(* Where a thread may be in both objects at once: sleeping in the condition *)
(* variable is being in its queue, the mutex's code runs for condvar_wait   *)
(* only before the sleep and after it, and Condvar::mutex is held exactly   *)
(* from the unlock to the sleep.                                            *)
CondSleepersRight ==
  /\ Distinct(sleepers)
  /\ \A t \in Threads :
       t \in Sleepers(sleepers) <=> step[t] = "asleep" /\ status[t] = "wait"

StepsRight ==
  \A t \in Threads :
    /\ step[t] \in {"wait", "any", "all", "one", "delete"} => pc[t] = "found"
    /\ step[t] \in {"released", "asleep", "erasing"} => pc[t] = "idle"
    /\ step[t] = "relock" => pc[t] \in {"found", "asleep"}
    /\ status[t] = "wait" => pc[t] = "asleep" \/ step[t] = "asleep"
    /\ step[t] = "released" <=> condLock = t

CondIInv == IInv /\ CondTypeOK /\ CondSleepersRight /\ StepsRight

LEMMA InitCondIInv == CondInit => CondIInv
<1> SUFFICES ASSUME CondInit PROVE CondIInv
  OBVIOUS
<1> USE MutexAssumption DEF CondInit, Init
<1>1. IInv
  BY InitIInv
<1>2. CondTypeOK
  <2>1. sleepers \in Seq([thread : Threads])
    BY EmptySeq
  <2> QED
    BY <1>1, <2>1 DEF IInv, CondTypeOK, Steps
<1>3. CondSleepersRight /\ StepsRight
  BY EmptyQueue DEF CondSleepersRight, StepsRight
<1> QED
  BY <1>1, <1>2, <1>3 DEF CondIInv

(* A step of the mutex leaves the condition variable's sleepers alone.      *)
LEMMA MutexStepKeepsCond ==
  ASSUME CondIInv, NEW t \in Threads, NEW n \in Nat \ {0}, MutexStep(t, n),
         UNCHANGED <<condRegistered, sleepers>>, NEW label \in Steps,
         Advance(t, label), step[t] # "asleep", label # "asleep",
         condLock' \in Threads \cup {NoThread},
         label \in {"none", "relock", "released"},
         label = "released" => pc'[t] = "idle" /\ condLock' = t /\ condLock = NoThread,
         label # "released" => condLock' = condLock /\ step[t] # "released",
         label = "relock" => pc'[t] \in {"found", "asleep"}
  PROVE  CondIInv'
<1> USE MutexAssumption
<1>1. IInv'
  BY MutexStepKeepsIInv DEF CondIInv
<1>2. CondTypeOK'
  BY <1>1 DEF CondIInv, IInv, CondTypeOK, Advance
<1>3. /\ \A u \in Threads \ {t} : pc'[u] = pc[u] /\ step'[u] = step[u]
      /\ \A u \in Threads \ {t} : pc[u] # "asleep" => status'[u] = status[u]
      /\ \A u \in Threads \ {t} : status'[u] = "wait" => status[u] = "wait"
      /\ status'[t] = "wait" /\ pc'[t] # "asleep" =>
              status[t] = "wait" /\ pc[t] # "asleep"
      /\ step'[t] = label
  BY MutexStepMoves DEF CondIInv, CondTypeOK, Advance
<1>4. CondSleepersRight'
  BY <1>3 DEF CondIInv, CondSleepersRight, StepsRight, Distinct, Sleepers
<1>5. StepsRight'
  BY <1>3 DEF CondIInv, StepsRight, CondTypeOK
<1> QED
  BY <1>1, <1>2, <1>4, <1>5 DEF CondIInv

LEMMA WaitReleaseKeepsCond ==
  ASSUME CondIInv, NEW t \in Threads, WaitRelease(t)
  PROVE  CondIInv'
<1>1. MutexStep(t, 1) /\ pc'[t] = "idle"
  BY DEF WaitRelease, MutexStep, UnlockOwned, UnlockNotOwned, Goto, CondIInv, IInv,
     TypeOK
<1> QED
  BY <1>1, MutexStepKeepsCond DEF WaitRelease, Steps

LEMMA WaitRelockKeepsCond ==
  ASSUME CondIInv, NEW t \in Threads, WaitRelock(t)
  PROVE  CondIInv'
<1>1. MutexStep(t, 1) /\ pc'[t] \in {"idle", "asleep"}
  BY DEF WaitRelock, MutexStep, LockFree, LockAgain, LockSleep, LockPoll, Woken,
     TimeOut, LockRefused, Goto, CondIInv, IInv, TypeOK
<1>2. CASE pc'[t] = "idle"
  BY <1>1, <1>2, MutexStepKeepsCond DEF WaitRelock, Steps, CondIInv, CondTypeOK
<1>3. CASE pc'[t] = "asleep"
  BY <1>1, <1>3, MutexStepKeepsCond DEF WaitRelock, Steps, CondIInv, CondTypeOK
<1> QED
  BY <1>1, <1>2, <1>3

LEMMA MutexCallKeepsCond ==
  ASSUME CondIInv, NEW t \in Threads, MutexCall(t)
  PROVE  CondIInv'
<1> USE MutexAssumption
<1>0. step[t] = "none" /\ UNCHANGED condVars /\ Advance(t, "none")
  BY DEF MutexCall, condVars, Advance, CondIInv, CondTypeOK
<1>1. CASE \E n \in InitCounts : CreateMutex(t, n)
  <2>1. IInv' /\ UNCHANGED <<status, pc>>
    BY <1>1, CreateKeepsIInv DEF CondIInv, CreateMutex
  <2> QED
    BY <1>0, <2>1 DEF CondIInv, IInv, CondTypeOK, CondSleepersRight, StepsRight,
       condVars, Distinct, Sleepers
<1>2. CASE \E n \in Nat \ {0} : MutexStep(t, n)
  BY <1>0, <1>2, MutexStepKeepsCond DEF condVars, Steps, CondIInv, CondTypeOK
<1>3. MutexStep(t, 1) \/ (\E n \in Nat \ {0} : MutexStep(t, n))
      \/ \E n \in InitCounts : CreateMutex(t, n)
  BY DEF MutexCall, MutexStep, LockCall, UnlockCall
<1> QED
  BY <1>1, <1>2, <1>3

-----------------------------------------------------------------------------
(* The condition variable's own steps                                       *)

(* The thread's place in the mutex's code changes, nobody falls asleep or   *)
(* wakes up.                                                                *)
LEMMA QuietCondStep ==
  ASSUME CondIInv, NEW t \in Threads,
         NEW place \in {"idle", "found"}, NEW label \in Steps,
         pc[t] # "asleep", Goto(t, place), Advance(t, label),
         UNCHANGED <<registered, mutexVars, status, want, held, sleepers>>,
         condRegistered' \in BOOLEAN,
         step[t] = "asleep" => status[t] = "run",
         step[t] # "asleep" => label # "asleep",
         label \in {"wait", "any", "all", "one", "delete"} => place = "found",
         label \in {"released", "asleep", "erasing"} => place = "idle",
         label = "relock" => place = "found",
         label # "released",
         step[t] = "released" => condLock' = NoThread,
         step[t] # "released" => condLock' = condLock
  PROVE  CondIInv'
<1> USE MutexAssumption
<1>1. IInv'
  BY MoveKeepsIInv DEF CondIInv, IInv, TypeOK
<1>2. CondTypeOK'
  BY <1>1 DEF CondIInv, IInv, CondTypeOK, Advance
<1>3. /\ \A u \in Threads \ {t} : pc'[u] = pc[u] /\ step'[u] = step[u]
      /\ pc'[t] = place /\ step'[t] = label
  BY DEF CondIInv, IInv, TypeOK, CondTypeOK, Advance, Goto
<1>4. CondSleepersRight'
  <2>1. label = "asleep" => step[t] = "asleep" /\ status[t] = "run"
    OBVIOUS
  <2> QED
    BY <1>3, <2>1 DEF CondIInv, CondSleepersRight, Distinct, Sleepers
<1>5. StepsRight'
  BY <1>3 DEF CondIInv, StepsRight, CondTypeOK
<1> QED
  BY <1>1, <1>2, <1>4, <1>5 DEF CondIInv

LEMMA QuietStepsKeepCond ==
  ASSUME CondIInv, NEW t \in Threads,
         \/ \E label \in {"wait", "any", "all", "one", "delete"} :
              FindCondvar(t, label)
         \/ WaitPoll(t) \/ WaitWoken(t) \/ CondDeleteCheck(t) \/ CondDeleteErase(t)
  PROVE  CondIInv'
<1> USE DEF Steps
<1>0. /\ condLock \in Threads \cup {NoThread} /\ condRegistered \in BOOLEAN
      /\ pc \in [Threads -> {"idle", "found", "asleep", "erasing"}]
  BY DEF CondIInv, CondTypeOK, TypeOK
<1>1. ASSUME NEW label \in {"wait", "any", "all", "one", "delete"},
             FindCondvar(t, label)
      PROVE  CondIInv'
  BY <1>0, <1>1, QuietCondStep DEF FindCondvar
<1>2. CASE WaitPoll(t)
  <2>1. pc[t] = "idle" /\ Goto(t, "idle")
    BY <1>0, <1>2 DEF WaitPoll, CondIInv, StepsRight, Goto, vars
  <2> QED
    BY <1>0, <1>2, <2>1, QuietCondStep DEF WaitPoll, vars
<1>3. CASE WaitWoken(t)
  <2>1. pc[t] = "idle"
    BY <1>3 DEF WaitWoken, CondIInv, StepsRight
  <2> QED
    BY <1>0, <1>3, <2>1, QuietCondStep DEF WaitWoken
<1>4. CASE CondDeleteCheck(t)
  <2>1. CASE sleepers = <<>>
    BY <1>0, <1>4, <2>1, QuietCondStep DEF CondDeleteCheck
  <2>2. CASE sleepers # <<>>
    BY <1>0, <1>4, <2>2, QuietCondStep DEF CondDeleteCheck
  <2> QED
    BY <2>1, <2>2
<1>5. CASE CondDeleteErase(t)
  <2>1. pc[t] = "idle" /\ Goto(t, "idle")
    BY <1>0, <1>5 DEF CondDeleteErase, CondIInv, StepsRight, Goto, vars
  <2> QED
    BY <1>0, <1>5, <2>1, QuietCondStep DEF CondDeleteErase, vars
<1> QED
  BY <1>1, <1>2, <1>3, <1>4, <1>5

LEMMA CreateCondvarKeepsCond ==
  ASSUME CondIInv, CreateCondvar
  PROVE  CondIInv'
<1> USE DEF CreateCondvar
<1>1. IInv'
  BY DEF CondIInv, IInv, vars, mutexVars, TypeOK, HolderIsOwner, NoSleeperOnFree,
     QueueHoldsSleepers, Distinct, Sleepers, ToSet, WokenOwns, WorkareaNamesHolder,
     SleepersAsk, WaiterNotOwner, OwnerKnows, Ordered, Rank
<1>2. CondTypeOK'
  <2>1. sleepers' \in Seq([thread : Threads])
    BY EmptySeq
  <2> QED
    BY <1>1, <2>1 DEF CondIInv, IInv, CondTypeOK
<1>3. CondSleepersRight' /\ StepsRight'
  <2>1. Distinct(sleepers') /\ Sleepers(sleepers') = {}
    BY EmptyQueue
  <2>2. UNCHANGED <<pc, status>>
    BY DEF vars
  <2>3. CondSleepersRight'
    <3>1. Distinct(sleepers)' /\ \A t \in Threads : t \notin Sleepers(sleepers)'
      BY <2>1
    <3> QED
      BY <3>1 DEF CondSleepersRight
  <2> QED
    BY <2>2, <2>3 DEF CondIInv, StepsRight
<1> QED
  BY <1>1, <1>2, <1>3 DEF CondIInv

LEMMA WaitSleepKeepsCond ==
  ASSUME CondIInv, NEW t \in Threads, WaitSleep(t)
  PROVE  CondIInv'
<1> USE MutexAssumption DEF WaitSleep
<1> DEFINE e == [thread |-> t]
           S == [thread : Threads]
<1>0. /\ pc[t] = "idle" /\ Goto(t, "idle") /\ e \in S /\ sleepers \in Seq(S)
      /\ Distinct(sleepers) /\ t \notin Sleepers(sleepers) /\ condLock = t
  BY DEF CondIInv, IInv, TypeOK, CondTypeOK, StepsRight, CondSleepersRight, Goto
<1>1. IInv'
  BY <1>0, MoveKeepsIInv DEF CondIInv, IInv, TypeOK
<1>2. /\ sleepers' \in Seq(S) /\ Distinct(sleepers')
      /\ ToSet(sleepers') = ToSet(sleepers) \cup {e}
  <2>1. sleepers' = Push(sleepers, e) /\ e.thread \notin Sleepers(sleepers)
    BY <1>0
  <2> HIDE DEF e, S
  <2>2. Distinct(Push(sleepers, e))
    BY <1>0, <2>1, PushDistinct
  <2>3. /\ Push(sleepers, e) \in Seq(S)
        /\ ToSet(Push(sleepers, e)) = ToSet(sleepers) \cup {e}
    BY <1>0, PushContents
  <2> QED
    BY <2>1, <2>2, <2>3
<1>3. Sleepers(sleepers') = Sleepers(sleepers) \cup {t}
  BY <1>2, SleepersOfEntries
<1>4. CondTypeOK'
  BY <1>1, <1>2 DEF CondIInv, IInv, CondTypeOK, Advance, Steps
<1>5. CondSleepersRight'
  <2>1. Distinct(sleepers)'
    BY <1>2 DEF Distinct
  <2>2. ASSUME NEW u \in Threads
        PROVE  u \in Sleepers(sleepers') <=> step'[u] = "asleep" /\ status'[u] = "wait"
    BY <1>3 DEF CondIInv, IInv, TypeOK, CondTypeOK, CondSleepersRight, Advance
  <2> QED
    BY <2>1, <2>2 DEF CondSleepersRight, Sleepers
<1>6. StepsRight'
  BY <1>0 DEF CondIInv, IInv, TypeOK, CondTypeOK, StepsRight, Advance
<1> QED
  BY <1>1, <1>4, <1>5, <1>6 DEF CondIInv

(* Taking one thread out of the queue, by a signal or by its time-out.      *)
LEMMA OneWakes ==
  ASSUME CondIInv, NEW t \in Threads, NEW u \in Threads, u \in Sleepers(sleepers),
         sleepers' = Erase(sleepers, u), status' = [status EXCEPT ![u] = "run"],
         step[t] # "released", condLock' = condLock,
         Goto(t, "idle"), Advance(t, "none"), pc[t] # "asleep",
         t = u \/ step[t] # "asleep",
         UNCHANGED <<registered, mutexVars, want, held, condRegistered>>
  PROVE  CondIInv'
<1> USE MutexAssumption
<1>0. /\ sleepers \in Seq([thread : Threads]) /\ Distinct(sleepers)
      /\ step[u] = "asleep" /\ status[u] = "wait" /\ pc[u] = "idle"
  BY DEF CondIInv, CondTypeOK, CondSleepersRight, StepsRight
<1>1. IInv'
  BY <1>0, MoveKeepsIInv DEF CondIInv, IInv, TypeOK
<1>2. /\ sleepers' \in Seq([thread : Threads]) /\ Distinct(sleepers')
      /\ ToSet(sleepers') = {x \in ToSet(sleepers) : x.thread # u}
  BY <1>0, EraseContents
<1>3. Sleepers(sleepers') = Sleepers(sleepers) \ {u}
  BY <1>2, SleepersOfEntries
<1>4. CondTypeOK'
  BY <1>1, <1>2 DEF CondIInv, IInv, CondTypeOK, Advance, Steps
<1>5. CondSleepersRight'
  <2>1. Distinct(sleepers)'
    BY <1>2 DEF Distinct
  <2>2. ASSUME NEW v \in Threads
        PROVE  v \in Sleepers(sleepers') <=> step'[v] = "asleep" /\ status'[v] = "wait"
    BY <1>0, <1>3 DEF CondIInv, IInv, TypeOK, CondTypeOK, CondSleepersRight, Advance
  <2> QED
    BY <2>1, <2>2 DEF CondSleepersRight, Sleepers
<1>6. StepsRight'
  BY <1>0 DEF CondIInv, IInv, TypeOK, CondTypeOK, StepsRight, Advance, Goto
<1> QED
  BY <1>1, <1>4, <1>5, <1>6 DEF CondIInv

LEMMA WaitTimeOutKeepsCond ==
  ASSUME CondIInv, NEW t \in Threads, WaitTimeOut(t)
  PROVE  CondIInv'
<1>1. pc[t] = "idle" /\ Goto(t, "idle") /\ t \in Sleepers(sleepers)
  BY DEF WaitTimeOut, CondIInv, IInv, TypeOK, StepsRight, CondSleepersRight, Goto
<1> QED
  BY <1>1, OneWakes DEF WaitTimeOut

LEMMA SignalThreadKeepsCond ==
  ASSUME CondIInv, NEW t \in Threads, NEW u \in Threads, SignalThread(t, u)
  PROVE  CondIInv'
<1>1. pc[t] = "found" /\ step[t] = "one" /\ Goto(t, "idle") /\ Advance(t, "none")
  BY DEF SignalThread, CondReturn, CondIInv, StepsRight
<1>2. CASE u \in Sleepers(sleepers)
  BY <1>1, <1>2, OneWakes DEF SignalThread
<1>3. CASE u \notin Sleepers(sleepers)
  BY <1>1, <1>3, QuietCondStep DEF SignalThread, Steps, CondIInv, CondTypeOK
<1> QED
  BY <1>2, <1>3

LEMMA SignalEverybodyKeepsCond ==
  ASSUME CondIInv, NEW t \in Threads, SignalEverybody(t)
  PROVE  CondIInv'
<1> USE MutexAssumption DEF SignalEverybody, CondReturn
<1>0. pc[t] = "found" /\ step[t] \in {"any", "all"}
      /\ status' \in [Threads -> {"run", "wait"}]
  BY DEF CondIInv, IInv, TypeOK, StepsRight
<1>1. \A u \in Threads : u \in Sleepers(sleepers) =>
        step[u] = "asleep" /\ pc[u] = "idle"
  BY DEF CondIInv, CondSleepersRight, StepsRight
<1>2. IInv'
  BY <1>0, <1>1, MoveKeepsIInv DEF CondIInv, IInv, TypeOK
<1>3. CondTypeOK'
  <2>1. sleepers' \in Seq([thread : Threads])
    BY EmptySeq
  <2> QED
    BY <1>2, <2>1 DEF CondIInv, IInv, CondTypeOK, Advance, Steps
<1>4. CondSleepersRight'
  <2>1. Distinct(sleepers)' /\ \A u \in Threads : u \notin Sleepers(sleepers)'
    BY EmptyQueue
  <2>2. ASSUME NEW u \in Threads, step'[u] = "asleep" PROVE status'[u] # "wait"
    BY <1>0, <2>2 DEF CondIInv, CondTypeOK, CondSleepersRight, Advance
  <2> QED
    BY <2>1, <2>2 DEF CondSleepersRight
<1>5. StepsRight'
  BY <1>0 DEF CondIInv, IInv, TypeOK, CondTypeOK, StepsRight, Advance, Goto
<1> QED
  BY <1>2, <1>3, <1>4, <1>5 DEF CondIInv

LEMMA CondNextKeepsCondIInv == CondIInv /\ [CondNext]_allVars => CondIInv'
<1> SUFFICES ASSUME CondIInv, [CondNext]_allVars PROVE CondIInv'
  OBVIOUS
<1>1. CASE UNCHANGED allVars
  <2>1. IInv'
    BY <1>1 DEF CondIInv, IInv, allVars, vars, mutexVars, TypeOK, HolderIsOwner,
       NoSleeperOnFree, QueueHoldsSleepers, Distinct, Sleepers, ToSet, WokenOwns,
       WorkareaNamesHolder, SleepersAsk, WaiterNotOwner, OwnerKnows, Ordered, Rank
  <2> QED
    BY <1>1, <2>1 DEF allVars, vars, condVars, CondIInv, IInv, CondTypeOK,
       CondSleepersRight, StepsRight, Distinct, Sleepers
<1>2. CASE CreateCondvar
  BY <1>2, CreateCondvarKeepsCond
<1>3. ASSUME NEW t \in Threads, MutexCall(t) PROVE CondIInv'
  BY <1>3, MutexCallKeepsCond
<1>4. ASSUME NEW t \in Threads, Wait(t) PROVE CondIInv'
  BY <1>4, WaitReleaseKeepsCond, WaitSleepKeepsCond, QuietStepsKeepCond,
     WaitTimeOutKeepsCond, WaitRelockKeepsCond DEF Wait
<1>5. ASSUME NEW t \in Threads, Signal(t) PROVE CondIInv'
  BY <1>5, SignalEverybodyKeepsCond, SignalThreadKeepsCond DEF Signal
<1>6. ASSUME NEW t \in Threads,
             \/ \E label \in {"wait", "any", "all", "one", "delete"} :
                  FindCondvar(t, label)
             \/ CondDelete(t)
      PROVE  CondIInv'
  BY <1>6, QuietStepsKeepCond DEF CondDelete
<1> QED
  BY <1>1, <1>2, <1>3, <1>4, <1>5, <1>6 DEF CondNext

LEMMA CondSpecIInv == CondSpec => []CondIInv
BY InitCondIInv, CondNextKeepsCondIInv, PTL DEF CondSpec

(* Type correctness of the condition variable and its mutex.                *)
THEOREM CondvarTypeCorrect == CondSpec => []CondTypeOK
BY CondSpecIInv, PTL DEF CondIInv

(* A thread sleeps in one queue at a time, in which it has one entry, and   *)
(* its status says so: condvar_wait, the mutex and the time-outs of both    *)
(* never leave it in two, or in none.                                       *)
THEOREM CondvarQueuesMatchStatus == CondSpec => []OneQueueMatchesStatus
<1>1. CondIInv => OneQueueMatchesStatus
  <2> SUFFICES ASSUME CondIInv PROVE OneQueueMatchesStatus
    OBVIOUS
  <2>1. Distinct(sleepers) /\ Distinct(waiting)
    BY DEF CondIInv, IInv, CondSleepersRight, QueueHoldsSleepers
  <2>2. Sleepers(sleepers) \subseteq Threads
    <3> DEFINE S == [thread : Threads]
    <3>1. sleepers \in Seq(S)
      BY DEF CondIInv, CondTypeOK
    <3>2. \A x \in S : x.thread \in Threads
      OBVIOUS
    <3> HIDE DEF S
    <3>3. \A i \in DOMAIN sleepers : sleepers[i] \in S
      BY <3>1
    <3> QED
      BY <3>2, <3>3 DEF Sleepers
  <2>3. Sleepers(sleepers) \cap Sleepers(waiting) = {}
    BY <2>2 DEF CondIInv, IInv, CondSleepersRight, QueueHoldsSleepers, StepsRight
  <2>4. \A t \in Threads :
          status[t] = "wait" <=> t \in Sleepers(sleepers) \cup Sleepers(waiting)
    BY DEF CondIInv, IInv, CondSleepersRight, QueueHoldsSleepers, StepsRight
  <2> QED
    BY <2>1, <2>3, <2>4 DEF OneQueueMatchesStatus
<1> QED
  BY <1>1, CondSpecIInv, PTL

(* Waiting on the condition variable keeps the mutex's promises: mutual     *)
(* exclusion, an owner that is the holder, nobody asleep on a free mutex.   *)
THEOREM CondvarKeepsMutexRight == CondSpec => []WaitersKeepMutexRight
<1>1. CondIInv => WaitersKeepMutexRight
  <2> SUFFICES ASSUME CondIInv PROVE WaitersKeepMutexRight
    OBVIOUS
  <2>1. HolderIsOwner /\ NoSleeperOnFree
    BY DEF CondIInv, IInv
  <2>2. MutualExclusion
    BY <2>1 DEF HolderIsOwner, MutualExclusion
  <2> QED
    BY <2>1, <2>2 DEF WaitersKeepMutexRight
<1> QED
  BY <1>1, CondSpecIInv, PTL

(* A signal to all that returns has woken every thread that had given the   *)
(* mutex back for a wait: Condvar::mutex closes the gap before the sleep.   *)
THEOREM CondvarLosesNoSignal == CondSpec => NoSignalLost
<1>1. ASSUME CondIInv, [CondNext]_allVars
      PROVE  [SignalReachesAll]_allVars
  <2> SUFFICES ASSUME CondNext, NEW s \in Threads, NEW t \in Threads,
                      step[s] = "all", step'[s] = "none"
               PROVE  /\ step[t] # "released"
                      /\ step[t] = "asleep" => status'[t] = "run"
    BY <1>1 DEF SignalReachesAll
  <2>1. SignalEverybody(s)
    <3>1. step[s] # step'[s]
      OBVIOUS
    <3>2. \A u \in Threads : \A label : Advance(u, label) => u = s
      BY <3>1, <1>1 DEF CondIInv, CondTypeOK, Advance
    <3>3. ~CreateCondvar /\ \A u \in Threads : ~MutexCall(u)
      BY <3>1 DEF CreateCondvar, MutexCall, condVars
    <3>4. PICK u \in Threads :
            \/ \E label \in {"wait", "any", "all", "one", "delete"} :
                 FindCondvar(u, label)
            \/ Wait(u) \/ Signal(u) \/ CondDelete(u)
      BY <3>3 DEF CondNext
    <3>5. u = s
      BY <3>2, <3>4 DEF FindCondvar, Wait, WaitRelease, WaitSleep, WaitPoll,
         WaitTimeOut, WaitWoken, WaitRelock, Signal, SignalEverybody, SignalThread,
         CondReturn, CondDelete, CondDeleteCheck, CondDeleteErase
    <3> QED
      BY <3>4, <3>5 DEF FindCondvar, Wait, WaitRelease, WaitSleep, WaitPoll,
         WaitTimeOut, WaitWoken, WaitRelock, Signal, SignalThread, CondDelete,
         CondDeleteCheck, CondDeleteErase
  <2>2. condLock = NoThread
    BY <2>1 DEF SignalEverybody
  <2>3. step[t] # "released"
    BY <1>1, <2>2, MutexAssumption DEF CondIInv, StepsRight
  <2>4. step[t] = "asleep" => status'[t] = "run"
    BY <1>1, <2>1 DEF SignalEverybody, CondIInv, CondSleepersRight, IInv, TypeOK
  <2> QED
    BY <2>3, <2>4
<1> QED
  BY <1>1, CondSpecIInv, PTL DEF CondSpec, NoSignalLost

(* Around a condition variable the mutex still implements its promise: what *)
(* condvar_wait gives back and takes again is a give-back and a grant.      *)
THEOREM CondvarKeepsMutexPromise == CondSpec => KeepsPromise
<1>1. CondInit => Promise!Init
  BY DEF CondInit, Init, Promise!Init
<1>2. ASSUME CondIInv, [CondNext]_allVars
      PROVE  [Promise!Next]_(Promise!vars)
  <2>0. IInv
    BY <1>2 DEF CondIInv
  <2>1. CASE UNCHANGED <<registered, held>>
    BY <2>1 DEF Promise!vars
  <2>2. CASE UNCHANGED allVars \/ CreateCondvar
    BY <2>1, <2>2 DEF allVars, vars, CreateCondvar
  <2>3. ASSUME NEW t \in Threads, MutexCall(t)
        PROVE  [Promise!Next]_(Promise!vars)
    <3>1. \/ \E n \in InitCounts : CreateMutex(t, n)
          \/ MutexStep(t, 1)
          \/ \E n \in Nat \ {0} : MutexStep(t, n)
      BY <2>3, MutexAssumption DEF MutexCall, MutexStep, LockCall, UnlockCall
    <3> QED
      BY <2>0, <3>1, CreateMapsToPromise, MutexStepMapsToPromise
  <2>4. ASSUME NEW t \in Threads, Wait(t)
        PROVE  [Promise!Next]_(Promise!vars)
    <3>1. CASE WaitRelease(t) \/ WaitRelock(t)
      <4>1. MutexStep(t, 1)
        BY <3>1 DEF WaitRelease, WaitRelock, MutexStep
      <4> QED
        BY <2>0, <4>1, MutexStepMapsToPromise
    <3>2. CASE WaitSleep(t) \/ WaitPoll(t) \/ WaitTimeOut(t) \/ WaitWoken(t)
      BY <2>1, <3>2 DEF WaitSleep, WaitPoll, WaitTimeOut, WaitWoken, vars
    <3> QED
      BY <2>4, <3>1, <3>2 DEF Wait
  <2>5. ASSUME NEW t \in Threads, Signal(t) \/ CondDelete(t)
               \/ \E label \in {"wait", "any", "all", "one", "delete"} :
                    FindCondvar(t, label)
        PROVE  [Promise!Next]_(Promise!vars)
    BY <2>1, <2>5 DEF Signal, SignalEverybody, SignalThread, CondDelete,
       CondDeleteCheck, CondDeleteErase, FindCondvar, vars
  <2> QED
    BY <1>2, <2>2, <2>3, <2>4, <2>5 DEF CondNext
<1> QED
  BY <1>1, <1>2, CondSpecIInv, PTL DEF CondSpec, KeepsPromise, Promise!Spec
=============================================================================
