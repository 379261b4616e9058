----------------------------- MODULE KernelMutex -----------------------------
(***************************************************************************)
(* One kernel mutex (sync_primitives.cpp, struct Mutex) and the guest      *)
(* threads that lock, try, unlock and delete it.  Light and heavy mutexes  *)
(* run the same code; a light one also mirrors its state into a work area  *)
(* in guest memory.                                                        *)
(*                                                                         *)
(* A step is what runs between two points where a guest thread can be      *)
(* overtaken: the look-up of the uid under kernel.mutex, and the region    *)
(* under Mutex::mutex.  A thread sleeps inside that region (handle_timeout *)
(* waits on status_cond with the mutex's own lock), so falling asleep,     *)
(* waking and timing out are steps of their own.                           *)
(***************************************************************************)
EXTENDS WaitQueue

CONSTANTS
  NoThread,      (* Mutex::owner == nullptr                                 *)
  Recursive,     (* SCE_KERNEL_MUTEX_ATTR_RECURSIVE                         *)
  Light,         (* SyncWeight::Light: there is a work area                 *)
  Timed,         (* threads whose lock calls pass a timeout                 *)
  Deleters,      (* threads that may call mutex_delete                      *)
  InitCounts,    (* init_count arguments of mutex_create                    *)
  LockCounts,    (* lock_count arguments of lock and try_lock               *)
  UnlockCounts,  (* unlock_count arguments of unlock                        *)
  MaxLockCount   (* bound: recursive locking stops here, and so does the    *)
                 (* growth of the work area's count                         *)

(* The lock calls pass the guest's count through unchecked; the theorems    *)
(* are about guests that ask for at least one.                              *)
ASSUME MutexAssumption ==
  /\ NoThread \notin Threads
  /\ Recursive \in BOOLEAN /\ Light \in BOOLEAN
  /\ Timed \subseteq Threads /\ Deleters \subseteq Threads
  /\ InitCounts \subseteq Nat
  /\ LockCounts \subseteq Nat \ {0} /\ UnlockCounts \subseteq Nat \ {0}
  /\ MaxLockCount \in Nat

VARIABLES
  registered,  (* the uid is in kernel.mutexes                              *)
  lockCount,   (* Mutex::lock_count                                         *)
  owner,       (* Mutex::owner                                              *)
  waiting,     (* Mutex::waiting_threads: entries [thread, count]           *)
  work,        (* SceKernelLwMutexWork: [count, owner]                      *)
  status,      (* ThreadState::status of each guest thread                  *)
  pc,          (* where each guest thread is inside a call                  *)
  want,        (* the lock_count argument of a call that went to sleep      *)
  held         (* what each guest was told: locks granted minus released    *)

mutexVars == <<lockCount, owner, waiting, work>>
vars == <<registered, mutexVars, status, pc, want, held>>

Entry == [thread : Threads, count : Nat]

TypeOK ==
  /\ registered \in BOOLEAN
  /\ lockCount \in Nat
  /\ owner \in Threads \cup {NoThread}
  /\ waiting \in Seq(Entry)
  /\ work \in [count : Nat, owner : Threads \cup {NoThread}]
  /\ status \in [Threads -> {"run", "wait"}]
  /\ pc \in [Threads -> {"idle", "found", "asleep", "erasing"}]
  /\ want \in [Threads -> Nat]
  /\ held \in [Threads -> Nat]

Goto(t, label) == pc' = [pc EXCEPT ![t] = label]

(* Mutant of Mirror: whoever writes names itself as the owner.              *)
MirrorNamingWriter(t) ==
  work' = IF Light THEN [count |-> lockCount', owner |-> t] ELSE work

(* What a light mutex writes into its work area after it has been locked.   *)
Mirror(t) ==
  work' = IF Light
          THEN [count |-> lockCount',
                owner |-> IF owner' = t THEN t ELSE work.owner]
          ELSE work

-----------------------------------------------------------------------------
(* Creating and looking up                                                  *)

Init ==
  /\ registered = FALSE
  /\ lockCount = 0 /\ owner = NoThread /\ waiting = <<>>
  /\ work = [count |-> 0, owner |-> NoThread]
  /\ status = [t \in Threads |-> "run"]
  /\ pc = [t \in Threads |-> "idle"]
  /\ want = [t \in Threads |-> 0]
  /\ held = [t \in Threads |-> 0]

(* mutex_create: a new object and a new uid.  A mutex created with an       *)
(* initial count is owned by its creator.  The model follows one object at  *)
(* a time, so a new one appears when no thread is inside a call on the old. *)
CreateMutex(t, n) ==
  /\ ~registered /\ \A u \in Threads : pc[u] = "idle"
  /\ ~(n > 1 /\ Recursive)
  /\ registered' = TRUE
  /\ lockCount' = n
  /\ owner' = IF n > 0 THEN t ELSE NoThread
  /\ waiting' = <<>>
  /\ Mirror(t)
  /\ held' = [u \in Threads |-> IF u = t THEN n ELSE 0]
  /\ UNCHANGED <<status, pc, want>>

(* find_mutex: the call now holds a reference that outlives the map entry.  *)
(* Without an entry the call returns UNKNOWN_MUTEX_ID and changes nothing.  *)
FindMutex(t) ==
  /\ pc[t] = "idle" /\ registered
  /\ Goto(t, "found")
  /\ UNCHANGED <<registered, mutexVars, status, want, held>>

-----------------------------------------------------------------------------
(* Locking: mutex_lock_impl, for mutex_lock and mutex_try_lock              *)

(* A lock call ends with SCE_KERNEL_OK: the guest counts n more locks.      *)
Granted(t, n) == held' = [held EXCEPT ![t] = @ + n]

(* Nobody owns the mutex: take it.                                          *)
LockFree(t, n) ==
  /\ pc[t] = "found" /\ lockCount = 0
  /\ lockCount' = lockCount + n /\ owner' = t
  /\ Mirror(t) /\ Granted(t, n) /\ Goto(t, "idle")
  /\ UNCHANGED <<registered, waiting, status, want>>

(* The caller owns it already and the mutex is recursive.  The work area is *)
(* incremented here, not set.                                               *)
LockAgain(t, n) ==
  /\ pc[t] = "found" /\ lockCount > 0 /\ owner = t /\ Recursive
  /\ lockCount + n <= MaxLockCount /\ work.count + n <= MaxLockCount
  /\ lockCount' = lockCount + n
  /\ work' = IF Light THEN [work EXCEPT !.count = @ + n] ELSE work
  /\ Granted(t, n) /\ Goto(t, "idle")
  /\ UNCHANGED <<registered, owner, waiting, status, want>>

(* A second lock of a non-recursive mutex, or a try_lock of another         *)
(* thread's, returns an error at once.                                      *)
LockRefused(t) ==
  /\ pc[t] = "found" /\ lockCount > 0
  /\ owner = t => ~Recursive
  /\ Goto(t, "idle")
  /\ UNCHANGED <<registered, mutexVars, status, want, held>>

(* Somebody else owns it: queue up and sleep.                               *)
LockSleep(t, n) ==
  /\ pc[t] = "found" /\ lockCount > 0 /\ owner # t
  /\ status' = [status EXCEPT ![t] = "wait"]
  /\ waiting' = Push(waiting, [thread |-> t, count |-> n])
  /\ want' = [want EXCEPT ![t] = n]
  /\ Goto(t, "asleep")
  /\ UNCHANGED <<registered, lockCount, owner, work, held>>

(* handle_timeout with *timeout = 0: queued and erased under one lock, the  *)
(* call returns WAIT_TIMEOUT and only the work area may have changed.       *)
LockPoll(t) ==
  /\ pc[t] = "found" /\ lockCount > 0 /\ owner # t /\ t \in Timed
  /\ UNCHANGED <<registered, lockCount, owner, waiting, status, want, held>>
  /\ Mirror(t) /\ Goto(t, "idle")

(* The sleeper was handed the mutex and returns from handle_timeout.        *)
Woken(t) ==
  /\ pc[t] = "asleep" /\ status[t] = "run"
  /\ UNCHANGED <<registered, lockCount, owner, waiting, status>>
  /\ Mirror(t) /\ Granted(t, want[t]) /\ Goto(t, "idle")
  /\ want' = [want EXCEPT ![t] = 0]

(* The timeout expires first: the sleeper leaves the queue.                 *)
TimeOut(t) ==
  /\ pc[t] = "asleep" /\ status[t] = "wait" /\ t \in Timed
  /\ status' = [status EXCEPT ![t] = "run"]
  /\ waiting' = Erase(waiting, t)
  /\ UNCHANGED <<registered, lockCount, owner, held>>
  /\ Mirror(t) /\ Goto(t, "idle")
  /\ want' = [want EXCEPT ![t] = 0]

-----------------------------------------------------------------------------
(* Unlocking: mutex_unlock_impl                                             *)

(* Mutants of HandOver: nobody is woken; the sleeper is woken but has to    *)
(* find the mutex free.                                                     *)
HandOverToNobody ==
  /\ lockCount' = 0 /\ owner' = NoThread
  /\ UNCHANGED <<waiting, status>>

HandOverWakingOnly ==
  /\ lockCount' = 0 /\ owner' = NoThread
  /\ waiting' = IF waiting = <<>> THEN waiting ELSE Tail(waiting)
  /\ status' = IF waiting = <<>> THEN status
               ELSE [status EXCEPT ![Head(waiting).thread] = "run"]

(* lock_count reaches zero: the first sleeper is made the owner before the  *)
(* mutex is ever seen free, and is told by its status.                      *)
HandOver ==
  IF waiting = <<>>
  THEN /\ lockCount' = 0 /\ owner' = NoThread
       /\ UNCHANGED <<waiting, status>>
  ELSE /\ lockCount' = Head(waiting).count /\ owner' = Head(waiting).thread
       /\ waiting' = Tail(waiting)
       /\ status' = [status EXCEPT ![Head(waiting).thread] = "run"]

(* An unlock call ends with SCE_KERNEL_OK.                                  *)
Released(t, n) ==
  held' = [held EXCEPT ![t] = IF n <= @ THEN @ - n ELSE @]

UnlockOwned(t, n) ==
  /\ pc[t] = "found" /\ owner = t /\ n <= lockCount
  /\ IF lockCount - n = 0
     THEN HandOver
     ELSE /\ lockCount' = lockCount - n
          /\ UNCHANGED <<owner, waiting, status>>
  /\ Released(t, n) /\ Goto(t, "idle")
  /\ UNCHANGED <<registered, work, want>>

(* More than the owner holds: UNLOCK_UDF, nothing changes.                  *)
UnlockUnderflow(t, n) ==
  /\ pc[t] = "found" /\ owner = t /\ n > lockCount
  /\ Goto(t, "idle")
  /\ UNCHANGED <<registered, mutexVars, status, want, held>>

(* Mutant of UnlockNotOwned: the owner is not compared.                     *)
UnlockNotCompared(t, n) ==
  /\ pc[t] = "found" /\ owner # t /\ lockCount > 0
  /\ HandOver /\ Goto(t, "idle")
  /\ UNCHANGED <<registered, work, want, held>>

(* A thread that is not the owner is told SCE_KERNEL_OK all the same.       *)
UnlockNotOwned(t, n) ==
  /\ pc[t] = "found" /\ owner # t
  /\ Released(t, n) /\ Goto(t, "idle")
  /\ UNCHANGED <<registered, mutexVars, status, want>>

-----------------------------------------------------------------------------
(* Deleting: mutex_delete looks at the queue without the mutex's lock and   *)
(* erases the map entry in a later critical section of kernel.mutex.        *)

DeleteCheck(t) ==
  /\ pc[t] = "found" /\ t \in Deleters
  /\ Goto(t, IF waiting = <<>> THEN "erasing" ELSE "idle")
  /\ UNCHANGED <<registered, mutexVars, status, want, held>>

DeleteErase(t) ==
  /\ pc[t] = "erasing"
  /\ registered' = FALSE /\ Goto(t, "idle")
  /\ UNCHANGED <<mutexVars, status, want, held>>

-----------------------------------------------------------------------------
LockCall(t) ==
  \/ \E n \in LockCounts : LockFree(t, n) \/ LockAgain(t, n) \/ LockSleep(t, n)
  \/ LockRefused(t) \/ LockPoll(t)

UnlockCall(t) ==
  \E n \in UnlockCounts :
    UnlockOwned(t, n) \/ UnlockUnderflow(t, n) \/ UnlockNotOwned(t, n)

Next ==
  \E t \in Threads :
    \/ \E n \in InitCounts : CreateMutex(t, n)
    \/ FindMutex(t)
    \/ LockCall(t) \/ Woken(t) \/ TimeOut(t)
    \/ UnlockCall(t)
    \/ DeleteCheck(t) \/ DeleteErase(t)

Spec == Init /\ [][Next]_vars

(* The host scheduler resumes a woken thread, and a guest that holds the    *)
(* mutex calls unlock again and again until it has given all of it back.    *)
GiveBack(t) == UnlockOwned(t, held[t]) /\ held[t] \in UnlockCounts
Fairness ==
  \A t \in Threads :
    /\ WF_vars(Woken(t))
    /\ WF_vars(held[t] > 0 /\ FindMutex(t))
    /\ SF_vars(GiveBack(t))
FairSpec == Spec /\ Fairness

-----------------------------------------------------------------------------
(* Safety                                                                   *)

(* Mutual exclusion as the guests see it: two threads are never both told   *)
(* that they hold the mutex, whichever of lock, hand-over, time-out and     *)
(* unlock they were told it by (mutex_lock_impl, mutex_unlock_impl).        *)
MutualExclusion ==
  \A t, u \in Threads : held[t] > 0 /\ held[u] > 0 => t = u

(* The kernel agrees with a holder: a thread that was told it holds the     *)
(* mutex is Mutex::owner, and lock_count is exactly what it was granted and *)
(* has not given back, so unlocking that much frees the mutex.              *)
HolderIsOwner ==
  \A t \in Threads : held[t] > 0 => owner = t /\ held[t] = lockCount

(* No lost wake-up: nobody sleeps on a mutex that is free.                  *)
NoSleeperOnFree == lockCount = 0 => owner = NoThread /\ waiting = <<>>

(* Sleeping and being queued are one thing: a thread's status is wait       *)
(* exactly while it has one entry in the queue, with the count it asked     *)
(* for.  This is what the expected-status assertion of update_status        *)
(* (thread.cpp) needs at every wake-up.                                     *)
QueueMatchesStatus ==
  /\ Distinct(waiting)
  /\ \A t \in Threads : status[t] = "wait" <=> t \in Sleepers(waiting)
  /\ \A t \in Threads :
       status[t] = "wait" =>
         pc[t] = "asleep" /\ [thread |-> t, count |-> want[t]] \in ToSet(waiting)

(* A wake-up is the mutex: a sleeper that was woken and has not returned    *)
(* yet owns it with the count it asked for; nobody took it in between.      *)
WokenOwns ==
  \A t \in Threads :
    pc[t] = "asleep" /\ status[t] = "run" => owner = t /\ lockCount = want[t]

(* What guest memory says about a light mutex: while a thread holds it, the *)
(* work area names that thread and never shows fewer locks than it holds,   *)
(* whatever other threads that queue, poll and time out write there.        *)
WorkareaNamesHolder ==
  Light => \A t \in Threads :
             held[t] > 0 => work.owner = t /\ work.count >= held[t]

(* The mutex goes to the most urgent sleeper: a hand-over never passes over *)
(* a sleeper with a smaller priority number (PriorityThreadDataQueue).      *)
ServesMostUrgent ==
  \A t, u \in Threads :
    /\ status[t] = "wait" /\ status'[t] = "run" /\ owner' = t
    /\ status[u] = "wait"
    => Rank(t) <= Rank(u)
WakeMostUrgent == [][ServesMostUrgent]_vars

(* What the mutex promises its guests, without owner, queue or status.      *)
Promise == INSTANCE LockPromise
KeepsPromise == Promise!Spec

-----------------------------------------------------------------------------
(* Liveness                                                                 *)

(* A thread that went to sleep without a timeout and that no later one is   *)
(* preferred to is eventually served, as long as holders unlock: hand-over  *)
(* leaves no gap in which a thread that asks later can barge in.  (On a     *)
(* mutex that is deleted under it it sleeps for ever.)                      *)
SleeperServed ==
  \A t \in NeverPassed \ Timed :
    pc[t] = "asleep" ~> (pc[t] = "idle" /\ held[t] > 0) \/ ~registered
=============================================================================
