---------------------------- MODULE KernelRWLock ----------------------------
(***************************************************************************)
(* One kernel reader/writer lock (sync_primitives.cpp, struct RWLock) and  *)
(* the guest threads that lock it for reading or writing, unlock it and    *)
(* delete it.                                                              *)
(*                                                                         *)
(* A lock call, a time-out and a return are one critical section of        *)
(* RWLock::mutex each.  The unlock that frees the lock walks the queue and *)
(* wakes one sleeper after the other: each is a step, made while "lock"    *)
(* names the caller.                                                       *)
(***************************************************************************)
EXTENDS WaitQueue

CONSTANTS
  NoThread,   (* RWLock::mutex is free                                      *)
  Recursive,  (* SCE_KERNEL_MUTEX_ATTR_RECURSIVE                            *)
  Timed,      (* threads whose lock calls pass a timeout                    *)
  Deleters,   (* threads that may call rwlock_delete                        *)
  Nesting,    (* guests may ask for one kind while they hold the other      *)
  MaxCount    (* bound: locks one thread holds at a time                    *)

ASSUME RWLockAssumption ==
  /\ NoThread \notin Threads
  /\ Recursive \in BOOLEAN /\ Nesting \in BOOLEAN
  /\ Timed \subseteq Threads /\ Deleters \subseteq Threads
  /\ MaxCount \in Nat \ {0}

VARIABLES
  registered,  (* the uid is in kernel.rwlocks                              *)
  state,       (* RWLock::state                                             *)
  owners,      (* RWLock::owners, 0 for a thread that is not in the map     *)
  waiting,     (* RWLock::waiting_threads: entries [thread, kind]           *)
  lock,        (* who is walking the queue under RWLock::mutex              *)
  status,      (* ThreadState::status of each guest thread                  *)
  pc,          (* where each guest thread is inside a call                  *)
  want,        (* the kind of lock a sleeper asked for                      *)
  reads,       (* read locks each guest was told it holds                   *)
  writes       (* write locks each guest was told it holds                  *)

told == <<reads, writes>>
rwVars == <<state, owners, waiting, lock>>
vars == <<registered, rwVars, status, pc, want, told>>

Kinds == {"read", "write"}
Entry == [thread : Threads, kind : Kinds]

TypeOK ==
  /\ registered \in BOOLEAN
  /\ state \in {"Unlocked", "ReadLocked", "WriteLocked"}
  /\ owners \in [Threads -> Nat]
  /\ waiting \in Seq(Entry)
  /\ lock \in Threads \cup {NoThread}
  /\ status \in [Threads -> {"run", "wait"}]
  /\ pc \in [Threads -> {"idle", "found", "asleep", "waking", "erasing"}]
  /\ want \in [Threads -> Kinds]
  /\ reads \in [Threads -> Nat]
  /\ writes \in [Threads -> Nat]

Goto(t, label) == pc' = [pc EXCEPT ![t] = label]
Nothing == [t \in Threads |-> 0]

-----------------------------------------------------------------------------
(* Creating and looking up                                                  *)

Init ==
  /\ registered = FALSE
  /\ state = "Unlocked" /\ owners = Nothing
  /\ waiting = <<>> /\ lock = NoThread
  /\ status = [t \in Threads |-> "run"]
  /\ pc = [t \in Threads |-> "idle"]
  /\ want = [t \in Threads |-> "read"]
  /\ reads = Nothing /\ writes = Nothing

(* rwlock_create: a new object and uid; the model follows one at a time.    *)
CreateRWLock ==
  /\ ~registered /\ \A u \in Threads : pc[u] = "idle"
  /\ registered' = TRUE
  /\ state' = "Unlocked" /\ owners' = Nothing /\ waiting' = <<>>
  /\ reads' = Nothing /\ writes' = Nothing
  /\ UNCHANGED <<lock, status, pc, want>>

FindRWLock(t) ==
  /\ pc[t] = "idle" /\ registered
  /\ Goto(t, "found")
  /\ UNCHANGED <<registered, rwVars, status, want, told>>

-----------------------------------------------------------------------------
(* Locking: rwlock_lock                                                     *)

Entering(t) == pc[t] = "found" /\ lock = NoThread

(* What a guest asks for.  One that does not nest never asks for a read     *)
(* lock under its write lock; it may ask for the write lock under a read    *)
(* lock where that is an error, which is where writing is not recursive.    *)
MayAsk(t, k) ==
  \/ Nesting
  \/ k = "read" /\ writes[t] = 0
  \/ k = "write" /\ (Recursive => reads[t] = 0)

(* Reading is always recursive, writing if the lock was created so.         *)
IsRecursive(k) == k = "read" \/ Recursive

(* Mutant of NoNeedToWait: a reader does not look at the state.             *)
ReaderNeverWaits(t, k) ==
  \/ state = "Unlocked"
  \/ k = "read"
  \/ IsRecursive(k) /\ owners[t] > 0

NoNeedToWait(t, k) ==
  \/ state = "Unlocked"
  \/ k = "read" /\ state = "ReadLocked"
  \/ IsRecursive(k) /\ owners[t] > 0

Granted(t, k) ==
  /\ reads' = IF k = "read" THEN [reads EXCEPT ![t] = @ + 1] ELSE reads
  /\ writes' = IF k = "write" THEN [writes EXCEPT ![t] = @ + 1] ELSE writes

StateFor(k) == IF k = "write" THEN "WriteLocked" ELSE "ReadLocked"

(* The state becomes that of the last lock, whoever else owns the lock.     *)
LockAtOnce(t, k) ==
  /\ Entering(t) /\ MayAsk(t, k) /\ NoNeedToWait(t, k)
  /\ owners[t] < MaxCount
  /\ owners' = [owners EXCEPT ![t] = @ + 1]
  /\ state' = StateFor(k)
  /\ Granted(t, k) /\ Goto(t, "idle")
  /\ UNCHANGED <<registered, waiting, lock, status, want>>

(* RW_LOCK_RECURSIVE.                                                       *)
LockRefused(t, k) ==
  /\ Entering(t) /\ MayAsk(t, k) /\ ~NoNeedToWait(t, k)
  /\ ~IsRecursive(k) /\ owners[t] > 0
  /\ Goto(t, "idle")
  /\ UNCHANGED <<registered, rwVars, status, want, told>>

MustWait(t, k) ==
  /\ Entering(t) /\ MayAsk(t, k) /\ ~NoNeedToWait(t, k)
  /\ IsRecursive(k) \/ owners[t] = 0

LockSleep(t, k) ==
  /\ MustWait(t, k)
  /\ status' = [status EXCEPT ![t] = "wait"]
  /\ waiting' = Push(waiting, [thread |-> t, kind |-> k])
  /\ want' = [want EXCEPT ![t] = k]
  /\ Goto(t, "asleep")
  /\ UNCHANGED <<registered, state, owners, lock, told>>

(* *timeout = 0: queued and erased under one lock, WAIT_TIMEOUT.            *)
LockPoll(t, k) ==
  /\ MustWait(t, k) /\ t \in Timed
  /\ Goto(t, "idle")
  /\ UNCHANGED <<registered, rwVars, status, want, told>>

(* The sleeper was made an owner and returns from handle_timeout.           *)
Woken(t) ==
  /\ pc[t] = "asleep" /\ status[t] = "run" /\ lock = NoThread
  /\ Granted(t, want[t]) /\ Goto(t, "idle")
  /\ UNCHANGED <<registered, rwVars, status, want>>

TimeOut(t) ==
  /\ pc[t] = "asleep" /\ status[t] = "wait" /\ t \in Timed /\ lock = NoThread
  /\ status' = [status EXCEPT ![t] = "run"]
  /\ waiting' = Erase(waiting, t)
  /\ Goto(t, "idle")
  /\ UNCHANGED <<registered, state, owners, lock, want, told>>

-----------------------------------------------------------------------------
(* Unlocking: rwlock_unlock, for a reader and a writer alike                *)

(* The guest gives back one lock of a kind it holds.                        *)
Released(t, k) ==
  /\ IF k = "read" THEN reads[t] > 0 ELSE writes[t] > 0
  /\ reads' = IF k = "read" THEN [reads EXCEPT ![t] = @ - 1] ELSE reads
  /\ writes' = IF k = "write" THEN [writes EXCEPT ![t] = @ - 1] ELSE writes

LastOwner(t) == owners[t] = 1 /\ \A u \in Threads \ {t} : owners[u] = 0

(* Mutant of UnlockShared: the last owner leaves without waking anybody.    *)
UnlockAlwaysShared(t, k) ==
  /\ Entering(t) /\ owners[t] > 0
  /\ owners' = [owners EXCEPT ![t] = @ - 1]
  /\ state' = IF LastOwner(t) THEN "Unlocked" ELSE state
  /\ Released(t, k) /\ Goto(t, "idle")
  /\ UNCHANGED <<registered, waiting, lock, status, want>>

(* The lock is still owned: the state is left as it is.                     *)
UnlockShared(t, k) ==
  /\ Entering(t) /\ owners[t] > 0 /\ ~LastOwner(t)
  /\ owners' = [owners EXCEPT ![t] = @ - 1]
  /\ Released(t, k) /\ Goto(t, "idle")
  /\ UNCHANGED <<registered, state, waiting, lock, status, want>>

(* The last owner leaves: go through the queue.                             *)
UnlockLast(t, k) ==
  /\ Entering(t) /\ LastOwner(t)
  /\ owners' = [owners EXCEPT ![t] = 0]
  /\ state' = "Unlocked" /\ lock' = t
  /\ Released(t, k) /\ Goto(t, "waking")
  /\ UNCHANGED <<registered, waiting, status, want>>

(* FAILED_TO_UNLOCK: not an owner.                                          *)
UnlockRefused(t) ==
  /\ Entering(t) /\ owners[t] = 0
  /\ Goto(t, "idle")
  /\ UNCHANGED <<registered, rwVars, status, want, told>>

(* Mutant of CanWake: writers are not passed over.                          *)
WakesWriters(e) == state # "WriteLocked"

(* Once a reader was woken only readers are, and nobody after a writer.     *)
CanWake(e) == state = "Unlocked" \/ (state = "ReadLocked" /\ e.kind = "read")

(* The first entry the loop has not yet woken and not passed over.          *)
NextToWake(i) ==
  /\ i \in DOMAIN waiting /\ CanWake(waiting[i])
  /\ \A j \in DOMAIN waiting : j < i => ~CanWake(waiting[j])

WakeNext(t) ==
  /\ pc[t] = "waking"
  /\ \E i \in DOMAIN waiting :
       /\ NextToWake(i)
       /\ waiting' = Erase(waiting, waiting[i].thread)
       /\ status' = [status EXCEPT ![waiting[i].thread] = "run"]
       /\ owners' = [owners EXCEPT ![waiting[i].thread] = 1]
       /\ state' = StateFor(waiting[i].kind)
  /\ UNCHANGED <<registered, lock, pc, want, told>>

(* Mutant of WakeDone: one sleeper per unlock.                              *)
WakeDoneEarly(t) ==
  /\ pc[t] = "waking" /\ (state # "Unlocked" \/ waiting = <<>>)
  /\ lock' = NoThread /\ Goto(t, "idle")
  /\ UNCHANGED <<registered, state, owners, waiting, status, want, told>>

WakeDone(t) ==
  /\ pc[t] = "waking" /\ \A i \in DOMAIN waiting : ~CanWake(waiting[i])
  /\ lock' = NoThread /\ Goto(t, "idle")
  /\ UNCHANGED <<registered, state, owners, waiting, status, want, told>>

-----------------------------------------------------------------------------
(* Deleting: the queue is looked at without the lock's mutex.               *)

DeleteCheck(t) ==
  /\ pc[t] = "found" /\ t \in Deleters
  /\ Goto(t, IF waiting = <<>> THEN "erasing" ELSE "idle")
  /\ UNCHANGED <<registered, rwVars, status, want, told>>

DeleteErase(t) ==
  /\ pc[t] = "erasing"
  /\ registered' = FALSE /\ Goto(t, "idle")
  /\ UNCHANGED <<rwVars, status, want, told>>

-----------------------------------------------------------------------------
LockCall(t) ==
  \E k \in Kinds :
    LockAtOnce(t, k) \/ LockRefused(t, k) \/ LockSleep(t, k) \/ LockPoll(t, k)

UnlockCall(t) ==
  \/ \E k \in Kinds : UnlockShared(t, k) \/ UnlockLast(t, k)
  \/ UnlockRefused(t) \/ WakeNext(t) \/ WakeDone(t)

Next ==
  \/ CreateRWLock
  \/ \E t \in Threads :
       \/ FindRWLock(t)
       \/ LockCall(t) \/ Woken(t) \/ TimeOut(t)
       \/ UnlockCall(t)
       \/ DeleteCheck(t) \/ DeleteErase(t)

Spec == Init /\ [][Next]_vars

(* The queue walk ends, the host resumes a woken thread, which gets the     *)
(* lock's mutex in the end, and a guest that holds the lock gives it back.  *)
Holds(t) == reads[t] + writes[t] > 0
GiveBack(t) == \E k \in Kinds : UnlockShared(t, k) \/ UnlockLast(t, k)
Fairness ==
  \A t \in Threads :
    /\ WF_vars(WakeNext(t) \/ WakeDone(t))
    /\ SF_vars(Woken(t))
    /\ WF_vars(Holds(t) /\ FindRWLock(t))
    /\ SF_vars(GiveBack(t))
FairSpec == Spec /\ Fairness

-----------------------------------------------------------------------------
(* Safety                                                                   *)

(* The owners map is what the guests were told: a thread's count is the     *)
(* locks it was granted by lock calls and wake-ups and has not given back,  *)
(* plus one while it was woken and has not returned.                        *)
InFlight(t) == IF pc[t] = "asleep" /\ status[t] = "run" THEN 1 ELSE 0
OwnersAsTold ==
  \A t \in Threads : owners[t] = reads[t] + writes[t] + InFlight(t)

(* No lost wake-up: the state is Unlocked exactly while nobody owns the     *)
(* lock, and then, once the walk through the queue is over, nobody sleeps.  *)
FreeMeansEmpty ==
  /\ state = "Unlocked" <=> \A t \in Threads : owners[t] = 0
  /\ state = "Unlocked" /\ lock = NoThread => waiting = <<>>

(* A thread sleeps exactly while it has one entry in the queue, for the     *)
(* kind of lock it asked for.                                               *)
QueueMatchesStatus ==
  /\ Distinct(waiting)
  /\ \A t \in Threads : status[t] = "wait" <=> t \in Sleepers(waiting)
  /\ \A t \in Threads :
       status[t] = "wait" =>
         /\ pc[t] = "asleep"
         /\ [thread |-> t, kind |-> want[t]] \in ToSet(waiting)

(* A writer is alone: while a thread was told it holds the lock for         *)
(* writing, no other was told it holds it, and it was not told it reads.    *)
(* Guests that nest the two kinds break it; see the README.                 *)
WriterAlone ==
  ~Nesting =>
    \A t, u \in Threads :
      writes[t] > 0 => reads[u] = 0 /\ (u # t => writes[u] = 0)

(* No reader sleeps while the lock is only read: whenever the lock goes to  *)
(* a reader it goes to every reader in the queue, writers in between or not.*)
ReadersNotStranded ==
  ~Nesting /\ lock = NoThread /\ state = "ReadLocked" =>
    \A i \in DOMAIN waiting : waiting[i].kind = "write"

(* The walk wakes nobody ahead of a more urgent sleeper, except a reader    *)
(* ahead of a writer when the lock has already gone to readers.             *)
WakesInOrder ==
  \A t, u \in Threads :
    /\ status[t] = "wait" /\ status'[t] = "run" /\ owners'[t] > 0
    /\ t # u /\ status[u] = "wait"
    => \/ Rank(t) <= Rank(u)
       \/ state = "ReadLocked" /\ want[u] = "write" /\ want[t] = "read"
WakeMostUrgent == [][WakesInOrder]_vars

(* What the lock promises guests that do not nest the two kinds.            *)
Promise == INSTANCE ReadWritePromise
KeepsPromise == Promise!Spec

-----------------------------------------------------------------------------
(* Liveness                                                                 *)

(* A reader that went to sleep, without a timeout, and that no later thread *)
(* is preferred to is eventually let in, as long as the owners give the     *)
(* lock back.  (A writer need not be: readers keep joining readers, whoever *)
(* is queued.)                                                              *)
ReaderServed ==
  \A t \in NeverPassed \ Timed :
    pc[t] = "asleep" /\ want[t] = "read" ~>
      (pc[t] = "idle" /\ reads[t] > 0) \/ ~registered
=============================================================================
