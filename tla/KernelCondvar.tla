----------------------------- MODULE KernelCondvar -----------------------------
(***************************************************************************)
(* One kernel condition variable (sync_primitives.cpp, struct Condvar)     *)
(* together with its associated mutex, which is the KernelMutex this       *)
(* module extends: condvar_wait calls mutex_unlock_impl before it sleeps   *)
(* and mutex_lock_impl after it was woken, and the mutex's own calls go on *)
(* around it.                                                              *)
(*                                                                         *)
(* "step" says where a thread is inside a call on the condition variable.  *)
(* While it is in the mutex's code on behalf of condvar_wait, "pc" says    *)
(* where it is there.                                                      *)
(***************************************************************************)
EXTENDS KernelMutex

CONSTANTS
  CondWaiters,   (* threads that may call condvar_wait                      *)
  Signallers,    (* threads that may call condvar_signal                    *)
  CondDeleters   (* threads that may call condvar_delete                    *)

ASSUME CondvarAssumption ==
  /\ CondWaiters \subseteq Threads /\ Signallers \subseteq Threads
  /\ CondDeleters \subseteq Threads

VARIABLES
  condRegistered,  (* the uid is in kernel.condvars                         *)
  sleepers,        (* Condvar::waiting_threads                              *)
  condLock,        (* who holds Condvar::mutex between two steps            *)
  step             (* where each thread is inside a condvar call            *)

condVars == <<condRegistered, sleepers, condLock, step>>
allVars == <<vars, condVars>>

Steps == {"none", "wait", "any", "all", "one", "delete",
          "released", "asleep", "relock", "erasing"}

CondTypeOK ==
  /\ TypeOK
  /\ condRegistered \in BOOLEAN
  /\ sleepers \in Seq([thread : Threads])
  /\ condLock \in Threads \cup {NoThread}
  /\ step \in [Threads -> Steps]

Advance(t, label) == step' = [step EXCEPT ![t] = label]

CondInit ==
  /\ Init
  /\ condRegistered = FALSE /\ sleepers = <<>> /\ condLock = NoThread
  /\ step = [t \in Threads |-> "none"]

(* condvar_create: find_mutex, so the mutex must have a name.               *)
CreateCondvar ==
  /\ ~condRegistered /\ registered /\ \A t \in Threads : step[t] = "none"
  /\ condRegistered' = TRUE /\ sleepers' = <<>>
  /\ UNCHANGED <<vars, condLock, step>>

(* find_condvar, for the call that "label" names.                           *)
FindCondvar(t, label) ==
  /\ step[t] = "none" /\ pc[t] = "idle" /\ condRegistered
  /\ label = "wait" => t \in CondWaiters
  /\ label \in {"any", "all", "one"} => t \in Signallers
  /\ label = "delete" => t \in CondDeleters
  /\ Goto(t, "found") /\ Advance(t, label)
  /\ UNCHANGED <<registered, mutexVars, status, want, held,
                 condRegistered, sleepers, condLock>>

-----------------------------------------------------------------------------
(* condvar_wait                                                             *)

(* Mutant of WaitRelease: Condvar::mutex is not held while the mutex is     *)
(* given back.                                                              *)
WaitReleaseUnlocked(t) ==
  /\ step[t] = "wait" /\ condLock = NoThread
  /\ UnlockOwned(t, 1) \/ UnlockNotOwned(t, 1)
  /\ Advance(t, "released")
  /\ UNCHANGED <<condRegistered, sleepers, condLock>>

(* One lock of the mutex is given back, with Condvar::mutex held from here  *)
(* to the sleep.  A thread that does not own the mutex waits all the same.  *)
(* (mutex_unlock_impl's underflow cannot happen: an owner has one lock.)    *)
WaitRelease(t) ==
  /\ step[t] = "wait" /\ condLock = NoThread
  /\ UnlockOwned(t, 1) \/ UnlockNotOwned(t, 1)
  /\ condLock' = t /\ Advance(t, "released")
  /\ UNCHANGED <<condRegistered, sleepers>>

WaitSleep(t) ==
  /\ step[t] = "released"
  /\ status' = [status EXCEPT ![t] = "wait"]
  /\ sleepers' = Push(sleepers, [thread |-> t])
  /\ condLock' = NoThread /\ Advance(t, "asleep")
  /\ UNCHANGED <<registered, mutexVars, pc, want, held, condRegistered>>

(* handle_timeout with *timeout = 0: WAIT_TIMEOUT, without the mutex.       *)
WaitPoll(t) ==
  /\ step[t] = "released" /\ t \in Timed
  /\ condLock' = NoThread /\ Advance(t, "none")
  /\ UNCHANGED <<vars, condRegistered, sleepers>>

(* Mutant of WaitTimeOut: the entry stays in the queue.                     *)
WaitTimeOutStillQueued(t) ==
  /\ step[t] = "asleep" /\ status[t] = "wait" /\ t \in Timed
  /\ condLock = NoThread
  /\ status' = [status EXCEPT ![t] = "run"] /\ Advance(t, "none")
  /\ UNCHANGED <<registered, mutexVars, pc, want, held,
                 condRegistered, sleepers, condLock>>

(* The timeout expires first: WAIT_TIMEOUT, also without the mutex.         *)
WaitTimeOut(t) ==
  /\ step[t] = "asleep" /\ status[t] = "wait" /\ t \in Timed
  /\ condLock = NoThread
  /\ status' = [status EXCEPT ![t] = "run"]
  /\ sleepers' = Erase(sleepers, t) /\ Advance(t, "none")
  /\ UNCHANGED <<registered, mutexVars, pc, want, held,
                 condRegistered, condLock>>

(* Mutant of WaitWoken: the sleeper believes the mutex was kept for it.     *)
WaitWokenOwning(t) ==
  /\ step[t] = "asleep" /\ status[t] = "run" /\ condLock = NoThread
  /\ Granted(t, 1) /\ Advance(t, "none")
  /\ UNCHANGED <<registered, mutexVars, status, pc, want,
                 condRegistered, sleepers, condLock>>

(* Woken by a signal: let go of Condvar::mutex and enter mutex_lock_impl.   *)
WaitWoken(t) ==
  /\ step[t] = "asleep" /\ status[t] = "run" /\ condLock = NoThread
  /\ Goto(t, "found") /\ Advance(t, "relock")
  /\ UNCHANGED <<registered, mutexVars, status, want, held,
                 condRegistered, sleepers, condLock>>

(* Locking the mutex again is a lock call like any other, for one lock, and *)
(* its result is that of condvar_wait.                                      *)
WaitRelock(t) ==
  /\ step[t] = "relock"
  /\ \/ LockFree(t, 1) \/ LockAgain(t, 1) \/ LockSleep(t, 1)
     \/ LockPoll(t) \/ Woken(t) \/ TimeOut(t)
     \/ owner = t /\ LockRefused(t)
  /\ Advance(t, IF pc'[t] = "idle" THEN "none" ELSE "relock")
  /\ UNCHANGED <<condRegistered, sleepers, condLock>>

-----------------------------------------------------------------------------
(* condvar_signal and condvar_delete                                        *)

(* The end of a call on the condition variable that is no wait.             *)
CondReturn(t) == Goto(t, "idle") /\ Advance(t, "none")

(* Any and All run the same loop: every sleeper is popped and woken with    *)
(* Condvar::mutex held, so nobody sees the loop half-way.                   *)
SignalEverybody(t) ==
  /\ step[t] \in {"any", "all"} /\ condLock = NoThread
  /\ sleepers' = <<>>
  /\ status' = [u \in Threads |->
                  IF u \in Sleepers(sleepers) THEN "run" ELSE status[u]]
  /\ CondReturn(t)
  /\ UNCHANGED <<registered, mutexVars, want, held, condRegistered, condLock>>

(* Specific wakes the thread if it is in the queue.  It is a thread there   *)
(* is: of any other the error message would read the name (line 1292).      *)
SignalThread(t, u) ==
  /\ step[t] = "one" /\ condLock = NoThread
  /\ IF u \in Sleepers(sleepers)
     THEN /\ sleepers' = Erase(sleepers, u)
          /\ status' = [status EXCEPT ![u] = "run"]
     ELSE UNCHANGED <<sleepers, status>>
  /\ CondReturn(t)
  /\ UNCHANGED <<registered, mutexVars, want, held, condRegistered, condLock>>

(* As in mutex_delete the queue is looked at without the object's lock.     *)
CondDeleteCheck(t) ==
  /\ step[t] = "delete" /\ pc[t] = "found"
  /\ Goto(t, "idle")
  /\ Advance(t, IF sleepers = <<>> THEN "erasing" ELSE "none")
  /\ UNCHANGED <<registered, mutexVars, status, want, held,
                 condRegistered, sleepers, condLock>>

CondDeleteErase(t) ==
  /\ step[t] = "erasing"
  /\ condRegistered' = FALSE /\ Advance(t, "none")
  /\ UNCHANGED <<vars, sleepers, condLock>>

-----------------------------------------------------------------------------
Wait(t) ==
  \/ WaitRelease(t) \/ WaitSleep(t) \/ WaitPoll(t)
  \/ WaitTimeOut(t) \/ WaitWoken(t) \/ WaitRelock(t)

Signal(t) == SignalEverybody(t) \/ \E u \in Threads : SignalThread(t, u)

CondDelete(t) == CondDeleteCheck(t) \/ CondDeleteErase(t)

(* The mutex's own calls.  A new mutex is created only when nobody uses the *)
(* condition variable of the old one, whether it still has a name or not.   *)
MutexCall(t) ==
  /\ step[t] = "none"
  /\ \/ /\ ~condRegistered /\ \A u \in Threads : step[u] = "none"
        /\ \E n \in InitCounts : CreateMutex(t, n)
     \/ FindMutex(t)
     \/ LockCall(t) \/ Woken(t) \/ TimeOut(t)
     \/ UnlockCall(t)
     \/ DeleteCheck(t) \/ DeleteErase(t)
  /\ UNCHANGED condVars

CondNext ==
  \/ CreateCondvar
  \/ \E t \in Threads :
       \/ \E label \in {"wait", "any", "all", "one", "delete"} :
            FindCondvar(t, label)
       \/ Wait(t) \/ Signal(t) \/ CondDelete(t) \/ MutexCall(t)

CondSpec == CondInit /\ [][CondNext]_allVars

(* The part of a call on the condition variable the guest has no say in,    *)
(* and the return of who was woken in the mutex.                            *)
CondCallGoesOn(t) ==
  \/ WaitRelease(t) \/ WaitSleep(t) \/ WaitWoken(t) \/ WaitRelock(t)
  \/ Signal(t) \/ CondDelete(t)
  \/ step[t] = "none" /\ Woken(t) /\ UNCHANGED condVars

(* The host lets calls go on, whoever else takes Condvar::mutex, and a guest*)
(* that holds the mutex outside a wait gives it back.                       *)
CondFairness ==
  \A t \in Threads :
    /\ SF_allVars(CondCallGoesOn(t))
    /\ SF_allVars(step[t] = "none" /\ held[t] > 0 /\ FindMutex(t)
                    /\ UNCHANGED condVars)
    /\ SF_allVars(step[t] = "none" /\ GiveBack(t) /\ UNCHANGED condVars)
CondFairSpec == CondSpec /\ CondFairness

-----------------------------------------------------------------------------
(* A thread is asleep in the condition variable, in the mutex or not at     *)
(* all: its status is wait exactly while one of the two queues has its one  *)
(* entry, through hand-overs, signals and time-outs of either.              *)
OneQueueMatchesStatus ==
  /\ Distinct(sleepers) /\ Distinct(waiting)
  /\ Sleepers(sleepers) \cap Sleepers(waiting) = {}
  /\ \A t \in Threads :
       status[t] = "wait" <=> t \in Sleepers(sleepers) \cup Sleepers(waiting)

(* Waits do not break the mutex: what condvar_wait gives back and takes     *)
(* again on a thread's behalf is what the thread itself counts, and a       *)
(* thread that counts a lock owns the mutex.                                *)
WaitersKeepMutexRight == MutualExclusion /\ HolderIsOwner /\ NoSleeperOnFree

(* No signal is lost: a signal to all that returns has woken every thread   *)
(* that had let go of the mutex for a wait and had not been woken before,   *)
(* also the one that was about to fall asleep.                              *)
SignalReachesAll ==
  \A s, t \in Threads :
    step[s] = "all" /\ step'[s] = "none" =>
      /\ step[t] # "released"
      /\ step[t] = "asleep" => status'[t] = "run"
NoSignalLost == [][SignalReachesAll]_allVars

(* A signalled thread returns from its wait, if it is never passed over in  *)
(* the mutex's queue and holders unlock.  (A thread that sleeps with locks  *)
(* left on a recursive mutex keeps everybody out until it is signalled.)    *)
SleepsOwning == \E u \in Threads : step[u] = "asleep" /\ status[u] = "wait" /\ held[u] > 0
SignalledReturns ==
  \A t \in NeverPassed :
    step[t] = "asleep" /\ status[t] = "run" ~> step[t] = "none" \/ SleepsOwning
=============================================================================
