--------------------------- MODULE KernelSemaphore ---------------------------
(***************************************************************************)
(* One kernel semaphore (sync_primitives.cpp, struct Semaphore) and the    *)
(* guest threads that wait on it, signal, cancel and delete it.            *)
(*                                                                         *)
(* Waits, time-outs and returns are one critical section of                *)
(* Semaphore::mutex each.  Signal and cancel wake several sleepers in a    *)
(* loop: every turn of the loop is a step, made while "lock" names the     *)
(* caller, so that nothing that needs the semaphore can come between, and  *)
(* the unlocked look at the queue in semaphore_delete can.                 *)
(***************************************************************************)
EXTENDS WaitQueue

CONSTANTS
  NoThread,          (* the semaphore's lock is free                        *)
  InitVal, MaxVal,   (* Semaphore::init_val and Semaphore::max              *)
  Timed,             (* threads whose waits pass a timeout                  *)
  Waiters,           (* threads that may call semaphore_wait                *)
  Cancelers,         (* threads that may call semaphore_cancel              *)
  Deleters,          (* threads that may call semaphore_delete              *)
  Needs,             (* needCount arguments of wait                         *)
  Signals,           (* signal arguments of signal                          *)
  SetCounts          (* setCount arguments of cancel                        *)

(* Neither creation nor the calls check their counts; this is about guests  *)
(* that pass sensible ones.                                                 *)
ASSUME SemaphoreAssumption ==
  /\ NoThread \notin Threads
  /\ InitVal \in Nat /\ MaxVal \in Nat /\ InitVal <= MaxVal
  /\ Timed \subseteq Threads /\ Waiters \subseteq Threads
  /\ Cancelers \subseteq Threads /\ Deleters \subseteq Threads
  /\ Needs \subseteq Nat \ {0} /\ Signals \subseteq Nat \ {0}
  /\ SetCounts \subseteq Int

VARIABLES
  registered,  (* the uid is in kernel.semaphores                           *)
  val,         (* Semaphore::val                                            *)
  waiting,     (* Semaphore::waiting_threads: entries [thread, signal]      *)
  lock,        (* who is inside a wake-up loop under Semaphore::mutex       *)
  status,      (* ThreadState::status of each guest thread                  *)
  canceled,    (* the sleepers whose was_canceled has been set              *)
  pc,          (* where each guest thread is inside a call                  *)
  arg,         (* needCount of a sleeper, setCount of a canceler            *)
  credit       (* as the guests know it: units put in minus units taken out *)

vars == <<registered, val, waiting, lock, status, canceled, pc, arg, credit>>

Entry == [thread : Threads, signal : Nat]

TypeOK ==
  /\ registered \in BOOLEAN
  /\ val \in Nat
  /\ waiting \in Seq(Entry)
  /\ lock \in Threads \cup {NoThread}
  /\ status \in [Threads -> {"run", "wait"}]
  /\ canceled \in SUBSET Threads
  /\ pc \in [Threads ->
             {"idle", "found", "asleep", "signaling", "canceling", "erasing"}]
  /\ arg \in [Threads -> Int]
  /\ credit \in Int

Goto(t, label) == pc' = [pc EXCEPT ![t] = label]

Init ==
  /\ registered = FALSE
  /\ val = 0 /\ waiting = <<>> /\ lock = NoThread
  /\ status = [t \in Threads |-> "run"]
  /\ canceled = {}
  /\ pc = [t \in Threads |-> "idle"]
  /\ arg = [t \in Threads |-> 0]
  /\ credit = 0

(* semaphore_create: a new object and uid; the model follows one at a time. *)
CreateSemaphore ==
  /\ ~registered /\ \A u \in Threads : pc[u] = "idle"
  /\ registered' = TRUE
  /\ val' = InitVal /\ waiting' = <<>> /\ credit' = InitVal
  /\ UNCHANGED <<lock, status, canceled, pc, arg>>

(* lock_and_find; an unknown uid is an error return that changes nothing.   *)
FindSemaphore(t) ==
  /\ pc[t] = "idle" /\ registered
  /\ Goto(t, "found")
  /\ UNCHANGED <<registered, val, waiting, lock, status, canceled, arg, credit>>

-----------------------------------------------------------------------------
(* semaphore_wait                                                           *)

Entering(t) == pc[t] = "found" /\ lock = NoThread

(* Enough units are left: take them, whoever may be queued for more.        *)
WaitTake(t, n) ==
  /\ Entering(t) /\ t \in Waiters /\ val >= n
  /\ val' = val - n /\ credit' = credit - n
  /\ Goto(t, "idle")
  /\ UNCHANGED <<registered, waiting, lock, status, canceled, arg>>

WaitSleep(t, n) ==
  /\ Entering(t) /\ t \in Waiters /\ val < n
  /\ status' = [status EXCEPT ![t] = "wait"]
  /\ canceled' = canceled \ {t}
  /\ waiting' = Push(waiting, [thread |-> t, signal |-> n])
  /\ arg' = [arg EXCEPT ![t] = n]
  /\ Goto(t, "asleep")
  /\ UNCHANGED <<registered, val, lock, credit>>

(* *timeout = 0: queued and erased under one lock, WAIT_TIMEOUT.            *)
WaitPoll(t, n) ==
  /\ Entering(t) /\ t \in Waiters \cap Timed /\ val < n
  /\ Goto(t, "idle")
  /\ UNCHANGED <<registered, val, waiting, lock, status, canceled, arg, credit>>

(* Mutant of Woken: was_canceled is not looked at.                          *)
WokenAlwaysServed(t) ==
  /\ pc[t] = "asleep" /\ status[t] = "run" /\ lock = NoThread
  /\ credit' = credit - arg[t]
  /\ canceled' = canceled \ {t}
  /\ Goto(t, "idle") /\ arg' = [arg EXCEPT ![t] = 0]
  /\ UNCHANGED <<registered, val, waiting, lock, status>>

(* A sleeper that was woken returns: OK with its units, or WAIT_CANCEL.     *)
Woken(t) ==
  /\ pc[t] = "asleep" /\ status[t] = "run" /\ lock = NoThread
  /\ credit' = IF t \in canceled THEN credit ELSE credit - arg[t]
  /\ canceled' = canceled \ {t}
  /\ Goto(t, "idle") /\ arg' = [arg EXCEPT ![t] = 0]
  /\ UNCHANGED <<registered, val, waiting, lock, status>>

(* The timeout expires: the sleeper leaves the queue, and nobody looks      *)
(* whether the units that are left are enough for the one behind it.        *)
TimeOut(t) ==
  /\ pc[t] = "asleep" /\ status[t] = "wait" /\ t \in Timed /\ lock = NoThread
  /\ status' = [status EXCEPT ![t] = "run"]
  /\ waiting' = Erase(waiting, t)
  /\ Goto(t, "idle") /\ arg' = [arg EXCEPT ![t] = 0]
  /\ UNCHANGED <<registered, val, lock, canceled, credit>>

-----------------------------------------------------------------------------
(* semaphore_signal                                                         *)

SignalAdd(t, n) ==
  /\ Entering(t) /\ val + n <= MaxVal
  /\ val' = val + n /\ credit' = credit + n
  /\ lock' = t /\ Goto(t, "signaling")
  /\ UNCHANGED <<registered, waiting, status, canceled, arg>>

(* SEMA_OVF: the units are refused, no sleeper is looked at.                *)
SignalOverflow(t, n) ==
  /\ Entering(t) /\ val + n > MaxVal
  /\ Goto(t, "idle")
  /\ UNCHANGED <<registered, val, waiting, lock, status, canceled, arg, credit>>

(* One turn of the loop: the head is woken and its units are taken for it.  *)
HeadServed == waiting # <<>> /\ val >= Head(waiting).signal

SignalWake(t) ==
  /\ pc[t] = "signaling" /\ HeadServed
  /\ status' = [status EXCEPT ![Head(waiting).thread] = "run"]
  /\ waiting' = Tail(waiting)
  /\ val' = val - Head(waiting).signal
  /\ UNCHANGED <<registered, lock, canceled, pc, arg, credit>>

(* Mutant of SignalDone: one sleeper per signal, if rather than while.      *)
SignalDoneEarly(t) ==
  /\ pc[t] = "signaling"
  /\ lock' = NoThread /\ Goto(t, "idle")
  /\ UNCHANGED <<registered, val, waiting, status, canceled, arg, credit>>

(* The loop ends when the queue is empty or its head asks for too much.     *)
SignalDone(t) ==
  /\ pc[t] = "signaling" /\ ~HeadServed
  /\ lock' = NoThread /\ Goto(t, "idle")
  /\ UNCHANGED <<registered, val, waiting, status, canceled, arg, credit>>

-----------------------------------------------------------------------------
(* semaphore_cancel                                                         *)

CancelStart(t, n) ==
  /\ Entering(t) /\ t \in Cancelers
  /\ lock' = t /\ arg' = [arg EXCEPT ![t] = n]
  /\ Goto(t, "canceling")
  /\ UNCHANGED <<registered, val, waiting, status, canceled, credit>>

CancelWake(t) ==
  /\ pc[t] = "canceling" /\ waiting # <<>>
  /\ canceled' = canceled \cup {Head(waiting).thread}
  /\ status' = [status EXCEPT ![Head(waiting).thread] = "run"]
  /\ waiting' = Tail(waiting)
  /\ UNCHANGED <<registered, val, lock, pc, arg, credit>>

(* Everybody has been woken when setCount is found to be more than the      *)
(* value (ILLEGAL_COUNT); a negative one stands for the initial value.      *)
CancelDone(t) ==
  /\ pc[t] = "canceling" /\ waiting = <<>>
  /\ val' = IF val < arg[t] THEN val ELSE IF arg[t] < 0 THEN InitVal ELSE arg[t]
  /\ credit' = credit + (val' - val)
  /\ lock' = NoThread /\ arg' = [arg EXCEPT ![t] = 0]
  /\ Goto(t, "idle")
  /\ UNCHANGED <<registered, waiting, status, canceled>>

-----------------------------------------------------------------------------
(* semaphore_delete: the queue is looked at without the semaphore's lock.   *)

DeleteCheck(t) ==
  /\ pc[t] = "found" /\ t \in Deleters
  /\ Goto(t, IF waiting = <<>> THEN "erasing" ELSE "idle")
  /\ UNCHANGED <<registered, val, waiting, lock, status, canceled, arg, credit>>

DeleteErase(t) ==
  /\ pc[t] = "erasing"
  /\ registered' = FALSE /\ Goto(t, "idle")
  /\ UNCHANGED <<val, waiting, lock, status, canceled, arg, credit>>

-----------------------------------------------------------------------------
Wait(t) == \E n \in Needs : WaitTake(t, n) \/ WaitSleep(t, n) \/ WaitPoll(t, n)

Signal(t) ==
  \/ \E n \in Signals : SignalAdd(t, n) \/ SignalOverflow(t, n)
  \/ SignalWake(t) \/ SignalDone(t)

Cancel(t) ==
  \/ \E n \in SetCounts : CancelStart(t, n)
  \/ CancelWake(t) \/ CancelDone(t)

Next ==
  \/ CreateSemaphore
  \/ \E t \in Threads :
       \/ FindSemaphore(t)
       \/ Wait(t) \/ Woken(t) \/ TimeOut(t)
       \/ Signal(t) \/ Cancel(t)
       \/ DeleteCheck(t) \/ DeleteErase(t)

Spec == Init /\ [][Next]_vars

(* A wake-up loop runs to its end, a woken thread is resumed by the host    *)
(* and gets the semaphore's lock back in the end however often others take  *)
(* it, and the threads that never wait go on signalling.                    *)
Fairness ==
  /\ WF_vars(CreateSemaphore)
  /\ \A t \in Threads :
       /\ SF_vars(Woken(t))
       /\ WF_vars(SignalWake(t) \/ SignalDone(t))
       /\ WF_vars(CancelWake(t) \/ CancelDone(t))
  /\ \A t \in Threads \ Waiters :
       /\ WF_vars(FindSemaphore(t))
       /\ \A n \in Signals : SF_vars(SignalAdd(t, n))
FairSpec == Spec /\ Fairness

-----------------------------------------------------------------------------
(* Units are neither lost nor handed out twice: what the guests put in and  *)
(* have not been given is the value plus what was taken for sleepers that   *)
(* were woken by a signal and have not returned yet, through time-outs and  *)
(* cancels of any of them.                                                  *)
InFlight ==
  {t \in Threads : pc[t] = "asleep" /\ status[t] = "run" /\ t \notin canceled}
UnitsConserved == credit = val + MapThenSumSet(LAMBDA t : arg[t], InFlight)

(* The value never leaves 0..max, whichever of wait, signal, the wake-up    *)
(* loop and a cancel's reset changed it.                                    *)
ValueInRange == val \in 0..MaxVal

(* A thread sleeps exactly while it has one entry in the queue, with the    *)
(* count it asked for, and a canceled thread has none: no wake-up finds a   *)
(* thread that is not waiting (the assertion in update_status).             *)
QueueMatchesStatus ==
  /\ Distinct(waiting)
  /\ \A t \in Threads : status[t] = "wait" <=> t \in Sleepers(waiting)
  /\ \A t \in Threads :
       status[t] = "wait" =>
         /\ pc[t] = "asleep" /\ t \notin canceled
         /\ [thread |-> t, signal |-> arg[t]] \in ToSet(waiting)

(* No lost wake-up: outside a wake-up loop the first sleeper asks for more  *)
(* units than there are.  One thing can break it: the sleeper in front of   *)
(* it times out, since handle_timeout serves nobody.                        *)
HeadBlocked == lock = NoThread => ~HeadServed
HeadTimesOut ==
  \E t \in Threads :
    /\ status[t] = "wait" /\ pc'[t] = "idle"
    /\ waiting # <<>> /\ Head(waiting).thread = t
StrandedOnlyByTimeOut == [][HeadBlocked => HeadBlocked' \/ HeadTimesOut]_vars

(* A thread that waits for one unit, without a timeout, and that no later   *)
(* one is preferred to is eventually woken while somebody signals: a signal *)
(* gives the units to the queue before another wait can take them.          *)
WaiterServed ==
  \A t \in (Waiters \cap NeverPassed) \ Timed :
    pc[t] = "asleep" /\ arg[t] = 1 ~> pc[t] = "idle" \/ ~registered
=============================================================================
