----------------------------- MODULE HostQueue -----------------------------
(***************************************************************************)
(* Queue<T> of threads/include/threads/queue.h: a deque, a mutex, two      *)
(* condition variables and the flag aborted.  abort() sets the flag and    *)
(* notifies without the mutex, so a caller that has found the flag clear   *)
(* and is about to sleep is a place of its own: it still holds the mutex,  *)
(* and an abort that comes then wakes it from nothing.                     *)
(*                                                                         *)
(* Every operator is the part of a call between taking the mutex and       *)
(* releasing it; a caller that was woken takes the mutex and calls again.  *)
(* Spurious wake-ups end in the same loops and are left out.               *)
(***************************************************************************)
EXTENDS Naturals, Sequences

CONSTANTS Callers, Capacity

VARIABLES
  items,     (* queue_                                                     *)
  aborted,
  at         (* where a caller is: outside, about to sleep, or asleep      *)

(* cond_ is for room and for emptiness, condempty_ for an item.            *)
Conditions == {"cond", "condempty"}
About == [cond |-> "aboutCond", condempty |-> "aboutCondempty"]
Asleep == [cond |-> "asleepCond", condempty |-> "asleepCondempty"]
Places == {"outside"} \cup {About[c] : c \in Conditions} \cup {Asleep[c] : c \in Conditions}

Create == items = <<>> /\ aborted = FALSE /\ at = [t \in Callers |-> "outside"]

HoldsMutex(t) == \E c \in Conditions : at[t] = About[c]
Enter(t) == at[t] = "outside" /\ \A u \in Callers : ~HoldsMutex(u)

NotifyAll(c) ==
  at' = [t \in Callers |-> IF at[t] = Asleep[c] THEN "outside" ELSE at[t]]

NotifyOne(c) ==
  \/ \E t \in Callers : at[t] = Asleep[c] /\ at' = [at EXCEPT ![t] = "outside"]
  \/ (\A t \in Callers : at[t] # Asleep[c]) /\ UNCHANGED at

Wait(t, c) == at' = [at EXCEPT ![t] = About[c]] /\ UNCHANGED <<items, aborted>>

(* The second half of condition_variable::wait: asleep, the mutex free.    *)
FallAsleep(t) ==
  /\ \E c \in Conditions : at[t] = About[c] /\ at' = [at EXCEPT ![t] = Asleep[c]]
  /\ UNCHANGED <<items, aborted>>

(* Mutant of Push: the wrong end of the deque.                              *)
PushInFront(t, x) ==
  /\ Enter(t) /\ ~aborted /\ Len(items) # Capacity
  /\ items' = <<x>> \o items /\ NotifyOne("condempty") /\ UNCHANGED aborted

(* push(): with room, without, and after abort.                            *)
Push(t, x) ==
  /\ Enter(t) /\ ~aborted /\ Len(items) # Capacity
  /\ items' = Append(items, x) /\ NotifyOne("condempty") /\ UNCHANGED aborted
PushWaits(t) == Enter(t) /\ ~aborted /\ Len(items) = Capacity /\ Wait(t, "cond")
PushRefused(t) == Enter(t) /\ aborted /\ UNCHANGED <<items, aborted, at>>

(* Mutant of Pop: nobody is told.                                           *)
PopInSilence(t) ==
  /\ Enter(t) /\ ~aborted /\ items # <<>>
  /\ items' = Tail(items) /\ UNCHANGED <<at, aborted>>

(* top() and pop() without a limit of time.                                *)
TakeWaits(t) == Enter(t) /\ ~aborted /\ items = <<>> /\ Wait(t, "condempty")
TakeRefused(t) == Enter(t) /\ aborted /\ UNCHANGED <<items, aborted, at>>
Top(t) == Enter(t) /\ ~aborted /\ items # <<>> /\ UNCHANGED <<items, aborted, at>>
Pop(t) ==
  /\ Enter(t) /\ ~aborted /\ items # <<>>
  /\ items' = Tail(items) /\ NotifyAll("cond") /\ UNCHANGED aborted

(* wait_empty().                                                           *)
EmptyWaits(t) == Enter(t) /\ ~aborted /\ items # <<>> /\ Wait(t, "cond")
EmptySeen(t) == Enter(t) /\ (aborted \/ items = <<>>) /\ UNCHANGED <<items, aborted, at>>

(* abort(): no mutex, and both condition variables.                        *)
Abort ==
  /\ aborted' = TRUE
  /\ at' = [t \in Callers |-> IF at[t] \in {Asleep[c] : c \in Conditions}
                              THEN "outside" ELSE at[t]]
  /\ UNCHANGED items

(* reset(): no mutex either; nobody is woken.                              *)
Reset == items' = <<>> /\ aborted' = FALSE /\ UNCHANGED at
=============================================================================
