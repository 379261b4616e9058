----------------------------- MODULE LockPromise -----------------------------
(***************************************************************************)
(* What a kernel mutex promises the guest threads that use it, in terms of *)
(* what its calls have told them: held[t] is the number of locks granted   *)
(* to t and not given back.  How a thread waits, and what a refused or     *)
(* timed-out call does, is not part of the promise: such a call stutters.  *)
(***************************************************************************)
EXTENDS Naturals

CONSTANT Threads

VARIABLES
  registered,  (* the uid names the mutex                                   *)
  held         (* what each thread was told it holds                        *)

vars == <<registered, held>>

Init ==
  /\ registered = FALSE
  /\ held = [t \in Threads |-> 0]

OnlyFor(t) == held' = [held EXCEPT ![t] = held'[t]]

(* A lock call succeeds: nobody else holds the mutex.                       *)
Grant(t) ==
  /\ \A u \in Threads \ {t} : held[u] = 0
  /\ OnlyFor(t) /\ held'[t] \in Nat /\ held'[t] > held[t]
  /\ UNCHANGED registered

(* An unlock call succeeds and gives back part of what the caller holds.    *)
GiveBack(t) ==
  /\ OnlyFor(t) /\ held'[t] \in Nat /\ held'[t] < held[t]
  /\ UNCHANGED registered

(* A mutex is created, for its creator alone, in place of a deleted one.    *)
Create(t) ==
  /\ ~registered /\ registered'
  /\ held'[t] \in Nat
  /\ held' = [u \in Threads |-> IF u = t THEN held'[t] ELSE 0]

(* Deleting takes the name away and no lock.                                *)
Delete ==
  /\ ~registered'
  /\ UNCHANGED held

Next ==
  \/ \E t \in Threads : Grant(t) \/ GiveBack(t) \/ Create(t)
  \/ Delete

Spec == Init /\ [][Next]_vars
=============================================================================
