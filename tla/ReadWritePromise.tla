-------------------------- MODULE ReadWritePromise --------------------------
(***************************************************************************)
(* What a reader/writer lock promises the guest threads that use it, in    *)
(* terms of what its calls have told them: how many read and write locks   *)
(* each thread was granted and has not given back.  Queueing, waking and   *)
(* calls that end with an error are not part of the promise: they stutter. *)
(***************************************************************************)
EXTENDS Naturals

CONSTANT Threads

VARIABLES
  registered,  (* the uid names the lock                                    *)
  reads,       (* read locks each thread was told it holds                  *)
  writes       (* write locks each thread was told it holds                 *)

vars == <<registered, reads, writes>>

Nothing == [t \in Threads |-> 0]

Init == registered = FALSE /\ reads = Nothing /\ writes = Nothing

(* A reader shares the lock with readers only.                              *)
GrantRead(t) ==
  /\ \A u \in Threads : writes[u] = 0
  /\ reads' = [reads EXCEPT ![t] = @ + 1]
  /\ UNCHANGED <<registered, writes>>

(* A writer shares it with nobody, but may hold it more than once.          *)
GrantWrite(t) ==
  /\ \A u \in Threads : reads[u] = 0
  /\ \A u \in Threads \ {t} : writes[u] = 0
  /\ writes' = [writes EXCEPT ![t] = @ + 1]
  /\ UNCHANGED <<registered, reads>>

GiveBackRead(t) ==
  /\ reads[t] > 0
  /\ reads' = [reads EXCEPT ![t] = @ - 1]
  /\ UNCHANGED <<registered, writes>>

GiveBackWrite(t) ==
  /\ writes[t] > 0
  /\ writes' = [writes EXCEPT ![t] = @ - 1]
  /\ UNCHANGED <<registered, reads>>

(* A new lock takes the place of a deleted one: whatever was held of that   *)
(* is no concern of the new one.                                            *)
Create ==
  /\ ~registered /\ registered'
  /\ reads' = Nothing /\ writes' = Nothing

(* Deleting takes the name away and no lock.                                *)
Delete ==
  /\ ~registered'
  /\ UNCHANGED <<reads, writes>>

Next ==
  \/ \E t \in Threads :
       \/ GrantRead(t) \/ GrantWrite(t)
       \/ GiveBackRead(t) \/ GiveBackWrite(t)
  \/ Create \/ Delete

Spec == Init /\ [][Next]_vars
=============================================================================
