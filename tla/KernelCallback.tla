---------------------------- MODULE KernelCallback ----------------------------
(***************************************************************************)
(* The callbacks of guest threads (callback.cpp): notifications are counted*)
(* until the thread that created the callback runs it, in one of its own   *)
(* calls.  Callback::_mutex is held while the guest's function runs, so    *)
(* whoever notifies or cancels then waits for its return.                  *)
(*                                                                         *)
(* A part: the module that uses it says who calls what and when.           *)
(***************************************************************************)
EXTENDS Naturals

CONSTANT Callbacks

VARIABLES
  live,       (* the callbacks that are in kernel.callbacks                 *)
  notified,   (* Callback::num_notifications                                *)
  running,    (* callbacks whose function runs: _mutex is held              *)
  args,       (* the number of notifications the function was called with   *)
  owed        (* history: notifications made, minus delivered and cancelled *)

Zero == [c \in Callbacks |-> 0]

(* sceKernelCreateCallback has been called for each.                        *)
Create ==
  /\ live = Callbacks /\ notified = Zero /\ running = {} /\ args = Zero /\ owed = Zero

(* Mutant of Notify: the mutex is not taken.                                *)
NotifyAnyway(c) ==
  /\ notified' = [notified EXCEPT ![c] = @ + 1]
  /\ owed' = [owed EXCEPT ![c] = @ + 1]
  /\ UNCHANGED <<live, running, args>>

(* notify: from an event or from sceKernelNotifyCallback.                   *)
Notify(c) ==
  /\ c \notin running
  /\ notified' = [notified EXCEPT ![c] = @ + 1]
  /\ owed' = [owed EXCEPT ![c] = @ + 1]
  /\ UNCHANGED <<live, running, args>>

Cancel(c) ==
  /\ c \in live /\ c \notin running
  /\ owed' = [owed EXCEPT ![c] = @ - notified[c]]
  /\ notified' = [notified EXCEPT ![c] = 0]
  /\ UNCHANGED <<live, running, args>>

(* sceKernelDeleteCallback: only the uid and the thread's list forget it.   *)
Delete(c) ==
  /\ c \in live /\ live' = live \ {c}
  /\ UNCHANGED <<notified, running, args, owed>>

(* execute, up to the call of the function, and after its return.           *)
NotDue(c) == notified[c] = 0 /\ UNCHANGED <<live, notified, running, args, owed>>

Execute(c) ==
  /\ notified[c] > 0 /\ c \notin running
  /\ running' = running \cup {c}
  /\ args' = [args EXCEPT ![c] = notified[c]]
  /\ UNCHANGED <<live, notified, owed>>

(* Mutant of Return: the mutex is kept.                                     *)
ReturnLocked(c) ==
  /\ c \in running /\ args[c] > 0
  /\ owed' = [owed EXCEPT ![c] = @ - args[c]]
  /\ notified' = [notified EXCEPT ![c] = 0] /\ args' = [args EXCEPT ![c] = 0]
  /\ UNCHANGED <<live, running>>

Return(c) ==
  /\ c \in running /\ running' = running \ {c}
  /\ owed' = [owed EXCEPT ![c] = @ - args[c]]
  /\ notified' = [notified EXCEPT ![c] = 0] /\ args' = [args EXCEPT ![c] = 0]
  /\ UNCHANGED live
=============================================================================
