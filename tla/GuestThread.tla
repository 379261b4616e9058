----------------------------- MODULE GuestThread -----------------------------
(***************************************************************************)
(* The life of guest threads (thread.cpp, kernel.cpp and the thread calls  *)
(* of SceThreadmgr.cpp): starting, exiting, deleting, waiting for an end,  *)
(* and the host's pause, resume and close of the whole application.        *)
(*                                                                         *)
(* Every guest thread is a host thread inside run_loop.  It holds its own  *)
(* ThreadState::mutex in the loop and gives it up while it runs guest code,*)
(* makes a call or sleeps; to_do is what others ask of it, partly without  *)
(* that mutex.  The start callback counts as guest code, and a cpu error as*)
(* its return; the debugger's steps are left out.                          *)
(***************************************************************************)
EXTENDS Integers, FiniteSets

CONSTANTS
  Threads,     (* guest threads; an id is never used again                  *)
  Main,        (* the thread the host starts                                *)
  Workers,     (* threads whose code comes to an end                        *)
  Starters,    (* threads that may call sceKernelStartThread                *)
  Deleters,    (* threads that may call sceKernelDeleteThread               *)
  Joins,       (* <<t, u>>: t may call sceKernelWaitThreadEnd on u          *)
  EndHandler   (* kernel.thread_event_end is set                            *)

ASSUME GuestThreadAssumption ==
  /\ IsFiniteSet(Threads) /\ Main \in Threads
  /\ Workers \subseteq Threads /\ Starters \subseteq Threads /\ Deleters \subseteq Threads
  /\ Joins \subseteq Threads \X Threads /\ \A t \in Threads : <<t, t>> \notin Joins
  /\ EndHandler \in BOOLEAN

VARIABLES
  registered,    (* the keys of kernel.threads                              *)
  status,        (* ThreadState::status                                     *)
  toDo,          (* ThreadState::to_do                                      *)
  callLevel,     (* ThreadState::call_level                                 *)
  deleted,       (* threads that were asked to go by the guest              *)
  runEnd,        (* threads whose run_end_callback is set                   *)
  waiters,       (* ThreadState::waiting_threads                            *)
  locked,        (* threads that hold their own mutex between two steps     *)
  pc,            (* where the host thread is                                *)
  target,        (* the thread its current call is about                    *)
  saved,         (* old_to_do and old_call_level of run_thread_end_callback *)
  host,          (* what the user interface is doing to all threads         *)
  left,          (* the threads it has not come to yet                      *)
  chosen,        (* the thread it is at                                     *)
  pausedStatus   (* kernel.paused_threads_status; only run is told apart    *)

state == <<status, toDo, callLevel, runEnd>>
loop == <<locked, pc, target, saved>>
hosts == <<host, left, chosen, pausedStatus>>
guests == <<registered, deleted>>
vars == <<guests, state, waiters, loop, hosts>>

Labels == {"none", "loop", "asleep", "guest", "back", "returned", "starting",
           "deleting", "joinTarget", "joining", "raising", "endcb",
           "endcbLoop", "endcbAsleep", "ended", "over", "gone"}
Statuses == {"run", "dormant", "suspend", "wait"}

TypeOK ==
  /\ registered \in SUBSET Threads /\ deleted \in SUBSET Threads
  /\ status \in [Threads -> Statuses]
  /\ toDo \in [Threads -> {"remove", "run", "suspend", "wait"}]
  /\ callLevel \in [Threads -> 0..1]
  /\ runEnd \in SUBSET Threads
  /\ waiters \in [Threads -> SUBSET Threads]
  /\ locked \in SUBSET Threads
  /\ pc \in [Threads -> Labels]
  /\ target \in [Threads -> Threads]
  /\ saved \in [Threads -> [toDo : {"run", "remove"}, level : 0..1]]
  /\ host \in {"idle", "pausing", "suspending", "paused", "resuming", "closing",
               "closed"}
  /\ left \in SUBSET Threads /\ chosen \in Threads
  /\ pausedStatus \in [Threads -> {"run", "other"}]

NothingSaved == [toDo |-> "run", level |-> 0]

Goto(t, label) == pc' = [pc EXCEPT ![t] = label]

(* kernel.mutex: the host keeps it through a walk over all threads.         *)
KernelFree == host \in {"idle", "paused", "closed"}

(* something_to_do.notify_one: the thread leaves its sleep, if it sleeps.   *)
Awake(p) == IF p = "asleep" THEN "loop" ELSE IF p = "endcbAsleep" THEN "endcbLoop" ELSE p

-----------------------------------------------------------------------------
(* The host starts the main thread.  An element that paused_threads_status  *)
(* lacks is read as the first status, run.                                  *)
Init ==
  /\ registered = {Main} /\ deleted = {}
  /\ status = [t \in Threads |-> IF t = Main THEN "run" ELSE "dormant"]
  /\ toDo = [t \in Threads |-> IF t = Main THEN "run" ELSE "wait"]
  /\ callLevel = [t \in Threads |-> IF t = Main THEN 1 ELSE 0]
  /\ runEnd = {} /\ waiters = [t \in Threads |-> {}]
  /\ locked = {}
  /\ pc = [t \in Threads |-> IF t = Main THEN "loop" ELSE "none"]
  /\ target = [t \in Threads |-> t] /\ saved = [t \in Threads |-> NothingSaved]
  /\ host = "idle" /\ left = {} /\ chosen = Main
  /\ pausedStatus = [t \in Threads |-> "run"]

(* create_thread: a dormant thread, and its host thread at its loop.        *)
CreateThread(t, u) ==
  /\ pc[t] = "guest" /\ pc[u] = "none" /\ KernelFree
  /\ registered' = registered \cup {u}
  /\ pc' = [pc EXCEPT ![t] = "back", ![u] = "loop"]
  /\ UNCHANGED <<deleted, state, waiters, locked, target, saved, hosts>>

-----------------------------------------------------------------------------
(* run_loop.  A turn begins with the mutex, taken or kept.                  *)

RunGuest(t) ==
  /\ pc[t] = "loop" /\ toDo[t] = "run" /\ callLevel[t] > 0
  /\ status' = [status EXCEPT ![t] = "run"]
  /\ locked' = locked \ {t} /\ Goto(t, "guest")
  /\ UNCHANGED <<guests, toDo, callLevel, runEnd, waiters, target, saved, hosts>>

Sleep(t) ==
  /\ pc[t] = "loop" /\ toDo[t] \in {"wait", "suspend"}
  /\ status' = IF toDo[t] = "suspend" THEN [status EXCEPT ![t] = "suspend"] ELSE status
  /\ locked' = locked \ {t} /\ Goto(t, "asleep")
  /\ UNCHANGED <<guests, toDo, callLevel, runEnd, waiters, target, saved, hosts>>

(* Nothing more to run, or asked to go.                                     *)
Ending(t) ==
  pc[t] = "loop" /\ (toDo[t] = "remove" \/ (toDo[t] = "run" /\ callLevel[t] = 0))

(* The end callback is guest code with a run_loop, a to_do and a call_level *)
(* of its own.                                                              *)
EndCallback(t) ==
  /\ Ending(t) /\ t \in runEnd /\ EndHandler
  /\ runEnd' = runEnd \ {t}
  /\ saved' = [saved EXCEPT ![t] = [toDo |-> toDo[t], level |-> callLevel[t]]]
  /\ toDo' = [toDo EXCEPT ![t] = "run"] /\ callLevel' = [callLevel EXCEPT ![t] = 1]
  /\ locked' = locked \ {t} /\ Goto(t, "endcbLoop")
  /\ UNCHANGED <<guests, status, waiters, target, hosts>>

EndCallbackRuns(t) ==
  /\ pc[t] = "endcbLoop" /\ toDo[t] = "run"
  /\ status' = [status EXCEPT ![t] = "run"]
  /\ locked' = locked \ {t} /\ Goto(t, "endcb")
  /\ UNCHANGED <<guests, toDo, callLevel, runEnd, waiters, target, saved, hosts>>

EndCallbackSleeps(t) ==
  /\ pc[t] = "endcbLoop" /\ toDo[t] \in {"wait", "suspend"}
  /\ status' = IF toDo[t] = "suspend" THEN [status EXCEPT ![t] = "suspend"] ELSE status
  /\ locked' = locked \ {t} /\ Goto(t, "endcbAsleep")
  /\ UNCHANGED <<guests, toDo, callLevel, runEnd, waiters, target, saved, hosts>>

(* Stopped before its code has come to an end.                              *)
EndCallbackStopped(t) ==
  /\ pc[t] = "endcb" /\ toDo[t] = "suspend"
  /\ status' = [status EXCEPT ![t] = "suspend"]
  /\ toDo' = [toDo EXCEPT ![t] = "wait"]
  /\ locked' = locked \cup {t} /\ Goto(t, "endcbLoop")
  /\ UNCHANGED <<guests, callLevel, runEnd, waiters, target, saved, hosts>>

(* The callback is over, and to_do and call_level are put back, whatever    *)
(* was asked of the thread meanwhile.                                       *)
EndCallbackDone(t) ==
  /\ pc[t] = "endcb" \/ (pc[t] = "endcbLoop" /\ toDo[t] = "remove")
  /\ toDo' = [toDo EXCEPT ![t] = saved[t].toDo]
  /\ callLevel' = [callLevel EXCEPT ![t] = saved[t].level]
  /\ \E s \in {status[t]} \cup (IF toDo[t] = "suspend" THEN {"suspend"} ELSE {}) :
       status' = [status EXCEPT ![t] = s]
  /\ locked' = locked \cup {t} /\ Goto(t, "ended")
  /\ UNCHANGED <<guests, runEnd, waiters, target, saved, hosts>>

NoEndCallback(t) ==
  /\ Ending(t) /\ ~(t \in runEnd /\ EndHandler)
  /\ runEnd' = runEnd \ {t}
  /\ saved' = [saved EXCEPT ![t] = [toDo |-> toDo[t], level |-> callLevel[t]]]
  /\ locked' = locked \cup {t} /\ Goto(t, "ended")
  /\ UNCHANGED <<guests, status, toDo, callLevel, waiters, target, hosts>>

(* update_status(dormant); the threads that wait are raised one by one,     *)
(* each with its own mutex.                                                 *)
Dormant(t) ==
  /\ pc[t] = "ended"
  /\ status' = [status EXCEPT ![t] = "dormant"] /\ Goto(t, "raising")
  /\ UNCHANGED <<guests, toDo, callLevel, runEnd, waiters, locked, target, saved,
                 hosts>>

Raise(t, u) ==
  /\ pc[t] = "raising" /\ u \in waiters[t] /\ u \notin locked
  /\ status' = [status EXCEPT ![u] = "run"]
  /\ waiters' = [waiters EXCEPT ![t] = @ \ {u}]
  /\ UNCHANGED <<guests, toDo, callLevel, runEnd, loop, hosts>>

(* Mutant of RaiseDone: only one thread that waits is raised.               *)
RaiseDoneEarly(t) ==
  /\ pc[t] = "raising" /\ Cardinality(waiters[t]) < 2
  /\ IF saved[t].toDo = "remove"
     THEN /\ locked' = locked \ {t} /\ Goto(t, "over") /\ UNCHANGED toDo
     ELSE /\ toDo' = [toDo EXCEPT ![t] = "wait"]
          /\ Goto(t, "loop") /\ UNCHANGED locked
  /\ saved' = [saved EXCEPT ![t] = NothingSaved]
  /\ UNCHANGED <<guests, status, callLevel, runEnd, waiters, target, hosts>>

RaiseDone(t) ==
  /\ pc[t] = "raising" /\ waiters[t] = {}
  /\ IF saved[t].toDo = "remove"
     THEN /\ locked' = locked \ {t} /\ Goto(t, "over") /\ UNCHANGED toDo
     ELSE /\ toDo' = [toDo EXCEPT ![t] = "wait"]
          /\ Goto(t, "loop") /\ UNCHANGED locked
  /\ saved' = [saved EXCEPT ![t] = NothingSaved]
  /\ UNCHANGED <<guests, status, callLevel, runEnd, waiters, target, hosts>>

(* thread_function after the loop.                                          *)
EraseThread(t) ==
  /\ pc[t] = "over" /\ KernelFree
  /\ registered' = registered \ {t} /\ Goto(t, "gone")
  /\ UNCHANGED <<deleted, state, waiters, locked, target, saved, hosts>>

(* The guest code returns from its first function.                          *)
GuestReturn(t) ==
  /\ pc[t] = "guest" /\ t \in Workers /\ Goto(t, "returned")
  /\ UNCHANGED <<guests, state, waiters, locked, target, saved, hosts>>

(* run() ends with the code in the middle: stop() of suspend and            *)
(* exit_delete has ended it, or the code makes a call that is not modelled. *)
(* stop() may come too early to be seen, or be seen by nobody (Dynarmic):   *)
(* nothing is assumed of when, or whether, the code stops.                  *)
GuestStops(t) ==
  /\ pc[t] = "guest" /\ Goto(t, "back")
  /\ UNCHANGED <<guests, state, waiters, locked, target, saved, hosts>>

(* The loop takes its mutex again after guest code or a call, and looks at  *)
(* what it is asked to do.                                                  *)
BackInLoop(t) ==
  /\ pc[t] \in {"back", "returned"}
  /\ IF toDo[t] = "suspend"
     THEN /\ status' = [status EXCEPT ![t] = "suspend"]
          /\ toDo' = [toDo EXCEPT ![t] = "wait"]
     ELSE UNCHANGED <<status, toDo>>
  /\ callLevel' = IF pc[t] = "returned" /\ toDo[t] # "remove"
                  THEN [callLevel EXCEPT ![t] = @ - 1] ELSE callLevel
  /\ target' = [target EXCEPT ![t] = t]
  /\ locked' = locked \cup {t} /\ Goto(t, "loop")
  /\ UNCHANGED <<guests, runEnd, waiters, saved, hosts>>

-----------------------------------------------------------------------------
(* Calls                                                                    *)

(* get_thread finds it, and guests do not start or delete a thread that was *)
(* asked to go.                                                             *)
Usable(t, u) == u \in registered \ (deleted \cup {t})

(* sceKernelExitThread.                                                     *)
Exit(t) ==
  /\ pc[t] = "guest" /\ t \in Workers
  /\ runEnd' = runEnd \cup {t} /\ callLevel' = [callLevel EXCEPT ![t] = 0]
  /\ Goto(t, "back")
  /\ UNCHANGED <<guests, status, toDo, waiters, locked, target, saved, hosts>>

(* sceKernelExitDeleteThread.                                               *)
ExitDelete(t) ==
  /\ pc[t] = "guest" /\ t \in Workers
  /\ runEnd' = runEnd \cup {t} /\ toDo' = [toDo EXCEPT ![t] = "remove"]
  /\ deleted' = deleted \cup {t} /\ Goto(t, "back")
  /\ UNCHANGED <<registered, status, callLevel, waiters, locked, target, saved, hosts>>

(* sceKernelStartThread looks at the thread without its mutex.              *)
StartCheck(t, u) ==
  /\ pc[t] = "guest" /\ t \in Starters /\ Usable(t, u) /\ KernelFree
  /\ target' = [target EXCEPT ![t] = u]
  /\ Goto(t, IF status[u] = "run" \/ callLevel[u] > 0 THEN "back" ELSE "starting")
  /\ UNCHANGED <<guests, state, waiters, locked, saved, hosts>>

Start(t) ==
  LET u == target[t]
  IN  /\ pc[t] = "starting" /\ u \notin locked
      /\ callLevel' = [callLevel EXCEPT ![u] = 1]
      /\ toDo' = [toDo EXCEPT ![u] = "run"]
      /\ status' = [status EXCEPT ![u] = "run"]
      /\ pc' = [pc EXCEPT ![t] = "back", ![u] = Awake(@)]
      /\ UNCHANGED <<guests, runEnd, waiters, locked, target, saved, hosts>>

(* sceKernelDeleteThread.                                                   *)
DeleteCheck(t, u) ==
  /\ pc[t] = "guest" /\ t \in Deleters /\ Usable(t, u) /\ KernelFree
  /\ target' = [target EXCEPT ![t] = u]
  /\ IF status[u] = "dormant"
     THEN Goto(t, "deleting") /\ deleted' = deleted \cup {u}
     ELSE Goto(t, "back") /\ UNCHANGED deleted
  /\ UNCHANGED <<registered, state, waiters, locked, saved, hosts>>

(* exit_delete: only a thread whose to_do is wait is notified; another one  *)
(* is stopped (GuestStops).                                                 *)
Delete(t) ==
  LET u == target[t]
  IN  /\ pc[t] = "deleting" /\ u \notin locked
      /\ runEnd' = runEnd \ {u}
      /\ toDo' = [toDo EXCEPT ![u] = "remove"]
      /\ pc' = [pc EXCEPT ![t] = "back",
                          ![u] = IF toDo[u] = "wait" THEN Awake(@) ELSE @]
      /\ UNCHANGED <<guests, status, callLevel, waiters, locked, target, saved, hosts>>

(* wait_thread_end takes the waiter's mutex and then the other's.           *)
Join(t, u) ==
  /\ pc[t] = "guest" /\ <<t, u>> \in Joins /\ u \in registered /\ KernelFree
  /\ target' = [target EXCEPT ![t] = u]
  /\ locked' = locked \cup {t} /\ Goto(t, "joinTarget")
  /\ UNCHANGED <<guests, state, waiters, saved, hosts>>

(* Mutant of JoinTarget: the other's status is not looked at.               *)
JoinTargetBlindly(t) ==
  /\ pc[t] = "joinTarget" /\ target[t] \notin locked
  /\ status' = [status EXCEPT ![t] = "wait"]
  /\ waiters' = [waiters EXCEPT ![target[t]] = @ \cup {t}]
  /\ locked' = locked \ {t} /\ Goto(t, "joining")
  /\ UNCHANGED <<guests, toDo, callLevel, runEnd, target, saved, hosts>>

JoinTarget(t) ==
  /\ pc[t] = "joinTarget" /\ target[t] \notin locked
  /\ IF status[target[t]] = "dormant"
     THEN /\ Goto(t, "back") /\ UNCHANGED <<status, waiters>>
     ELSE /\ status' = [status EXCEPT ![t] = "wait"]
          /\ waiters' = [waiters EXCEPT ![target[t]] = @ \cup {t}]
          /\ Goto(t, "joining")
  /\ locked' = locked \ {t}
  /\ UNCHANGED <<guests, toDo, callLevel, runEnd, target, saved, hosts>>

Joined(t) ==
  /\ pc[t] = "joining" /\ status[t] = "run" /\ Goto(t, "back")
  /\ UNCHANGED <<guests, state, waiters, locked, target, saved, hosts>>

-----------------------------------------------------------------------------
(* The host: pause_threads, resume_threads, exit_delete_all_threads         *)

HostBegins(from, to) ==
  /\ host = from /\ host' = to /\ left' = registered
  /\ UNCHANGED <<guests, state, waiters, loop, chosen, pausedStatus>>

(* A thread's status is looked at without its mutex ...                     *)
PauseLook(t) ==
  /\ host = "pausing" /\ t \in left
  /\ left' = left \ {t}
  /\ IF status[t] = "run"
     THEN host' = "suspending" /\ chosen' = t /\ UNCHANGED pausedStatus
     ELSE /\ pausedStatus' = [pausedStatus EXCEPT ![t] = "other"]
          /\ UNCHANGED <<host, chosen>>
  /\ UNCHANGED <<guests, state, waiters, loop>>

(* ... and so is its to_do changed.  GuestStops is what stop() does.        *)
Suspend ==
  /\ host = "suspending"
  /\ toDo' = [toDo EXCEPT ![chosen] = "suspend"]
  /\ host' = "pausing" /\ chosen' = Main
  /\ UNCHANGED <<guests, status, callLevel, runEnd, waiters, loop, left, pausedStatus>>

(* Mutant of Resume: nobody is notified.                                    *)
ResumeSilently(t) ==
  /\ host = "resuming" /\ t \in left /\ left' = left \ {t}
  /\ IF pausedStatus[t] = "run"
     THEN t \notin locked /\ toDo' = [toDo EXCEPT ![t] = "run"]
     ELSE UNCHANGED toDo
  /\ UNCHANGED <<guests, status, callLevel, runEnd, waiters, loop, host, chosen,
                 pausedStatus>>

Resume(t) ==
  /\ host = "resuming" /\ t \in left /\ left' = left \ {t}
  /\ IF pausedStatus[t] = "run"
     THEN t \notin locked /\ toDo' = [toDo EXCEPT ![t] = "run"] /\ Goto(t, Awake(pc[t]))
     ELSE UNCHANGED <<toDo, pc>>
  /\ UNCHANGED <<guests, status, callLevel, runEnd, waiters, locked, target, saved,
                 host, chosen, pausedStatus>>

(* exit_delete of each thread; nobody waits for them to go.                 *)
Close(t) ==
  /\ host = "closing" /\ t \in left /\ left' = left \ {t} /\ t \notin locked
  /\ runEnd' = runEnd \cup {t} /\ toDo' = [toDo EXCEPT ![t] = "remove"]
  /\ Goto(t, IF toDo[t] = "wait" THEN Awake(pc[t]) ELSE pc[t])
  /\ UNCHANGED <<guests, status, callLevel, waiters, locked, target, saved, host,
                 chosen, pausedStatus>>

HostEnds(from, to) ==
  /\ host = from /\ left = {} /\ host' = to
  /\ pausedStatus' = IF from = "pausing" THEN pausedStatus
                     ELSE [t \in Threads |-> "run"]
  /\ UNCHANGED <<guests, state, waiters, loop, left, chosen>>

-----------------------------------------------------------------------------
RunLoop(t) ==
  \/ RunGuest(t) \/ Sleep(t) \/ BackInLoop(t)
  \/ EndCallback(t) \/ EndCallbackRuns(t) \/ EndCallbackSleeps(t)
  \/ EndCallbackStopped(t) \/ EndCallbackDone(t)
  \/ NoEndCallback(t) \/ Dormant(t) \/ (\E u \in Threads : Raise(t, u))
  \/ RaiseDone(t) \/ EraseThread(t)

Calls(t) ==
  \/ GuestStops(t) \/ GuestReturn(t) \/ Exit(t) \/ ExitDelete(t)
  \/ \E u \in Threads :
       CreateThread(t, u) \/ StartCheck(t, u) \/ DeleteCheck(t, u) \/ Join(t, u)

Answers(t) == Start(t) \/ Delete(t) \/ JoinTarget(t) \/ Joined(t)

PauseBegins == HostBegins("idle", "pausing")
ResumeBegins == HostBegins("paused", "resuming")
CloseBegins == HostBegins("idle", "closing") \/ HostBegins("paused", "closing")
HostGoesOn ==
  \/ \E t \in Threads : PauseLook(t) \/ Resume(t) \/ Close(t)
  \/ Suspend
  \/ HostEnds("pausing", "paused") \/ HostEnds("resuming", "idle")
  \/ HostEnds("closing", "closed")

Next ==
  \/ \E t \in Threads : RunLoop(t) \/ Calls(t) \/ Answers(t)
  \/ PauseBegins \/ ResumeBegins \/ CloseBegins \/ HostGoesOn

Spec == Init /\ [][Next]_vars

(* Host threads go on, and so do the walks of the host, which get a mutex   *)
(* that is given back over and over; guest code does not run for ever, and  *)
(* the user resumes what he pauses, or closes it.                           *)
Fairness ==
  /\ \A t \in Threads :
       /\ WF_vars(RunLoop(t)) /\ SF_vars(Answers(t))
       /\ SF_vars(GuestReturn(t)) /\ SF_vars(EndCallbackDone(t))
  /\ SF_vars(HostGoesOn) /\ WF_vars(ResumeBegins)
FairSpec == Spec /\ Fairness

-----------------------------------------------------------------------------
(* Whoever is in a thread's waiting_threads sleeps there, as the assertion  *)
(* of raise_waiting_threads says, and who sleeps is in the list of the      *)
(* thread it waits for.                                                     *)
JoinersAsleep ==
  \A t \in Threads :
    /\ \A u \in Threads :
         t \in waiters[u] => status[t] = "wait" /\ pc[t] = "joining" /\ target[t] = u
    /\ status[t] = "wait" => t \in waiters[target[t]]

(* Nobody is left waiting for a thread that has ended, or that has gone     *)
(* before the application is closed.                                        *)
NoJoinerOfEnded ==
  \A t \in Threads :
    \/ status[t] = "dormant" /\ pc[t] # "raising"
    \/ pc[t] = "gone" /\ host \notin {"closing", "closed"}
    => waiters[t] = {}

(* Who waits for a thread's end returns, unless the application is closed.  *)
JoinersReturn ==
  \A t \in Threads :
    pc[t] = "joining" /\ target[t] \in Workers ~> pc[t] # "joining" \/ host = "closed"

(* Nobody stays suspended when the host has resumed the application.        *)
NobodyLeftSuspended ==
  \A t \in Threads :
    status[t] = "suspend" ~> status[t] # "suspend" \/ host = "closed"
=============================================================================
