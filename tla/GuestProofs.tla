---------------------------- MODULE GuestProofs ----------------------------
(***************************************************************************)
(* Theorems about the life of guest threads (GuestThread) and about guest  *)
(* memory (GuestMemory).                                                   *)
(*                                                                         *)
(* The first part: what a thread's label says of its status, its mutex and *)
(* its waiters is inductive (LifeInv), and with it that nobody waits for a *)
(* thread that has ended.  That nobody waits for a thread that is gone     *)
(* needs one manager of threads (OneManager).                              *)
(*                                                                         *)
(* The second part: what the recursive functions of the bitmap's search    *)
(* compute is shown by the least counterexample; from it that bitmap and   *)
(* table agree (MemoryInv), that holders are kept apart and that the       *)
(* allocator implements PagePool, for requests that are ordinary           *)
(* (OrdinaryRequests).                                                     *)
(***************************************************************************)
EXTENDS GuestThread, GuestMemory, WellFoundedInduction, TLAPS

(* A thread in guest code or in a call has something to return to.          *)
InGuestCode == {"guest", "returned", "starting", "deleting", "joinTarget", "joining",
                "endcb", "endcbLoop", "endcbAsleep"}
LevelRight == \A t \in Threads : pc[t] \in InGuestCode => callLevel[t] = 1

(* Whoever is ending keeps its mutex until it has raised those that wait.   *)
EndingRight ==
  \A t \in Threads :
    /\ pc[t] \in {"ended", "raising"} => t \in locked
    /\ pc[t] = "raising" => status[t] = "dormant"

RegisteredRight == \A t \in Threads : t \in registered <=> pc[t] \notin {"none", "gone"}

(* Nobody waits for a thread that has ended and raised who waited.          *)
EndedRight ==
  \A t \in Threads : status[t] = "dormant" /\ pc[t] # "raising" => waiters[t] = {}

LifeInv == TypeOK /\ LevelRight /\ EndingRight /\ RegisteredRight /\ EndedRight

(* What the labels say holds when nothing has happened yet.                 *)
LEMMA LifeInit == Init => LifeInv
BY GuestThreadAssumption
   DEF Init, LifeInv, TypeOK, LevelRight, EndingRight, RegisteredRight, EndedRight, InGuestCode,
       Labels, Statuses, guests, state, loop, hosts, Goto, NothingSaved

(* ThreadState::run_loop and the guest code it runs keep it.                *)
LEMMA RunLoopKeepsLife ==
  ASSUME LifeInv, NEW t \in Threads, RunLoop(t)
  PROVE  LifeInv'
<1> USE DEF LifeInv, TypeOK, LevelRight, EndingRight, RegisteredRight, EndedRight, InGuestCode,
       Labels, Statuses, guests, state, loop, hosts, Goto
<1>1. CASE RunGuest(t)
  BY <1>1 DEF RunGuest
<1>2. CASE Sleep(t)
  BY <1>2 DEF Sleep
<1>3. CASE BackInLoop(t)
  <2>1. TypeOK'
    <3>1. callLevel' \in [Threads -> 0..1]
      BY <1>3 DEF BackInLoop
    <3>2. status' \in [Threads -> Statuses]
      <4>1. CASE toDo[t] = "suspend"
        BY <1>3, <4>1 DEF BackInLoop
      <4>2. CASE ~(toDo[t] = "suspend")
        BY <1>3, <4>2 DEF BackInLoop
      <4> QED
        BY <4>1, <4>2
    <3>3. toDo' \in [Threads -> {"remove", "run", "suspend", "wait"}]
      <4>1. CASE toDo[t] = "suspend"
        BY <1>3, <4>1 DEF BackInLoop
      <4>2. CASE ~(toDo[t] = "suspend")
        BY <1>3, <4>2 DEF BackInLoop
      <4> QED
        BY <4>1, <4>2
    <3>4. pc' \in [Threads -> Labels]
      BY <1>3 DEF BackInLoop
    <3> QED
      BY <1>3, <3>1, <3>2, <3>3, <3>4 DEF BackInLoop
  <2>2. LevelRight'
    BY <1>3 DEF BackInLoop
  <2>3. EndingRight'
    BY <1>3 DEF BackInLoop
  <2>4. RegisteredRight'
    BY <1>3 DEF BackInLoop
  <2>5. EndedRight'
    BY <1>3 DEF BackInLoop
  <2> QED
    BY <2>1, <2>2, <2>3, <2>4, <2>5
<1>4. CASE EndCallback(t)
  BY <1>4 DEF EndCallback, Ending
<1>5. CASE EndCallbackRuns(t)
  BY <1>5 DEF EndCallbackRuns
<1>6. CASE EndCallbackSleeps(t)
  BY <1>6 DEF EndCallbackSleeps
<1>13. CASE EndCallbackStopped(t)
  BY <1>13 DEF EndCallbackStopped
<1>7. CASE EndCallbackDone(t)
  <2>0. PICK s \in Statuses : status' = [status EXCEPT ![t] = s]
                              /\ (s = "dormant" => status[t] = "dormant")
    BY <1>7 DEF EndCallbackDone
  <2>1. TypeOK'
    BY <1>7, <2>0 DEF EndCallbackDone
  <2>2. LevelRight'
    BY <1>7, <2>0 DEF EndCallbackDone
  <2>3. EndingRight'
    BY <1>7, <2>0 DEF EndCallbackDone
  <2>4. RegisteredRight'
    BY <1>7, <2>0 DEF EndCallbackDone
  <2>5. EndedRight'
    BY <1>7, <2>0 DEF EndCallbackDone
  <2> QED
    BY <2>1, <2>2, <2>3, <2>4, <2>5
<1>8. CASE NoEndCallback(t)
  BY <1>8 DEF NoEndCallback, Ending
<1>9. CASE Dormant(t)
  BY <1>9 DEF Dormant
<1>10. ASSUME NEW u \in Threads, Raise(t, u) PROVE LifeInv'
  BY <1>10 DEF Raise
<1>11. CASE RaiseDone(t)
  <2>1. TypeOK'
    <3>1. toDo' \in [Threads -> {"remove", "run", "suspend", "wait"}]
      BY <1>11 DEF RaiseDone, NothingSaved
    <3>2. pc' \in [Threads -> Labels]
      <4>1. pc' = [pc EXCEPT ![t] = "over"] \/ pc' = [pc EXCEPT ![t] = "loop"]
        BY <1>11 DEF RaiseDone
      <4>2. CASE pc' = [pc EXCEPT ![t] = "over"]
        BY ONLY LifeInv, t \in Threads, <4>2 DEF LifeInv, TypeOK, Labels
      <4>3. CASE pc' = [pc EXCEPT ![t] = "loop"]
        BY ONLY LifeInv, t \in Threads, <4>3 DEF LifeInv, TypeOK, Labels
      <4> QED
        BY <4>1, <4>2, <4>3
    <3>3. saved' \in [Threads -> [toDo : {"run", "remove"}, level : 0..1]]
      BY <1>11 DEF RaiseDone, NothingSaved
    <3> QED
      BY <1>11, <3>1, <3>2, <3>3 DEF RaiseDone, NothingSaved
  <2>2. LevelRight'
    BY <1>11 DEF RaiseDone, NothingSaved
  <2>3. EndingRight'
    BY <1>11 DEF RaiseDone, NothingSaved
  <2>4. RegisteredRight'
    BY <1>11 DEF RaiseDone, NothingSaved
  <2>5. EndedRight'
    BY <1>11 DEF RaiseDone, NothingSaved
  <2> QED
    BY <2>1, <2>2, <2>3, <2>4, <2>5
<1>12. CASE EraseThread(t)
  BY <1>12 DEF EraseThread
<1> QED
  BY <1>1, <1>2, <1>3, <1>4, <1>5, <1>6, <1>7, <1>8, <1>9, <1>10, <1>11, <1>12, <1>13 DEF RunLoop

(* So do the calls a thread makes.                                          *)
LEMMA CallsKeepLife ==
  ASSUME LifeInv, NEW t \in Threads, Calls(t)
  PROVE  LifeInv'
<1> USE DEF LifeInv, TypeOK, LevelRight, EndingRight, RegisteredRight, EndedRight, InGuestCode,
       Labels, Statuses, guests, state, loop, hosts, Goto
<1>1. CASE GuestReturn(t)
  BY <1>1 DEF GuestReturn
<1>2. CASE Exit(t)
  BY <1>2 DEF Exit
<1>3. CASE ExitDelete(t)
  BY <1>3 DEF ExitDelete
<1>4. ASSUME NEW u \in Threads, CreateThread(t, u) PROVE LifeInv'
  <2>1. TypeOK'
    BY <1>4 DEF CreateThread
  <2>2. LevelRight'
    BY <1>4 DEF CreateThread
  <2>3. EndingRight'
    BY <1>4 DEF CreateThread
  <2>4. RegisteredRight'
    BY <1>4 DEF CreateThread
  <2>5. EndedRight'
    BY <1>4 DEF CreateThread
  <2> QED
    BY <2>1, <2>2, <2>3, <2>4, <2>5
<1>5. ASSUME NEW u \in Threads, StartCheck(t, u) PROVE LifeInv'
  BY <1>5 DEF StartCheck, Usable
<1>6. ASSUME NEW u \in Threads, DeleteCheck(t, u) PROVE LifeInv'
  <2>1. TypeOK'
    <3>1. pc' = [pc EXCEPT ![t] = "deleting"] \/ pc' = [pc EXCEPT ![t] = "back"]
      BY <1>6 DEF DeleteCheck
    <3>2. pc' \in [Threads -> Labels]
      <4>1. CASE pc' = [pc EXCEPT ![t] = "deleting"]
        BY ONLY LifeInv, t \in Threads, <4>1 DEF LifeInv, TypeOK, Labels
      <4>2. CASE pc' = [pc EXCEPT ![t] = "back"]
        BY ONLY LifeInv, t \in Threads, <4>2 DEF LifeInv, TypeOK, Labels
      <4> QED
        BY <3>1, <4>1, <4>2
    <3>3. deleted' \in SUBSET Threads /\ target' \in [Threads -> Threads]
      BY <1>6 DEF DeleteCheck
    <3> QED
      BY <1>6, <3>2, <3>3 DEF DeleteCheck
  <2>2. LevelRight'
    BY <1>6 DEF DeleteCheck, Usable
  <2>3. EndingRight'
    BY <1>6 DEF DeleteCheck, Usable
  <2>4. RegisteredRight'
    BY <1>6 DEF DeleteCheck, Usable
  <2>5. EndedRight'
    BY <1>6 DEF DeleteCheck, Usable
  <2> QED
    BY <2>1, <2>2, <2>3, <2>4, <2>5
<1>7. ASSUME NEW u \in Threads, Join(t, u) PROVE LifeInv'
  BY <1>7 DEF Join
<1>8. CASE GuestStops(t)
  BY <1>8 DEF GuestStops
<1> QED
  BY <1>1, <1>2, <1>3, <1>4, <1>5, <1>6, <1>7, <1>8 DEF Calls

(* So do the calls once they have what they looked for.                     *)
LEMMA AnswersKeepLife ==
  ASSUME LifeInv, NEW t \in Threads, Answers(t)
  PROVE  LifeInv'
<1> USE DEF LifeInv, TypeOK, LevelRight, EndingRight, RegisteredRight, EndedRight, InGuestCode,
       Labels, Statuses, guests, state, loop, hosts, Goto
<1>1. CASE Start(t)
  <2>1. TypeOK'
    <3>1. pc' \in [Threads -> Labels]
      BY <1>1 DEF Start, Awake
    <3>2. /\ callLevel' \in [Threads -> 0..1] /\ status' \in [Threads -> Statuses]
          /\ toDo' \in [Threads -> {"remove", "run", "suspend", "wait"}]
      BY <1>1 DEF Start
    <3> QED
      BY <1>1, <3>1, <3>2 DEF Start
  <2>2. LevelRight'
    BY <1>1 DEF Start, Awake
  <2>3. EndingRight'
    BY <1>1 DEF Start, Awake
  <2>4. RegisteredRight'
    BY <1>1 DEF Start, Awake
  <2>5. EndedRight'
    BY <1>1 DEF Start, Awake
  <2> QED
    BY <2>1, <2>2, <2>3, <2>4, <2>5
<1>2. CASE Delete(t)
  <2>1. TypeOK'
    BY <1>2 DEF Delete, Awake
  <2>2. LevelRight'
    BY <1>2 DEF Delete, Awake
  <2>3. EndingRight'
    BY <1>2 DEF Delete, Awake
  <2>4. RegisteredRight'
    BY <1>2 DEF Delete, Awake
  <2>5. EndedRight'
    BY <1>2 DEF Delete, Awake
  <2> QED
    BY <2>1, <2>2, <2>3, <2>4, <2>5
<1>3. CASE JoinTarget(t)
  <2>1. TypeOK'
    <3>1. status' \in [Threads -> Statuses]
      BY <1>3 DEF JoinTarget
    <3>2. waiters' \in [Threads -> SUBSET Threads]
      <4>1. CASE status[target[t]] = "dormant"
        BY <1>3, <4>1 DEF JoinTarget
      <4>2. CASE ~(status[target[t]] = "dormant")
        <5> DEFINE u == target[t]
                   joined == waiters[u] \cup {t}
        <5>1. u \in Threads /\ joined \in SUBSET Threads
          OBVIOUS
        <5>2. waiters' = [waiters EXCEPT ![u] = joined]
          BY <1>3, <4>2 DEF JoinTarget
        <5>3. waiters \in [Threads -> SUBSET Threads]
          OBVIOUS
        <5> HIDE DEF u, joined
        <5> QED
          BY <5>1, <5>2, <5>3
      <4> QED
        BY <4>1, <4>2
    <3>3. pc' \in [Threads -> Labels]
      <4>1. pc' = [pc EXCEPT ![t] = "back"] \/ pc' = [pc EXCEPT ![t] = "joining"]
        BY <1>3 DEF JoinTarget
      <4>2. CASE pc' = [pc EXCEPT ![t] = "back"]
        BY ONLY LifeInv, t \in Threads, <4>2 DEF LifeInv, TypeOK, Labels
      <4>3. CASE pc' = [pc EXCEPT ![t] = "joining"]
        BY ONLY LifeInv, t \in Threads, <4>3 DEF LifeInv, TypeOK, Labels
      <4> QED
        BY <4>1, <4>2, <4>3
    <3> QED
      BY <1>3, <3>1, <3>2, <3>3 DEF JoinTarget
  <2>2. LevelRight'
    BY <1>3 DEF JoinTarget
  <2>3. EndingRight'
    BY <1>3 DEF JoinTarget
  <2>4. RegisteredRight'
    BY <1>3 DEF JoinTarget
  <2>5. EndedRight'
    <3>1. CASE status[target[t]] = "dormant"
      BY <1>3, <3>1 DEF JoinTarget
    <3>2. CASE ~(status[target[t]] = "dormant")
      <4>1. /\ status' = [status EXCEPT ![t] = "wait"]
            /\ waiters' = [waiters EXCEPT ![target[t]] = @ \cup {t}]
            /\ pc' = [pc EXCEPT ![t] = "joining"] /\ pc[t] # "raising"
        BY <1>3, <3>2 DEF JoinTarget
      <4> QED
        BY ONLY LifeInv, t \in Threads, <3>2, <4>1 DEF LifeInv, TypeOK, EndedRight
    <3> QED
      BY <3>1, <3>2
  <2> QED
    BY <2>1, <2>2, <2>3, <2>4, <2>5
<1>4. CASE Joined(t)
  BY <1>4 DEF Joined
<1> QED
  BY <1>1, <1>2, <1>3, <1>4 DEF Answers

(* So do the requests that come from outside.                               *)
LEMMA HostKeepsLife ==
  ASSUME LifeInv, PauseBegins \/ ResumeBegins \/ CloseBegins \/ HostGoesOn
  PROVE  LifeInv'
<1> USE DEF LifeInv, TypeOK, LevelRight, EndingRight, RegisteredRight, EndedRight, InGuestCode,
       Labels, Statuses, guests, state, loop, hosts, Goto
<1>1. ASSUME NEW from, NEW to \in {"pausing", "resuming", "closing"}, HostBegins(from, to)
      PROVE  LifeInv'
  BY <1>1 DEF HostBegins
<1>2. ASSUME NEW from, NEW to \in {"paused", "idle", "closed"}, HostEnds(from, to)
      PROVE  LifeInv'
  BY <1>2 DEF HostEnds
<1>3. ASSUME NEW t \in Threads, PauseLook(t) PROVE LifeInv'
  BY <1>3 DEF PauseLook
<1>4. CASE Suspend
  BY <1>4, GuestThreadAssumption DEF Suspend
<1>5. ASSUME NEW t \in Threads, Resume(t) PROVE LifeInv'
  <2>1. TypeOK'
    <3>1. toDo' \in [Threads -> {"remove", "run", "suspend", "wait"}]
      BY <1>5 DEF Resume, Awake
    <3>2. pc' \in [Threads -> Labels]
      <4>1. pc' = pc \/ pc' = [pc EXCEPT ![t] = Awake(pc[t])]
        BY <1>5 DEF Resume
      <4>2. Awake(pc[t]) \in Labels
        BY ONLY LifeInv, t \in Threads DEF LifeInv, TypeOK, Labels, Awake
      <4> QED
        BY ONLY LifeInv, t \in Threads, <4>1, <4>2 DEF LifeInv, TypeOK
    <3> QED
      BY <1>5, <3>1, <3>2 DEF Resume, Awake
  <2>2. LevelRight'
    BY <1>5 DEF Resume, Awake
  <2>3. EndingRight'
    BY <1>5 DEF Resume, Awake
  <2>4. RegisteredRight'
    BY <1>5 DEF Resume, Awake
  <2>5. EndedRight'
    BY <1>5 DEF Resume, Awake
  <2> QED
    BY <2>1, <2>2, <2>3, <2>4, <2>5
<1>6. ASSUME NEW t \in Threads, Close(t) PROVE LifeInv'
  BY <1>6 DEF Close, Awake
<1>7. CASE PauseBegins \/ ResumeBegins \/ CloseBegins
  BY <1>1, <1>7 DEF PauseBegins, ResumeBegins, CloseBegins
<1>8. CASE HostGoesOn
  BY <1>2, <1>3, <1>4, <1>5, <1>6, <1>8 DEF HostGoesOn
<1> QED
  BY <1>7, <1>8

-----------------------------------------------------------------------------
(* Guests whose threads are started and deleted by one of them only.  Two   *)
(* that do so may meet: sceKernelStartThread looks at a thread, another one *)
(* deletes it, and the start goes on and marks it as running.               *)
OneManager == \A t, u \in Starters \cup Deleters : t = u

(* A thread found not to run is not running when it is started: its guest   *)
(* code has returned, or has not begun.                                     *)
NotStarted(u) ==
  /\ pc[u] \in {"loop", "asleep", "back", "endcb", "endcbLoop", "endcbAsleep", "ended",
                "raising", "over", "gone"}
  /\ IF pc[u] \in {"endcb", "endcbLoop", "endcbAsleep"} THEN saved[u].level = 0 ELSE callLevel[u] = 0
StartsRight ==
  \A t \in Threads : pc[t] = "starting" => t \in Starters /\ NotStarted(target[t])

(* Until the application is closed a thread goes only if a guest asked for  *)
(* it, and nobody starts it then.                                           *)
Open == host \notin {"closing", "closed"}
DeletedRight ==
  /\ \A t \in Threads : pc[t] = "deleting" => t \in Deleters /\ target[t] \in deleted
  /\ Open => \A t \in Threads :
       /\ toDo[t] = "remove" \/ saved[t].toDo = "remove" \/ pc[t] \in {"over", "gone"}
            => t \in deleted
       /\ pc[t] = "starting" => target[t] \notin deleted
       /\ pc[t] \in {"over", "gone"} => status[t] = "dormant"

ManagedInv == JoinersAsleep /\ StartsRight /\ DeletedRight

(* The same, for what one manager of threads preserves.                     *)
LEMMA ManagedInit == Init => ManagedInv
BY GuestThreadAssumption
   DEF Init, NothingSaved, ManagedInv, JoinersAsleep, StartsRight, DeletedRight

(* The run loop keeps the bookkeeping of joiners.                           *)
LEMMA RunLoopKeepsManaged ==
  ASSUME OneManager, LifeInv, ManagedInv, NEW t \in Threads, RunLoop(t)
  PROVE  ManagedInv'
<1> USE DEF LifeInv, TypeOK, LevelRight, EndingRight, RegisteredRight, EndedRight, InGuestCode,
       Labels, Statuses, guests, state, loop, hosts, Goto,
       JoinersAsleep, StartsRight, NotStarted, DeletedRight, Open
<1>0. JoinersAsleep /\ StartsRight /\ DeletedRight
  BY DEF ManagedInv
<1>1. CASE RunGuest(t)
  <2>1. JoinersAsleep'
    BY <1>0, <1>1 DEF RunGuest
  <2>2. StartsRight'
    BY <1>0, <1>1 DEF RunGuest
  <2>3. DeletedRight'
    BY <1>0, <1>1 DEF RunGuest
  <2> QED
    BY <2>1, <2>2, <2>3 DEF ManagedInv
<1>2. CASE Sleep(t)
  <2>1. JoinersAsleep'
    BY <1>0, <1>2 DEF Sleep
  <2>2. StartsRight'
    BY <1>0, <1>2 DEF Sleep
  <2>3. DeletedRight'
    BY <1>0, <1>2 DEF Sleep
  <2> QED
    BY <2>1, <2>2, <2>3 DEF ManagedInv
<1>3. CASE BackInLoop(t)
  <2>1. JoinersAsleep'
    BY <1>0, <1>3 DEF BackInLoop
  <2>2. StartsRight'
    BY <1>0, <1>3 DEF BackInLoop
  <2>3. DeletedRight'
    BY <1>0, <1>3 DEF BackInLoop
  <2> QED
    BY <2>1, <2>2, <2>3 DEF ManagedInv
<1>4. CASE EndCallback(t)
  <2>1. JoinersAsleep'
    BY <1>0, <1>4 DEF EndCallback, Ending
  <2>2. StartsRight'
    BY <1>0, <1>4 DEF EndCallback, Ending
  <2>3. DeletedRight'
    BY <1>0, <1>4 DEF EndCallback, Ending
  <2> QED
    BY <2>1, <2>2, <2>3 DEF ManagedInv
<1>5. CASE EndCallbackRuns(t)
  <2>1. JoinersAsleep'
    BY <1>0, <1>5 DEF EndCallbackRuns
  <2>2. StartsRight'
    BY <1>0, <1>5 DEF EndCallbackRuns
  <2>3. DeletedRight'
    BY <1>0, <1>5 DEF EndCallbackRuns
  <2> QED
    BY <2>1, <2>2, <2>3 DEF ManagedInv
<1>6. CASE EndCallbackSleeps(t)
  <2>1. JoinersAsleep'
    BY <1>0, <1>6 DEF EndCallbackSleeps
  <2>2. StartsRight'
    BY <1>0, <1>6 DEF EndCallbackSleeps
  <2>3. DeletedRight'
    BY <1>0, <1>6 DEF EndCallbackSleeps
  <2> QED
    BY <2>1, <2>2, <2>3 DEF ManagedInv
<1>13. CASE EndCallbackStopped(t)
  <2>1. JoinersAsleep'
    BY <1>0, <1>13 DEF EndCallbackStopped
  <2>2. StartsRight'
    BY <1>0, <1>13 DEF EndCallbackStopped
  <2>3. DeletedRight'
    BY <1>0, <1>13 DEF EndCallbackStopped
  <2> QED
    BY <2>1, <2>2, <2>3 DEF ManagedInv
<1>7. CASE EndCallbackDone(t)
  <2>1. JoinersAsleep'
    BY <1>0, <1>7 DEF EndCallbackDone
  <2>2. StartsRight'
    BY <1>0, <1>7 DEF EndCallbackDone
  <2>3. DeletedRight'
    BY <1>0, <1>7 DEF EndCallbackDone
  <2> QED
    BY <2>1, <2>2, <2>3 DEF ManagedInv
<1>8. CASE NoEndCallback(t)
  <2>1. JoinersAsleep'
    BY <1>0, <1>8 DEF NoEndCallback, Ending
  <2>2. StartsRight'
    BY <1>0, <1>8 DEF NoEndCallback, Ending
  <2>3. DeletedRight'
    BY <1>0, <1>8 DEF NoEndCallback, Ending
  <2> QED
    BY <2>1, <2>2, <2>3 DEF ManagedInv
<1>9. CASE Dormant(t)
  <2>1. JoinersAsleep'
    BY <1>0, <1>9 DEF Dormant
  <2>2. StartsRight'
    BY <1>0, <1>9 DEF Dormant
  <2>3. DeletedRight'
    BY <1>0, <1>9 DEF Dormant
  <2> QED
    BY <2>1, <2>2, <2>3 DEF ManagedInv
<1>10. ASSUME NEW u \in Threads, Raise(t, u) PROVE ManagedInv'
  <2>1. JoinersAsleep'
    BY <1>0, <1>10 DEF Raise
  <2>2. StartsRight'
    BY <1>0, <1>10 DEF Raise
  <2>3. DeletedRight'
    BY <1>0, <1>10 DEF Raise
  <2> QED
    BY <2>1, <2>2, <2>3 DEF ManagedInv
<1>11. CASE RaiseDone(t)
  <2>1. JoinersAsleep'
    BY <1>0, <1>11 DEF RaiseDone, NothingSaved
  <2>2. StartsRight'
    BY <1>0, <1>11 DEF RaiseDone, NothingSaved
  <2>3. DeletedRight'
    BY <1>0, <1>11 DEF RaiseDone, NothingSaved
  <2> QED
    BY <2>1, <2>2, <2>3 DEF ManagedInv
<1>12. CASE EraseThread(t)
  <2>1. JoinersAsleep'
    BY <1>0, <1>12 DEF EraseThread
  <2>2. StartsRight'
    BY <1>0, <1>12 DEF EraseThread
  <2>3. DeletedRight'
    BY <1>0, <1>12 DEF EraseThread
  <2> QED
    BY <2>1, <2>2, <2>3 DEF ManagedInv
<1> QED
  BY <1>1, <1>2, <1>3, <1>4, <1>5, <1>6, <1>7, <1>8, <1>9, <1>10, <1>11, <1>12, <1>13 DEF RunLoop

(* So do the calls a thread makes.                                          *)
LEMMA CallsKeepManaged ==
  ASSUME OneManager, LifeInv, ManagedInv, NEW t \in Threads, Calls(t)
  PROVE  ManagedInv'
<1> USE DEF LifeInv, TypeOK, LevelRight, EndingRight, RegisteredRight, EndedRight, InGuestCode,
       Labels, Statuses, guests, state, loop, hosts, Goto,
       JoinersAsleep, StartsRight, NotStarted, DeletedRight, Open
<1>0. JoinersAsleep /\ StartsRight /\ DeletedRight
  BY DEF ManagedInv
<1>1. CASE GuestReturn(t)
  <2>1. JoinersAsleep'
    BY <1>0, <1>1 DEF GuestReturn
  <2>2. StartsRight'
    BY <1>0, <1>1 DEF GuestReturn
  <2>3. DeletedRight'
    BY <1>0, <1>1 DEF GuestReturn
  <2> QED
    BY <2>1, <2>2, <2>3 DEF ManagedInv
<1>2. CASE Exit(t)
  <2>1. JoinersAsleep'
    BY <1>0, <1>2 DEF Exit
  <2>2. StartsRight'
    BY <1>0, <1>2 DEF Exit
  <2>3. DeletedRight'
    BY <1>0, <1>2 DEF Exit
  <2> QED
    BY <2>1, <2>2, <2>3 DEF ManagedInv
<1>3. CASE ExitDelete(t)
  <2>1. JoinersAsleep'
    BY <1>0, <1>3 DEF ExitDelete
  <2>2. StartsRight'
    BY <1>0, <1>3 DEF ExitDelete
  <2>3. DeletedRight'
    <3>1. \A x \in Threads : pc[x] = "starting" => target[x] # t
      BY <1>0, <1>3 DEF ExitDelete
    <3> QED
      BY <1>0, <1>3, <3>1 DEF ExitDelete
  <2> QED
    BY <2>1, <2>2, <2>3 DEF ManagedInv
<1>4. ASSUME NEW u \in Threads, CreateThread(t, u) PROVE ManagedInv'
  <2>1. JoinersAsleep'
    BY <1>0, <1>4 DEF CreateThread
  <2>2. StartsRight'
    BY <1>0, <1>4 DEF CreateThread
  <2>3. DeletedRight'
    BY <1>0, <1>4 DEF CreateThread
  <2> QED
    BY <2>1, <2>2, <2>3 DEF ManagedInv
<1>5. ASSUME NEW u \in Threads, StartCheck(t, u) PROVE ManagedInv'
  <2>1. JoinersAsleep'
    BY <1>0, <1>5 DEF StartCheck, Usable, OneManager
  <2>2. StartsRight'
    BY <1>0, <1>5 DEF StartCheck, Usable, OneManager
  <2>3. DeletedRight'
    BY <1>0, <1>5 DEF StartCheck, Usable, OneManager
  <2> QED
    BY <2>1, <2>2, <2>3 DEF ManagedInv
<1>6. ASSUME NEW u \in Threads, DeleteCheck(t, u) PROVE ManagedInv'
  <2>1. JoinersAsleep'
    BY <1>0, <1>6 DEF DeleteCheck, Usable, OneManager
  <2>2. StartsRight'
    BY <1>0, <1>6 DEF DeleteCheck, Usable, OneManager
  <2>3. DeletedRight'
    BY <1>0, <1>6 DEF DeleteCheck, Usable, OneManager
  <2> QED
    BY <2>1, <2>2, <2>3 DEF ManagedInv
<1>7. ASSUME NEW u \in Threads, Join(t, u) PROVE ManagedInv'
  <2>1. JoinersAsleep'
    BY <1>0, <1>7 DEF Join
  <2>2. StartsRight'
    BY <1>0, <1>7 DEF Join
  <2>3. DeletedRight'
    BY <1>0, <1>7 DEF Join
  <2> QED
    BY <2>1, <2>2, <2>3 DEF ManagedInv
<1>8. CASE GuestStops(t)
  <2>1. JoinersAsleep'
    BY <1>0, <1>8 DEF GuestStops
  <2>2. StartsRight'
    BY <1>0, <1>8 DEF GuestStops
  <2>3. DeletedRight'
    BY <1>0, <1>8 DEF GuestStops
  <2> QED
    BY <2>1, <2>2, <2>3 DEF ManagedInv
<1> QED
  BY <1>1, <1>2, <1>3, <1>4, <1>5, <1>6, <1>7, <1>8 DEF Calls

(* A joiner enters itself where it then sleeps.                             *)
LEMMA JoinTargetKeepsJoiners ==
  ASSUME TypeOK, JoinersAsleep, NEW t \in Threads, JoinTarget(t)
  PROVE  JoinersAsleep'
<1> DEFINE u == target[t]
<1>1. /\ pc[t] = "joinTarget" /\ target' = target
      /\ u \in Threads /\ \A x \in Threads : target[x] \in Threads
  BY DEF TypeOK, JoinTarget
<1>2. \A v \in Threads : t \notin waiters[v]
  BY <1>1 DEF JoinersAsleep
<1>3. CASE status[u] = "dormant"
  <2>1. /\ waiters' = waiters /\ status' = status
        /\ \A x \in Threads : x # t => pc'[x] = pc[x]
    BY <1>3 DEF JoinTarget, TypeOK, Goto
  <2>2. status[t] # "wait"
    BY <1>1, <1>2 DEF JoinersAsleep
  <2> QED
    BY <1>1, <1>2, <2>1, <2>2 DEF JoinersAsleep
<1>4. CASE status[u] # "dormant"
  <2>1. \A v \in Threads : waiters'[v] = IF v = u THEN waiters[v] \cup {t} ELSE waiters[v]
    BY <1>1, <1>4 DEF JoinTarget, TypeOK
  <2>2. \A x \in Threads : /\ status'[x] = IF x = t THEN "wait" ELSE status[x]
                           /\ pc'[x] = IF x = t THEN "joining" ELSE pc[x]
    BY <1>4 DEF JoinTarget, TypeOK, Goto
  <2>3. ASSUME NEW x \in Threads, NEW v \in Threads, x \in waiters'[v]
        PROVE  status'[x] = "wait" /\ pc'[x] = "joining" /\ target[x] = v
    <3>1. CASE x = t
      BY <1>2, <2>1, <2>2, <2>3, <3>1
    <3>2. CASE x # t
      <4>1. x \in waiters[v]
        BY <2>1, <2>3, <3>2
      <4>2. status[x] = "wait" /\ pc[x] = "joining" /\ target[x] = v
        BY <4>1 DEF JoinersAsleep
      <4> QED
        BY <2>2, <3>2, <4>2
    <3> QED
      BY <3>1, <3>2
  <2>4. ASSUME NEW x \in Threads, status'[x] = "wait"
        PROVE  x \in waiters'[target[x]]
    <3>1. CASE x = t
      BY <1>1, <2>1, <3>1
    <3>2. CASE x # t
      BY <1>1, <2>1, <2>2, <2>4, <3>2 DEF JoinersAsleep
    <3> QED
      BY <3>1, <3>2
  <2> QED
    BY <1>1, <2>3, <2>4 DEF JoinersAsleep
<1> QED
  BY <1>3, <1>4

(* So do the answers.                                                       *)
LEMMA AnswersKeepManaged ==
  ASSUME OneManager, LifeInv, ManagedInv, NEW t \in Threads, Answers(t)
  PROVE  ManagedInv'
<1> USE DEF LifeInv, TypeOK, LevelRight, EndingRight, RegisteredRight, EndedRight, InGuestCode,
       Labels, Statuses, guests, state, loop, hosts, Goto,
       JoinersAsleep, StartsRight, NotStarted, DeletedRight, Open
<1>0. JoinersAsleep /\ StartsRight /\ DeletedRight
  BY DEF ManagedInv
<1>1. CASE Start(t)
  <2>1. JoinersAsleep'
    BY <1>0, <1>1 DEF Start, Awake, OneManager
  <2>2. StartsRight'
    BY <1>0, <1>1 DEF Start, Awake, OneManager
  <2>3. DeletedRight'
    BY <1>0, <1>1 DEF Start, Awake, OneManager
  <2> QED
    BY <2>1, <2>2, <2>3 DEF ManagedInv
<1>2. CASE Delete(t)
  <2>1. JoinersAsleep'
    BY <1>0, <1>2 DEF Delete, Awake
  <2>2. StartsRight'
    <3>1. \A v \in Threads : NotStarted(v) => NotStarted(v)'
      BY <1>2 DEF Delete, Awake
    <3>2. \A x \in Threads : pc'[x] = "starting" => pc[x] = "starting" /\ target'[x] = target[x]
      BY <1>2 DEF Delete, Awake
    <3>3. \A x \in Threads : target[x] \in Threads
      OBVIOUS
    <3> HIDE DEF NotStarted
    <3> QED
      BY <1>0, <3>1, <3>2, <3>3
  <2>3. DeletedRight'
    BY <1>0, <1>2 DEF Delete, Awake
  <2> QED
    BY <2>1, <2>2, <2>3 DEF ManagedInv
<1>3. CASE JoinTarget(t)
  <2>1. JoinersAsleep'
    BY <1>0, <1>3, JoinTargetKeepsJoiners
  <2>2. StartsRight'
    <3>1. /\ UNCHANGED <<callLevel, saved, target>>
          /\ \A v \in Threads : pc'[v] = IF v = t THEN pc'[t] ELSE pc[v]
          /\ pc[t] = "joinTarget" /\ pc'[t] \in {"back", "joining"}
      BY <1>3 DEF JoinTarget
    <3>2. \A v \in Threads : NotStarted(v) => v # t
      BY <3>1
    <3>3. \A v \in Threads : NotStarted(v) => NotStarted(v)'
      BY <3>1, <3>2
    <3>4. \A x \in Threads : pc'[x] = "starting" => pc[x] = "starting" /\ target'[x] = target[x]
      BY <3>1
    <3>5. \A x \in Threads : target[x] \in Threads
      OBVIOUS
    <3> HIDE DEF NotStarted
    <3> QED
      BY <1>0, <3>3, <3>4, <3>5
  <2>3. DeletedRight'
    BY <1>0, <1>3 DEF JoinTarget
  <2> QED
    BY <2>1, <2>2, <2>3 DEF ManagedInv
<1>4. CASE Joined(t)
  <2>1. JoinersAsleep'
    BY <1>0, <1>4 DEF Joined
  <2>2. StartsRight'
    BY <1>0, <1>4 DEF Joined
  <2>3. DeletedRight'
    BY <1>0, <1>4 DEF Joined
  <2> QED
    BY <2>1, <2>2, <2>3 DEF ManagedInv
<1> QED
  BY <1>1, <1>2, <1>3, <1>4 DEF Answers

(* So do the requests from outside.                                         *)
LEMMA HostKeepsManaged ==
  ASSUME OneManager, LifeInv, ManagedInv, PauseBegins \/ ResumeBegins \/ CloseBegins \/ HostGoesOn
  PROVE  ManagedInv'
<1> USE DEF LifeInv, TypeOK, LevelRight, EndingRight, RegisteredRight, EndedRight, InGuestCode,
       Labels, Statuses, guests, state, loop, hosts, Goto,
       JoinersAsleep, StartsRight, NotStarted, DeletedRight, Open
<1>0. JoinersAsleep /\ StartsRight /\ DeletedRight
  BY DEF ManagedInv
<1>1. ASSUME NEW from, NEW to \in {"pausing", "resuming", "closing"}, HostBegins(from, to),
             from \notin {"closing", "closed"}
      PROVE  ManagedInv'
  <2>1. JoinersAsleep'
    BY <1>0, <1>1 DEF HostBegins
  <2>2. StartsRight'
    BY <1>0, <1>1 DEF HostBegins
  <2>3. DeletedRight'
    BY <1>0, <1>1 DEF HostBegins
  <2> QED
    BY <2>1, <2>2, <2>3 DEF ManagedInv
<1>2. ASSUME NEW from, NEW to \in {"paused", "idle", "closed"}, HostEnds(from, to),
             from \in {"pausing", "resuming"} \/ to = "closed"
      PROVE  ManagedInv'
  <2>1. JoinersAsleep'
    BY <1>0, <1>2 DEF HostEnds
  <2>2. StartsRight'
    BY <1>0, <1>2 DEF HostEnds
  <2>3. DeletedRight'
    BY <1>0, <1>2 DEF HostEnds
  <2> QED
    BY <2>1, <2>2, <2>3 DEF ManagedInv
<1>3. ASSUME NEW t \in Threads, PauseLook(t) PROVE ManagedInv'
  <2>1. JoinersAsleep'
    BY <1>0, <1>3 DEF PauseLook
  <2>2. StartsRight'
    BY <1>0, <1>3 DEF PauseLook
  <2>3. DeletedRight'
    BY <1>0, <1>3 DEF PauseLook
  <2> QED
    BY <2>1, <2>2, <2>3 DEF ManagedInv
<1>4. CASE Suspend
  <2>1. JoinersAsleep'
    BY <1>0, <1>4, GuestThreadAssumption DEF Suspend
  <2>2. StartsRight'
    BY <1>0, <1>4, GuestThreadAssumption DEF Suspend
  <2>3. DeletedRight'
    BY <1>0, <1>4, GuestThreadAssumption DEF Suspend
  <2> QED
    BY <2>1, <2>2, <2>3 DEF ManagedInv
<1>5. ASSUME NEW t \in Threads, Resume(t) PROVE ManagedInv'
  <2>1. JoinersAsleep'
    BY <1>0, <1>5 DEF Resume, Awake
  <2>2. StartsRight'
    <3>1. \A v \in Threads : NotStarted(v) => NotStarted(v)'
      BY <1>5 DEF Resume, Awake
    <3>2. \A x \in Threads : pc'[x] = "starting" => pc[x] = "starting" /\ target'[x] = target[x]
      BY <1>5 DEF Resume, Awake
    <3>3. \A x \in Threads : target[x] \in Threads
      OBVIOUS
    <3> HIDE DEF NotStarted
    <3> QED
      BY <1>0, <3>1, <3>2, <3>3
  <2>3. DeletedRight'
    BY <1>0, <1>5 DEF Resume, Awake
  <2> QED
    BY <2>1, <2>2, <2>3 DEF ManagedInv
<1>6. ASSUME NEW t \in Threads, Close(t) PROVE ManagedInv'
  <2>1. JoinersAsleep'
    BY <1>0, <1>6 DEF Close, Awake
  <2>2. StartsRight'
    BY <1>0, <1>6 DEF Close, Awake
  <2>3. DeletedRight'
    BY <1>0, <1>6 DEF Close, Awake
  <2> QED
    BY <2>1, <2>2, <2>3 DEF ManagedInv
<1>7. CASE PauseBegins \/ ResumeBegins \/ CloseBegins
  BY <1>1, <1>7 DEF PauseBegins, ResumeBegins, CloseBegins
<1>8. CASE HostGoesOn
  BY <1>2, <1>3, <1>4, <1>5, <1>6, <1>8 DEF HostGoesOn
<1> QED
  BY <1>7, <1>8

-----------------------------------------------------------------------------
(* Every step keeps LifeInv.                                                *)
LEMMA StepKeepsLife == LifeInv /\ [Next]_vars => LifeInv'
<1> SUFFICES ASSUME LifeInv, [Next]_vars PROVE LifeInv'
  OBVIOUS
<1>1. CASE UNCHANGED vars
  BY <1>1 DEF vars, guests, state, loop, hosts, LifeInv, TypeOK, LevelRight, EndingRight,
              RegisteredRight, EndedRight
<1>2. CASE Next
  BY <1>2, RunLoopKeepsLife, CallsKeepLife, AnswersKeepLife, HostKeepsLife DEF Next
<1> QED
  BY <1>1, <1>2

(* Every step of one manager keeps ManagedInv.                              *)
LEMMA StepKeepsManaged ==
  ASSUME OneManager
  PROVE  LifeInv /\ ManagedInv /\ [Next]_vars => ManagedInv'
<1> SUFFICES ASSUME LifeInv, ManagedInv, [Next]_vars PROVE ManagedInv'
  OBVIOUS
<1>1. CASE UNCHANGED vars
  BY <1>1 DEF vars, guests, state, loop, hosts, ManagedInv, JoinersAsleep, StartsRight, NotStarted,
              DeletedRight, Open
<1>2. CASE Next
  BY <1>2, RunLoopKeepsManaged, CallsKeepManaged, AnswersKeepManaged, HostKeepsManaged DEF Next
<1> QED
  BY <1>1, <1>2

(* So LifeInv is an invariant.                                              *)
LEMMA LifeAlways == Spec => []LifeInv
BY LifeInit, StepKeepsLife, PTL DEF Spec

(* Types: in particular a thread's call level is one or zero, and what the  *)
(* end callback puts back is to run or to be removed.                       *)
THEOREM GuestThreadTypeCorrect == Spec => []TypeOK
<1>1. LifeInv => TypeOK
  BY DEF LifeInv
<1> QED
  BY <1>1, LifeAlways, PTL

(* A thread that ended and raised those that waited for it has none left,   *)
(* whoever starts or deletes threads.                                       *)
THEOREM NobodyWaitsForDormant == Spec => []EndedRight
<1>1. LifeInv => EndedRight
  BY DEF LifeInv
<1> QED
  BY <1>1, LifeAlways, PTL

(* So is ManagedInv.                                                        *)
LEMMA ManagedAlways ==
  ASSUME OneManager
  PROVE  Spec => [](LifeInv /\ ManagedInv)
<1>1. Init => LifeInv /\ ManagedInv
  BY LifeInit, ManagedInit
<1>2. (LifeInv /\ ManagedInv) /\ [Next]_vars => (LifeInv /\ ManagedInv)'
  BY StepKeepsLife, StepKeepsManaged
<1> QED
  BY <1>1, <1>2, PTL DEF Spec

(* If one guest thread at most starts and deletes others, whoever is in a   *)
(* thread's waiting_threads sleeps there, and the reverse, as the assertion *)
(* of raise_waiting_threads says.                                           *)
THEOREM JoinersSleepWhereListed ==
  ASSUME OneManager
  PROVE  Spec => []JoinersAsleep
<1>1. LifeInv /\ ManagedInv => JoinersAsleep
  BY DEF ManagedInv
<1> QED
  BY <1>1, ManagedAlways, PTL

(* If one guest thread at most starts and deletes others, nobody is left    *)
(* waiting for a thread that ended, or is gone before the application is    *)
(* closed.                                                                  *)
THEOREM NobodyJoinsTheEnded ==
  ASSUME OneManager
  PROVE  Spec => []NoJoinerOfEnded
<1>1. LifeInv /\ ManagedInv => NoJoinerOfEnded
  BY DEF LifeInv, EndedRight, ManagedInv, DeletedRight, Open, NoJoinerOfEnded
<1> QED
  BY <1>1, ManagedAlways, PTL

-----------------------------------------------------------------------------
(* Division, rounding down.                                                 *)
LEMMA DivBounds ==
  ASSUME NEW a \in Nat, NEW b \in Nat \ {0}
  PROVE  a \div b \in Nat /\ (a \div b) * b <= a /\ a < (a \div b) * b + b
OBVIOUS

(* The quotient is the only number that has its bounds.                     *)
LEMMA DivUnique ==
  ASSUME NEW a \in Nat, NEW b \in Nat \ {0}, NEW k \in Nat, k * b <= a, a < k * b + b
  PROVE  a \div b = k
<1> DEFINE q == a \div b
<1>1. q \in Nat /\ q * b <= a /\ a < q * b + b
  BY DivBounds
<1>2. k * b < (q + 1) * b /\ q * b < (k + 1) * b
  BY <1>1
<1>3. k < q + 1 /\ q < k + 1
  BY <1>1, <1>2
<1> HIDE DEF q
<1>4. q = k
  BY <1>1, <1>3
<1> QED
  BY <1>4 DEF q

(* Dividing undoes multiplying.                                             *)
LEMMA DivExact ==
  ASSUME NEW b \in Nat \ {0}, NEW k \in Nat
  PROVE  k * b \in Nat /\ (k * b) \div b = k
<1>1. k * b \in Nat
  OBVIOUS
<1> QED
  BY <1>1, DivUnique

(* A multiple is its quotient times the divisor.                            *)
LEMMA ModZero ==
  ASSUME NEW a \in Nat, NEW b \in Nat \ {0}, a % b = 0
  PROVE  a \div b \in Nat /\ (a \div b) * b = a
OBVIOUS

(* A number below the modulus is its own remainder.                         *)
LEMMA ModSmall ==
  ASSUME NEW a \in Nat, NEW b \in Nat, a < b
  PROVE  a % b = a
OBVIOUS

(* Rounding up moves a number by less than the alignment.                   *)
LEMMA AlignedBounds ==
  ASSUME NEW x \in Nat, NEW a \in Nat \ {0}
  PROVE  /\ Aligned(x, a) \in Nat /\ x <= Aligned(x, a) /\ Aligned(x, a) <= x + a - 1
<1>1. x + a - 1 \in Nat
  OBVIOUS
<1> QED
  BY <1>1, DivBounds DEF Aligned

-----------------------------------------------------------------------------
(* The least element of a set of numbers.                                   *)
Below == {mn \in Nat \X Nat : mn[1] < mn[2]}

(* There is no endless way down.                                            *)
LEMMA BelowWellFounded == IsWellFoundedOn(Below, Nat)
BY NatLessThanWellFounded, Zenon DEF OpToRel, Below

(* A set of numbers has a least element.                                    *)
LEMMA Least ==
  ASSUME NEW T \in SUBSET Nat, T # {}
  PROVE  \E n \in T : \A m \in T : n <= m
<1>1. PICK n \in T : \A m \in T : ~ (<<m, n>> \in Below)
  BY BelowWellFounded, WFMin
<1>2. ASSUME NEW m \in T PROVE ~ (m < n)
  <2>1. <<m, n>> \notin Below
    BY <1>1
  <2> QED
    BY <2>1 DEF Below
<1> QED
  BY <1>2

(* The greatest, of numbers up to k.                                        *)
LEMMA Greatest ==
  ASSUME NEW k \in Nat, NEW T \in SUBSET (0 .. k), T # {}
  PROVE  \E n \in T : \A m \in T : m <= n
<1> DEFINE D == {k - m : m \in T}
<1>1. D \in SUBSET Nat /\ D # {}
  <2>1. \A m \in T : k - m \in Nat
    OBVIOUS
  <2>2. PICK m \in T : TRUE
    OBVIOUS
  <2>3. k - m \in D
    BY <2>2
  <2> QED
    BY <2>1, <2>3
<1>2. PICK d \in D : \A e \in D : d <= e
  BY <1>1, Least
<1>3. k - d \in T /\ \A m \in T : d <= k - m
  BY <1>2
<1>4. \A m \in T : m \in 0 .. k
  OBVIOUS
<1>5. d \in Int
  BY <1>1
<1> QED
  BY <1>3, <1>4, <1>5

-----------------------------------------------------------------------------
(* The bitmap.                                                              *)
LEMMA AllBits == Bitmap!TotalBits = MaxOffset
<1>1. MaxOffset \in Nat /\ WordBits \in Nat \ {0} /\ MaxOffset % WordBits = 0
  BY GuestMemoryAssumption
<1> QED
  BY <1>1, ModZero DEF Bitmap!TotalBits, Bitmap!WordCount

(* From bit i on there are r free bits up to the next taken one.            *)
RunOfBits(bits, i, r) ==
  /\ r \in Nat /\ i + r <= MaxOffset /\ i + r \notin bits
  /\ \A j \in i .. i + r - 1 : j \in bits

IsRuns(run, bits) ==
  run = [i \in 0 .. MaxOffset |-> IF i \in bits THEN 1 + run[i + 1] ELSE 0]

(* From every position there is a number of free bits up to the next taken  *)
(* one,                                                                     *)
LEMMA RunExists ==
  ASSUME NEW bits \in SUBSET AllPages, NEW i \in 0 .. MaxOffset
  PROVE  \E r \in Nat : RunOfBits(bits, i, r)
<1> DEFINE Ends == {r \in Nat : i + r <= MaxOffset /\ i + r \notin bits}
<1>1. MaxOffset \in Nat
  BY GuestMemoryAssumption
<1>2. MaxOffset - i \in Ends
  BY <1>1 DEF AllPages
<1>3. PICK r \in Ends : \A e \in Ends : r <= e
  BY <1>2, Least
<1>4. ASSUME NEW j \in i .. i + r - 1 PROVE j \in bits
  <2>1. j - i \in Nat /\ ~(r <= j - i) /\ i + (j - i) = j /\ j <= MaxOffset
    BY <1>1, <1>3
  <2> QED
    BY <1>3, <2>1
<1> QED
  BY <1>3, <1>4 DEF RunOfBits

(* there is only one such number,                                           *)
LEMMA RunUnique ==
  ASSUME NEW bits, NEW i \in 0 .. MaxOffset, NEW r, NEW e,
         RunOfBits(bits, i, r), RunOfBits(bits, i, e)
  PROVE  r = e
<1>1. MaxOffset \in Nat
  BY GuestMemoryAssumption
<1>2. ~(r < e) /\ ~(e < r)
  BY <1>1 DEF RunOfBits
<1> QED
  BY <1>2 DEF RunOfBits

RunFrom(bits, i) == CHOOSE r \in Nat : RunOfBits(bits, i, r)

(* and the function that gives it satisfies the recursion of Runs().        *)
LEMMA RunsExist ==
  ASSUME NEW bits \in SUBSET AllPages
  PROVE  IsRuns([i \in 0 .. MaxOffset |-> RunFrom(bits, i)], bits)
<1>1. MaxOffset \in Nat /\ \A i \in bits : i \in 0 .. MaxOffset - 1
  BY GuestMemoryAssumption DEF AllPages
<1>2. \A i \in 0 .. MaxOffset : RunOfBits(bits, i, RunFrom(bits, i))
  BY RunExists DEF RunFrom
<1>3. ASSUME NEW i \in 0 .. MaxOffset, i \in bits
      PROVE  RunFrom(bits, i) = 1 + RunFrom(bits, i + 1)
  <2> DEFINE n == RunFrom(bits, i + 1)
  <2>1. i + 1 \in 0 .. MaxOffset /\ RunOfBits(bits, i + 1, n)
    BY <1>1, <1>2, <1>3
  <2> HIDE DEF n
  <2>2. RunOfBits(bits, i, 1 + n)
    BY <1>1, <1>3, <2>1 DEF RunOfBits
  <2>3. RunOfBits(bits, i, RunFrom(bits, i))
    BY <1>2
  <2>4. RunFrom(bits, i) = 1 + n
    BY <2>2, <2>3, RunUnique
  <2> QED
    BY <2>4 DEF n
<1>4. ASSUME NEW i \in 0 .. MaxOffset, i \notin bits
      PROVE  RunFrom(bits, i) = 0
  <2>1. RunOfBits(bits, i, 0)
    BY <1>1, <1>4 DEF RunOfBits
  <2>2. RunOfBits(bits, i, RunFrom(bits, i))
    BY <1>2
  <2> QED
    BY <2>1, <2>2, RunUnique
<1>5. \A i \in 0 .. MaxOffset : i \in bits => i + 1 \in 0 .. MaxOffset
  BY <1>1
<1> QED
  BY <1>3, <1>4, <1>5 DEF IsRuns

(* Runs(): from each position the free bits up to the next taken one.       *)
LEMMA RunsRight ==
  ASSUME NEW bits \in SUBSET AllPages, NEW i \in 0 .. MaxOffset
  PROVE  RunOfBits(bits, i, Bitmap!Runs(bits)[i])
<1> DEFINE run == Bitmap!Runs(bits)
           Bad == {n \in 0 .. MaxOffset : ~RunOfBits(bits, n, run[n])}
<1>1. MaxOffset \in Nat /\ \A n \in bits : n \in 0 .. MaxOffset - 1
  BY GuestMemoryAssumption DEF AllPages
<1>2. IsRuns(run, bits)
  <2>1. run = CHOOSE r : IsRuns(r, bits)
    BY AllBits DEF Bitmap!Runs, IsRuns
  <2> QED
    BY <2>1, RunsExist
<1>3. \A n \in 0 .. MaxOffset : run[n] = IF n \in bits THEN 1 + run[n + 1] ELSE 0
  BY <1>2 DEF IsRuns
<1> HIDE DEF run
<1>4. Bad = {}
  <2> SUFFICES ASSUME Bad # {} PROVE FALSE
    OBVIOUS
  <2>1. PICK n \in Bad : \A m \in Bad : m <= n
    BY <1>1, Greatest
  <2>2. n \in 0 .. MaxOffset /\ ~RunOfBits(bits, n, run[n])
    BY <2>1
  <2>3. CASE n \in bits
    <3>1. n + 1 \in 0 .. MaxOffset /\ n + 1 \notin Bad
      BY <1>1, <2>1, <2>3
    <3>2. RunOfBits(bits, n + 1, run[n + 1])
      BY <3>1
    <3>3. RunOfBits(bits, n, 1 + run[n + 1])
      BY <1>1, <2>2, <2>3, <3>2 DEF RunOfBits
    <3> QED
      BY <1>3, <2>2, <2>3, <3>3
  <2>4. CASE n \notin bits
    <3>1. RunOfBits(bits, n, 0)
      BY <1>1, <2>2, <2>4 DEF RunOfBits
    <3> QED
      BY <1>3, <2>2, <2>4, <3>1
  <2> QED
    BY <2>3, <2>4
<1> QED
  BY <1>4 DEF run

-----------------------------------------------------------------------------
(* count pages in a row are free from first on.                             *)
Room(bits, first, count) ==
  first + count <= MaxOffset /\ \A p \in first .. first + count - 1 : p \in bits

(* f is the lowest place from i on with room for count pages, or None.      *)
LowestRoom(bits, count, i, f) ==
  \/ /\ f \in i .. MaxOffset - 1 /\ Room(bits, f, count)
     /\ \A p \in i .. f - 1 : ~Room(bits, p, count)
  \/ f = Bitmap!None /\ \A p \in i .. MaxOffset : ~Room(bits, p, count)

(* There is at most one lowest place,                                       *)
LEMMA LowestRoomUnique ==
  ASSUME NEW bits, NEW count \in Nat, NEW i \in Nat, NEW f, NEW g,
         LowestRoom(bits, count, i, f), LowestRoom(bits, count, i, g)
  PROVE  f = g
<1>1. MaxOffset \in Nat
  BY GuestMemoryAssumption
<1>2. ASSUME f \in i .. MaxOffset - 1, g \in i .. MaxOffset - 1 PROVE f = g
  <2>1. /\ Room(bits, f, count) /\ Room(bits, g, count)
        /\ \A p \in i .. f - 1 : ~Room(bits, p, count)
        /\ \A p \in i .. g - 1 : ~Room(bits, p, count)
    BY <1>1, <1>2 DEF LowestRoom, Bitmap!None
  <2>2. ~(f < g) /\ ~(g < f)
    BY <1>1, <1>2, <2>1
  <2> QED
    BY <1>1, <1>2, <2>2
<1>3. f \in i .. MaxOffset - 1 /\ g = Bitmap!None => FALSE
  BY <1>1 DEF LowestRoom, Bitmap!None
<1>4. g \in i .. MaxOffset - 1 /\ f = Bitmap!None => FALSE
  BY <1>1 DEF LowestRoom, Bitmap!None
<1> QED
  BY <1>2, <1>3, <1>4 DEF LowestRoom

(* and there is one, or None.                                               *)
LEMMA LowestRoomExists ==
  ASSUME NEW bits, NEW count \in Nat \ {0}, NEW i \in Nat
  PROVE  \E f : LowestRoom(bits, count, i, f)
<1> DEFINE Places == {p \in i .. MaxOffset : Room(bits, p, count)}
<1>1. MaxOffset \in Nat
  BY GuestMemoryAssumption
<1>2. CASE Places = {}
  BY <1>2 DEF LowestRoom
<1>3. CASE Places # {}
  <2>0. Places \in SUBSET Nat
    BY <1>1
  <2>1. PICK f \in Places : \A p \in Places : f <= p
    BY <1>3, <2>0, Least
  <2>2. f \in i .. MaxOffset - 1
    BY <1>1 DEF Room
  <2>3. \A p \in i .. f - 1 : ~Room(bits, p, count)
    BY <1>1, <2>1
  <2> QED
    BY <2>1, <2>2, <2>3 DEF LowestRoom
<1> QED
  BY <1>2, <1>3

(* What the search does at a position: it stops there, or nothing fits up   *)
(* to the end of the run and it goes on behind that.                        *)
LEMMA RoomAtRun ==
  ASSUME NEW bits \in SUBSET AllPages, NEW count \in Nat \ {0}, NEW i \in 0 .. MaxOffset - 1,
         NEW r, RunOfBits(bits, i, r)
  PROVE  IF i \in bits /\ r >= count /\ i + count <= MaxOffset
         THEN Room(bits, i, count)
         ELSE /\ i + r + 1 \in i + 1 .. MaxOffset + 1
              /\ \A p \in i .. i + r : ~Room(bits, p, count)
<1>1. MaxOffset \in Nat
  BY GuestMemoryAssumption
<1>2. CASE i \in bits /\ r >= count /\ i + count <= MaxOffset
  BY <1>1, <1>2 DEF RunOfBits, Room
<1>3. CASE ~(i \in bits /\ r >= count /\ i + count <= MaxOffset)
  <2>1. ASSUME NEW p \in i .. i + r, Room(bits, p, count) PROVE FALSE
    <3>1. p + count <= MaxOffset /\ p \in bits
      BY <1>1, <2>1 DEF Room, RunOfBits
    <3>2. ~(i + r <= p + count - 1)
      BY <1>1, <2>1 DEF Room, RunOfBits
    <3>3. r >= count /\ i + count <= MaxOffset /\ r > 0
      BY <1>1, <3>1, <3>2 DEF RunOfBits
    <3>4. i \in bits
      BY <1>1, <3>3 DEF RunOfBits
    <3> QED
      BY <1>3, <3>3, <3>4
  <2> QED
    BY <1>1, <1>3, <2>1 DEF RunOfBits
<1> QED
  BY <1>2, <1>3

(* So what is right behind the run, or the run itself, is right at the      *)
(* position.                                                                *)
LEMMA LowestRoomStep ==
  ASSUME NEW bits \in SUBSET AllPages, NEW count \in Nat \ {0}, NEW i \in 0 .. MaxOffset - 1,
         NEW r, RunOfBits(bits, i, r), NEW f,
         IF i \in bits /\ r >= count /\ i + count <= MaxOffset
         THEN f = i ELSE LowestRoom(bits, count, i + r + 1, f)
  PROVE  LowestRoom(bits, count, i, f)
<1>1. MaxOffset \in Nat
  BY GuestMemoryAssumption
<1>2. CASE i \in bits /\ r >= count /\ i + count <= MaxOffset
  <2>1. Room(bits, i, count) /\ f = i
    BY <1>2, RoomAtRun
  <2> QED
    BY <1>1, <2>1 DEF LowestRoom
<1>3. CASE ~(i \in bits /\ r >= count /\ i + count <= MaxOffset)
  <2>1. /\ i + r + 1 \in i + 1 .. MaxOffset + 1 /\ r \in Nat
        /\ \A p \in i .. i + r : ~Room(bits, p, count)
    BY <1>3, RoomAtRun DEF RunOfBits
  <2>2. LowestRoom(bits, count, i + r + 1, f)
    BY <1>3
  <2>3. \A p \in Int : p \in i .. i + r \/ p < i \/ p >= i + r + 1
    BY <2>1
  <2> QED
    BY <1>1, <2>1, <2>2, <2>3 DEF LowestRoom
<1> QED
  BY <1>2, <1>3

(* At the end nothing fits.                                                 *)
LEMMA LowestRoomEnd ==
  ASSUME NEW bits, NEW count \in Nat \ {0}, NEW i \in {MaxOffset, MaxOffset + 1}
  PROVE  LowestRoom(bits, count, i, Bitmap!None)
<1>1. MaxOffset \in Nat
  BY GuestMemoryAssumption
<1> QED
  BY <1>1 DEF LowestRoom, Room

IsFinds(from, bits, count) ==
  from = [i \in 0 .. MaxOffset + 1 |->
            IF i >= MaxOffset THEN Bitmap!None
            ELSE IF i \in bits /\ Bitmap!Runs(bits)[i] >= count /\ i + count <= MaxOffset THEN i
            ELSE from[i + Bitmap!Runs(bits)[i] + 1]]

LowestFrom(bits, count, i) == CHOOSE f : LowestRoom(bits, count, i, f)

(* The function that gives the lowest place satisfies the recursion of      *)
(* Finds().                                                                 *)
LEMMA FindsExist ==
  ASSUME NEW bits \in SUBSET AllPages, NEW count \in Nat \ {0}
  PROVE  IsFinds([i \in 0 .. MaxOffset + 1 |-> LowestFrom(bits, count, i)], bits, count)
<1> DEFINE run == Bitmap!Runs(bits)
           Stops(i) == i \in bits /\ run[i] >= count /\ i + count <= MaxOffset
<1>1. MaxOffset \in Nat
  BY GuestMemoryAssumption
<1>2. \A i \in 0 .. MaxOffset : RunOfBits(bits, i, run[i])
  BY RunsRight
<1> HIDE DEF run
<1>3. \A i \in 0 .. MaxOffset + 1 : LowestRoom(bits, count, i, LowestFrom(bits, count, i))
  <2>1. ASSUME NEW i \in 0 .. MaxOffset + 1
        PROVE  LowestRoom(bits, count, i, LowestFrom(bits, count, i))
    BY <1>1, LowestRoomExists DEF LowestFrom
  <2> QED
    BY <2>1
<1>4. ASSUME NEW i \in 0 .. MaxOffset + 1, i >= MaxOffset
      PROVE  LowestFrom(bits, count, i) = Bitmap!None
  <2>1. i \in {MaxOffset, MaxOffset + 1} /\ i \in Nat
    BY <1>1, <1>4
  <2>2. LowestRoom(bits, count, i, Bitmap!None)
    BY <2>1, LowestRoomEnd
  <2>3. LowestRoom(bits, count, i, LowestFrom(bits, count, i))
    BY <1>3
  <2> HIDE DEF LowestFrom
  <2> QED
    BY <2>1, <2>2, <2>3, LowestRoomUnique
<1>5. ASSUME NEW i \in 0 .. MaxOffset - 1, Stops(i)
      PROVE  LowestFrom(bits, count, i) = i
  <2>1. i \in Nat /\ i \in 0 .. MaxOffset /\ i \in 0 .. MaxOffset + 1
    BY <1>1
  <2>2. LowestRoom(bits, count, i, i)
    BY <1>2, <1>5, <2>1, LowestRoomStep
  <2> QED
    BY <1>3, <2>1, <2>2, LowestRoomUnique
<1>6. ASSUME NEW i \in 0 .. MaxOffset - 1, ~Stops(i)
      PROVE  /\ i + run[i] + 1 \in 0 .. MaxOffset + 1
             /\ LowestFrom(bits, count, i) = LowestFrom(bits, count, i + run[i] + 1)
  <2> DEFINE f == LowestFrom(bits, count, i + run[i] + 1)
  <2>1. i \in Nat /\ i \in 0 .. MaxOffset /\ i \in 0 .. MaxOffset + 1
    BY <1>1
  <2>2. i + run[i] + 1 \in 0 .. MaxOffset + 1
    BY <1>1, <1>2, <2>1 DEF RunOfBits
  <2>3. LowestRoom(bits, count, i + run[i] + 1, f)
    BY <1>3, <2>2
  <2> HIDE DEF f
  <2>4. LowestRoom(bits, count, i, f)
    BY <1>2, <1>6, <2>1, <2>3, LowestRoomStep
  <2>5. LowestFrom(bits, count, i) = f
    BY <1>3, <2>1, <2>4, LowestRoomUnique
  <2> QED
    BY <2>2, <2>5 DEF f
<1>7. \A i \in 0 .. MaxOffset + 1 : i >= MaxOffset \/ i \in 0 .. MaxOffset - 1
  BY <1>1
<1> QED
  BY <1>4, <1>5, <1>6, <1>7 DEF IsFinds, run

(* Finds(): from each position the lowest place with room for all pages.    *)
LEMMA FindsRight ==
  ASSUME NEW bits \in SUBSET AllPages, NEW count \in Nat \ {0}, NEW i \in 0 .. MaxOffset + 1
  PROVE  LowestRoom(bits, count, i, Bitmap!Finds(bits, count)[i])
<1> DEFINE run == Bitmap!Runs(bits)
           from == Bitmap!Finds(bits, count)
           Bad == {n \in 0 .. MaxOffset + 1 : ~LowestRoom(bits, count, n, from[n])}
<1>1. MaxOffset \in Nat
  BY GuestMemoryAssumption
<1>2. IsFinds(from, bits, count)
  <2>1. from = CHOOSE f : IsFinds(f, bits, count)
    BY AllBits DEF Bitmap!Finds, IsFinds
  <2> QED
    BY <2>1, FindsExist
<1>3. \A n \in 0 .. MaxOffset + 1 :
        from[n] = IF n >= MaxOffset THEN Bitmap!None
                  ELSE IF n \in bits /\ run[n] >= count /\ n + count <= MaxOffset THEN n
                  ELSE from[n + run[n] + 1]
  BY <1>2 DEF IsFinds
<1>4. \A n \in 0 .. MaxOffset : RunOfBits(bits, n, run[n])
  BY RunsRight
<1> HIDE DEF from, run
<1>5. Bad = {}
  <2> SUFFICES ASSUME Bad # {} PROVE FALSE
    OBVIOUS
  <2>1. Bad \in SUBSET (0 .. MaxOffset + 1) /\ MaxOffset + 1 \in Nat
    BY <1>1
  <2>2. PICK n \in Bad : \A m \in Bad : m <= n
    BY <2>1, Greatest
  <2>3. n \in 0 .. MaxOffset + 1 /\ ~LowestRoom(bits, count, n, from[n])
    BY <2>2
  <2>4. CASE n >= MaxOffset
    <3>1. n \in {MaxOffset, MaxOffset + 1}
      BY <1>1, <2>3, <2>4
    <3> QED
      BY <1>3, <2>3, <2>4, <3>1, LowestRoomEnd
  <2>5. CASE ~(n >= MaxOffset)
    <3>1. n \in 0 .. MaxOffset - 1 /\ n \in 0 .. MaxOffset /\ RunOfBits(bits, n, run[n])
      BY <1>1, <1>4, <2>3, <2>5
    <3>2. CASE n \in bits /\ run[n] >= count /\ n + count <= MaxOffset
      <4>1. from[n] = n
        BY <1>3, <2>3, <2>5, <3>2
      <4> QED
        BY <2>3, <3>1, <3>2, <4>1, LowestRoomStep
    <3>3. CASE ~(n \in bits /\ run[n] >= count /\ n + count <= MaxOffset)
      <4>1. from[n] = from[n + run[n] + 1]
        BY <1>3, <2>3, <2>5, <3>3
      <4>2. n + run[n] + 1 \in 0 .. MaxOffset + 1 /\ n + run[n] + 1 > n
        BY <1>1, <3>1 DEF RunOfBits
      <4>3. n + run[n] + 1 \notin Bad
        BY <2>1, <2>2, <4>2
      <4>4. LowestRoom(bits, count, n + run[n] + 1, from[n])
        BY <4>1, <4>2, <4>3
      <4> QED
        BY <2>3, <3>1, <3>3, <4>4, LowestRoomStep
    <3> QED
      BY <3>2, <3>3
  <2> QED
    BY <2>4, <2>5
<1> QED
  BY <1>5 DEF from

(* allocate_from() finds the lowest place with room, if there is one.       *)
THEOREM ScanFindsLowestRoom ==
  ASSUME NEW bits \in SUBSET AllPages, NEW count \in Nat \ {0}, NEW start \in AllPages,
         start % WordBits = 0
  PROVE  LowestRoom(bits, count, start, Bitmap!Scan(bits, start, count))
<1>1. MaxOffset \in Nat /\ WordBits \in Nat \ {0}
  BY GuestMemoryAssumption
<1>2. start \in Nat /\ start \in 0 .. MaxOffset + 1
  BY <1>1 DEF AllPages
<1>3. (start \div WordBits) * WordBits = start
  BY <1>1, <1>2, ModZero
<1> QED
  BY <1>2, <1>3, FindsRight DEF Bitmap!Scan

-----------------------------------------------------------------------------
(* What a call asks for, when nothing wraps around and nobody asks for      *)
(* nothing: alloc() and alloc_aligned() count in 32 bits, and malloc(0)     *)
(* asks for no page (the run GuestMemory_zero shows what comes of it).      *)
OrdinaryRequests ==
  /\ \A size \in Sizes : size > 0 /\ size + PageSize <= TotalSize
  /\ \A size \in Sizes, alignment \in Alignments :
       size + alignment + PageSize <= TotalSize
  /\ \A type \in BlockTypes, size \in BlockSizes, alignment \in Alignments :
       size + BlockAlignment(type, size, alignment) + PageSize <= TotalSize

(* Pages enough for size bytes wherever the alignment puts them.            *)
Ordinary(ask, size) ==
  /\ ask.count \in Nat \ {0} /\ ask.align \in Nat \ {0} /\ size \in Nat \ {0}
  /\ size + ask.align - 1 <= ask.count * PageSize
  /\ ask.start \in PageSize .. TotalSize - 1 /\ ask.start % (WordBits * PageSize) = 0

(* What the assumption says of the sizes.                                   *)
LEMMA Numbers ==
  /\ PageSize \in Nat \ {0} /\ WordBits \in Nat \ {0} /\ MaxOffset \in Nat \ {0, 1}
  /\ TotalSize \in Nat
BY GuestMemoryAssumption DEF TotalSize

(* PagesOf() counts pages enough, as long as it does not wrap around.       *)
LEMMA PagesEnough ==
  ASSUME NEW size \in Nat \ {0}, size + PageSize <= TotalSize
  PROVE  PagesOf(size) \in Nat \ {0} /\ size <= PagesOf(size) * PageSize
<1> DEFINE x == Aligned(size, PageSize)
<1>1. x \in Nat /\ size <= x /\ x < TotalSize
  BY Numbers, AlignedBounds
<1>2. x % TotalSize = x
  BY <1>1, Numbers, ModSmall
<1>3. x = ((size + PageSize - 1) \div PageSize) * PageSize
  BY DEF Aligned
<1>4. (size + PageSize - 1) \div PageSize \in Nat
  BY Numbers, DivBounds
<1>5. x \div PageSize = (size + PageSize - 1) \div PageSize
  BY <1>3, <1>4, Numbers, DivExact
<1>6. PagesOf(size) = (size + PageSize - 1) \div PageSize
  BY <1>2, <1>5 DEF PagesOf
<1> HIDE DEF x
<1>7. PagesOf(size) \in Nat /\ size <= PagesOf(size) * PageSize
  BY <1>1, <1>3, <1>4, <1>6
<1> QED
  BY <1>7, Numbers

(* A multiple leaves no remainder.                                          *)
LEMMA MultipleMod ==
  ASSUME NEW b \in Nat \ {0}, NEW k \in Nat
  PROVE  (k * b) % b = 0
<1>1. k * b \in Nat /\ (k * b) \div b = k
  BY DivExact
<1> DEFINE x == k * b
<1> HIDE DEF x
<1>2. x \in Nat /\ (x \div b) * b = x
  BY <1>1 DEF x
<1> DEFINE p == (x \div b) * b
           c == x % b
<1>3. p = x /\ c \in Nat /\ x = p + c
  BY <1>2
<1> HIDE DEF p, c
<1>4. c = 0
  BY <1>2, <1>3
<1> QED
  BY <1>4 DEF x, c

(* A search begins at a word's first page, above the null page.             *)
LEMMA StartPage ==
  ASSUME NEW start \in PageSize .. TotalSize - 1, start % (WordBits * PageSize) = 0
  PROVE  start \div PageSize \in AllPages \ {0} /\ (start \div PageSize) % WordBits = 0
<1> DEFINE m == start \div (WordBits * PageSize)
<1>1. start \in Nat /\ WordBits * PageSize \in Nat \ {0}
  BY Numbers
<1>2. m \in Nat /\ m * (WordBits * PageSize) = start
  BY <1>1, ModZero
<1> HIDE DEF m
<1>3. m * WordBits \in Nat /\ (m * WordBits) * PageSize = start
  BY <1>2, Numbers
<1>4. start \div PageSize = m * WordBits
  BY <1>3, Numbers, DivExact
<1>5. (m * WordBits) % WordBits = 0
  BY <1>2, Numbers, MultipleMod
<1>6. m * WordBits # 0
  BY <1>3, Numbers
<1>7. m * WordBits < MaxOffset
  <2> DEFINE k == m * WordBits
  <2>1. k \in Nat /\ k * PageSize = start
    BY <1>3
  <2>3. start \in Nat /\ start < MaxOffset * PageSize
    BY Numbers DEF TotalSize
  <2> HIDE DEF k
  <2>2. k < MaxOffset
    BY <2>1, <2>3, Numbers
  <2> QED
    BY <2>2 DEF k
<1> QED
  BY <1>3, <1>4, <1>5, <1>6, <1>7, Numbers DEF AllPages

(* Max() of numbers up to k is one of them.                                 *)
LEMMA GreatestOfSet ==
  ASSUME NEW k \in Nat, NEW T \in SUBSET (0 .. k), T # {}
  PROVE  Max(T) \in T
<1>1. PICK n \in T : \A m \in T : m <= n
  BY Greatest
<1>2. Max(T) \in T /\ \A m \in T : Max(T) >= m
  BY <1>1 DEF Max
<1> QED
  BY <1>2

(* A size has a lowest bit.                                                 *)
LEMMA LowestBitPositive ==
  ASSUME NEW size \in Nat \ {0}
  PROVE  LowestBit(size) \in Nat \ {0}
<1> DEFINE T == {a \in 1 .. size : size % a = 0 /\ \A d \in 2 .. a : a % d = 0 => d % 2 = 0}
<1>1. 1 \in T
  OBVIOUS
<1>2. T \in SUBSET (0 .. size) /\ T \in SUBSET (Nat \ {0})
  OBVIOUS
<1>3. Max(T) \in T
  BY <1>1, <1>2, GreatestOfSet
<1> QED
  BY <1>2, <1>3 DEF LowestBit

(* A block is aligned to something.                                         *)
LEMMA BlockAlignmentPositive ==
  ASSUME NEW type \in BlockTypes, NEW size \in Nat \ {0}, NEW alignment \in Nat \ {0}
  PROVE  BlockAlignment(type, size, alignment) \in Nat \ {0}
<1> DEFINE T == {TypeAlignment[type], alignment, LowestBit(size)}
           k == TypeAlignment[type] + alignment + LowestBit(size)
<1>1. TypeAlignment[type] \in Nat \ {0} /\ LowestBit(size) \in Nat \ {0}
  BY GuestMemoryAssumption, LowestBitPositive
<1>2. T \in SUBSET (0 .. k) /\ T # {} /\ k \in Nat /\ T \in SUBSET (Nat \ {0})
  BY <1>1
<1>3. Max(T) \in T
  BY <1>2, GreatestOfSet
<1> QED
  BY <1>2, <1>3 DEF BlockAlignment

(* malloc asks for pages enough,                                            *)
LEMMA PlainOrdinary ==
  ASSUME OrdinaryRequests, NEW size \in Sizes
  PROVE  Ordinary(Plain(size), size)
<1>1. size \in Nat \ {0} /\ size + PageSize <= TotalSize
  BY GuestMemoryAssumption DEF OrdinaryRequests
<1>2. PagesOf(size) \in Nat \ {0} /\ size <= PagesOf(size) * PageSize
  BY <1>1, PagesEnough
<1>3. UserStart \in PageSize .. TotalSize - 1 /\ UserStart % (WordBits * PageSize) = 0
  BY GuestMemoryAssumption
<1> QED
  BY <1>1, <1>2, <1>3, Numbers DEF Ordinary, Plain

(* alloc_aligned does, with what it adds for the alignment,                 *)
LEMMA RoomyOrdinary ==
  ASSUME NEW size \in Nat \ {0}, NEW alignment \in Nat \ {0},
         size + alignment + PageSize <= TotalSize,
         NEW start \in PageSize .. TotalSize - 1, start % (WordBits * PageSize) = 0
  PROVE  Ordinary(Roomy(size, alignment, start), size)
<1> DEFINE x == size + alignment
<1>1. x \in Nat \ {0} /\ x + PageSize <= TotalSize /\ x < TotalSize
  BY Numbers
<1>2. x % TotalSize = x
  BY <1>1, Numbers, ModSmall
<1>3. PagesOf(x) \in Nat \ {0} /\ x <= PagesOf(x) * PageSize
  BY <1>1, PagesEnough
<1>4. Roomy(size, alignment, start) =
        [count |-> PagesOf(x), start |-> start, align |-> alignment]
  BY <1>2 DEF Roomy
<1>5. size + alignment - 1 <= PagesOf(x) * PageSize
  BY <1>3, Numbers
<1> QED
  BY <1>3, <1>4, <1>5 DEF Ordinary

(* memalign does,                                                           *)
LEMMA MemalignOrdinary ==
  ASSUME OrdinaryRequests, NEW size \in Sizes, NEW alignment \in Alignments
  PROVE  Ordinary(Roomy(size, alignment, UserStart), size)
<1>1. size \in Nat \ {0} /\ alignment \in Nat \ {0}
  BY GuestMemoryAssumption DEF OrdinaryRequests
<1>2. UserStart \in PageSize .. TotalSize - 1 /\ UserStart % (WordBits * PageSize) = 0
  BY GuestMemoryAssumption
<1>3. size + alignment + PageSize <= TotalSize
  BY DEF OrdinaryRequests
<1> QED
  BY <1>1, <1>2, <1>3, RoomyOrdinary

(* and so does a memory block.                                              *)
LEMMA BlockOrdinary ==
  ASSUME OrdinaryRequests, NEW type \in BlockTypes, NEW size \in BlockSizes,
         NEW alignment \in Alignments
  PROVE  Ordinary(Roomy(size, BlockAlignment(type, size, alignment), TypeStart[type]), size)
<1>1. size \in Nat \ {0} /\ alignment \in Nat \ {0}
  BY GuestMemoryAssumption
<1>2. BlockAlignment(type, size, alignment) \in Nat \ {0}
  BY <1>1, BlockAlignmentPositive
<1>3. /\ TypeStart[type] \in PageSize .. TotalSize - 1
      /\ TypeStart[type] % (WordBits * PageSize) = 0
  BY GuestMemoryAssumption
<1> QED
  BY <1>1, <1>2, <1>3, RoomyOrdinary DEF OrdinaryRequests

-----------------------------------------------------------------------------
PageAt(h) == h.at \div PageSize

(* Every block of the table lies in memory; the null page's entry, which    *)
(* free(NULL) reads, always says one page.                                  *)
TableRight ==
  /\ alloc_table \in [AllPages -> [allocated : BOOLEAN, size : Nat]]
  /\ alloc_table[0].size = 1
  /\ \A p \in Entries \ {0} : alloc_table[p].size > 0 /\ p + alloc_table[p].size <= MaxOffset

(* An address handed out begins a block that is long enough for what was    *)
(* asked, and no two holders have the same block.                           *)
HoldersRight ==
  /\ \A h \in Holders :
       /\ h \in [at : Nat, size : Nat \ {0}] /\ PageAt(h) * PageSize = h.at
       /\ h.size <= alloc_table[PageAt(h)].size * PageSize
  /\ \A g, h \in Holders : PageAt(g) = PageAt(h) => g = h
  /\ held \cap blocks = {}

MemoryInv == free \in SUBSET AllPages /\ TableRight /\ HoldersRight /\ PagesAccounted

(* Bitmap and table agree after init().                                     *)
LEMMA MemoryInitRight == MemoryInit => MemoryInv
<1> SUFFICES ASSUME MemoryInit PROVE MemoryInv
  OBVIOUS
<1>1. AllPages = 0 .. MaxOffset - 1 /\ 0 \in AllPages
  BY Numbers DEF AllPages
<1>2. free = AllPages \ {0}
  BY <1>1, AllBits, Numbers
     DEF MemoryInit, Bitmap!TakeBits, Bitmap!SetMaximum, Bitmap!Touched
<1>3. /\ alloc_table = [p \in AllPages |-> [allocated |-> p = 0, size |-> IF p = 0 THEN 1 ELSE 0]]
      /\ Holders = {} /\ held = {}
  BY DEF MemoryInit, Vacant, Holders
<1>4. Entries = {0} /\ alloc_table[0].size = 1
  BY <1>1, <1>3 DEF Entries
<1>5. TableRight
  BY <1>1, <1>3, <1>4 DEF TableRight
<1>6. HoldersRight
  BY <1>3 DEF HoldersRight
<1>7. PagesAccounted
  BY <1>1, <1>2, <1>3, <1>4, Numbers DEF PagesAccounted, EntryPages
<1> QED
  BY <1>2, <1>5, <1>6, <1>7 DEF MemoryInv

(* A page that is free begins no block.                                     *)
LEMMA FreeIsNoEntry ==
  ASSUME MemoryInv, NEW p \in AllPages \ {0}, p \in free
  PROVE  p \notin Entries
BY DEF MemoryInv, PagesAccounted, EntryPages, TableRight, AllPages

(* What a call finds is the lowest place from its start on.                 *)
LEMMA RefusedOrFound ==
  ASSUME MemoryInv, NEW ask, NEW size, Ordinary(ask, size)
  PROVE  /\ ask.start \div PageSize \in AllPages \ {0}
         /\ LowestRoom(free, ask.count, ask.start \div PageSize, Found(ask))
<1>1. /\ ask.start \div PageSize \in AllPages \ {0}
      /\ (ask.start \div PageSize) % WordBits = 0
  BY StartPage DEF Ordinary
<1> QED
  BY <1>1, ScanFindsLowestRoom DEF Found, MemoryInv, Ordinary

(* Where a block is put: from the room that was found the aligned page on,  *)
(* up to the end of the room.                                               *)
LEMMA WhereItGoes ==
  ASSUME MemoryInv, NEW ask, NEW size, Ordinary(ask, size), Found(ask) # Bitmap!None
  PROVE  /\ Found(ask) \in ask.start \div PageSize .. MaxOffset - 1
         /\ FirstPage(ask) \in Found(ask) .. Found(ask) + ask.count - 1
         /\ size <= (Found(ask) + ask.count - FirstPage(ask)) * PageSize
         /\ Found(ask) + ask.count <= MaxOffset
         /\ \A p \in Found(ask) .. Found(ask) + ask.count - 1 : p \in free
<1> DEFINE f == Found(ask)
           x == Aligned(f * PageSize, ask.align)
           first == FirstPage(ask)
<1>1. /\ f \in ask.start \div PageSize .. MaxOffset - 1 /\ Room(free, f, ask.count)
      /\ ask.start \div PageSize \in AllPages \ {0}
  BY RefusedOrFound DEF LowestRoom
<1>2. f \in Nat /\ f * PageSize \in Nat
  BY <1>1, Numbers DEF AllPages
<1>3. x \in Nat /\ f * PageSize <= x /\ x <= f * PageSize + ask.align - 1
  BY <1>2, AlignedBounds DEF Ordinary
<1>4. first \in Nat /\ first * PageSize <= x /\ x < first * PageSize + PageSize
  BY <1>3, Numbers, DivBounds DEF FirstPage
<1>5. /\ ask.count \in Nat \ {0} /\ ask.align \in Nat \ {0} /\ size \in Nat \ {0}
      /\ size + ask.align - 1 <= ask.count * PageSize
  BY DEF Ordinary
<1>6. f <= first
  <2> HIDE DEF f, x, first
  <2>1. f * PageSize < (first + 1) * PageSize
    BY <1>2, <1>3, <1>4, Numbers
  <2>2. f < first + 1
    BY <1>2, <1>4, <2>1, Numbers
  <2> QED
    BY <1>2, <1>4, <2>2
<1>7. size <= (f + ask.count - first) * PageSize
  <2> HIDE DEF f, x, first
  <2>1. first * PageSize <= f * PageSize + ask.count * PageSize - size
    BY <1>2, <1>3, <1>4, <1>5, Numbers
  <2>2. (f + ask.count - first) * PageSize = f * PageSize + ask.count * PageSize - first * PageSize
    BY <1>2, <1>4, <1>5, Numbers
  <2> QED
    BY <1>2, <1>4, <1>5, <2>1, <2>2, Numbers
<1>8. first < f + ask.count
  <2> HIDE DEF f, x, first
  <2> DEFINE d == f + ask.count - first
  <2>1. d \in Int /\ 0 < d * PageSize
    BY <1>2, <1>4, <1>5, <1>7, Numbers
  <2>2. 0 < d
    <3> HIDE DEF d
    <3> QED
      BY <2>1, Numbers
  <2> QED
    BY <1>2, <1>4, <1>5, <2>2
<1> QED
  BY <1>1, <1>2, <1>4, <1>5, <1>6, <1>7, <1>8 DEF Room

(* The block that is taken, in the terms of the table: from first on long   *)
(* pages, which were all free.                                              *)
Taking(first, long) ==
  /\ first \in AllPages \ {0} /\ long \in Nat \ {0} /\ first + long <= MaxOffset
  /\ \A p \in first .. first + long - 1 : p \in free
  /\ free' = free \ (first .. first + long - 1)
  /\ alloc_table' \in [AllPages -> [allocated : BOOLEAN, size : Nat]]
  /\ alloc_table'[0].size = 1
  /\ Entries' = Entries \cup {first} /\ first \notin Entries
  /\ alloc_table'[first].size = long
  /\ \A p \in Entries : alloc_table'[p] = alloc_table[p]

(* A call that finds room takes the block, and only that.                   *)
LEMMA ObtainTakes ==
  ASSUME MemoryInv, NEW ask, NEW size, Ordinary(ask, size), Found(ask) # Bitmap!None,
         Occupy(Found(ask), FirstPage(ask), ask.count)
  PROVE  Taking(FirstPage(ask), Found(ask) + ask.count - FirstPage(ask))
<1> DEFINE f == Found(ask)
           first == FirstPage(ask)
           n == ask.count
           long == f + n - first
<1>1. /\ f \in AllPages \ {0} /\ first \in f .. f + n - 1 /\ f + n <= MaxOffset
      /\ n \in Nat \ {0} /\ \A p \in f .. f + n - 1 : p \in free
  <2>1. ask.start \div PageSize \in AllPages \ {0}
    BY RefusedOrFound
  <2> QED
    BY <2>1, WhereItGoes, Numbers DEF Ordinary, AllPages
<1>2. /\ free' = Bitmap!Free(Bitmap!TakeBits(free, f, n), f, first - f)
      /\ alloc_table' = [alloc_table EXCEPT ![f] = Vacant(f),
                                            ![first] = [allocated |-> TRUE, size |-> n - (first - f)]]
  BY DEF Occupy
<1>3. /\ free \in SUBSET AllPages /\ alloc_table \in [AllPages -> [allocated : BOOLEAN, size : Nat]]
      /\ alloc_table[0].size = 1 /\ AllPages = 0 .. MaxOffset - 1
  BY DEF MemoryInv, TableRight, AllPages
<1> HIDE DEF f, first, n
<1>4. first \in AllPages \ {0} /\ long \in Nat \ {0} /\ first + long = f + n
  BY <1>1, <1>3, Numbers
<1>5. \A p \in first .. first + long - 1 : p \in free
  BY <1>1, <1>3, <1>4
<1>6. free' = free \ (first .. first + long - 1)
  <2>1. Bitmap!TakeBits(free, f, n) = free \ (f .. f + n - 1)
    BY <1>1, <1>3, AllBits, Numbers DEF Bitmap!TakeBits, Bitmap!Touched
  <2>2. Bitmap!Touched(f, first - f) = f .. first - 1
    BY <1>1, <1>3, AllBits, Numbers DEF Bitmap!Touched
  <2>3. free' = (free \ (f .. f + n - 1)) \cup (f .. first - 1)
    <3>1. ~(f >= MaxOffset)
      BY <1>1, <1>3, Numbers
    <3>2. free' = Bitmap!TakeBits(free, f, n) \cup Bitmap!Touched(f, first - f)
      BY <1>2, <3>1 DEF Bitmap!Free
    <3> QED
      BY <2>1, <2>2, <3>2
  <2> QED
    BY <1>1, <1>3, <1>4, <2>3
<1>7. f \notin Entries /\ first \notin Entries
  BY <1>1, <1>4, FreeIsNoEntry
<1>8. Vacant(f) = [allocated |-> FALSE, size |-> 0]
  BY <1>1 DEF Vacant
<1>9. n - (first - f) = long /\ long \in Nat
  BY <1>1, <1>3, <1>4
<1>10. /\ alloc_table' \in [AllPages -> [allocated : BOOLEAN, size : Nat]]
       /\ alloc_table'[first] = [allocated |-> TRUE, size |-> long]
       /\ alloc_table'[0].size = 1
  <2> HIDE DEF long
  <2>1. alloc_table' = [alloc_table EXCEPT ![f] = [allocated |-> FALSE, size |-> 0],
                                           ![first] = [allocated |-> TRUE, size |-> long]]
    BY <1>2, <1>8, <1>9
  <2>2. 0 \in AllPages /\ 0 # f /\ 0 # first /\ f \in AllPages /\ first \in AllPages
    BY <1>1, <1>3, <1>4, Numbers
  <2>3. alloc_table' \in [AllPages -> [allocated : BOOLEAN, size : Nat]]
    BY <1>3, <1>9, <2>1, <2>2
  <2>4. alloc_table'[0] = alloc_table[0]
    BY <1>3, <2>1, <2>2
  <2>5. alloc_table'[first] = [allocated |-> TRUE, size |-> long]
    BY <1>3, <2>1, <2>2
  <2> QED
    BY <1>3, <2>3, <2>4, <2>5
<1>11. \A p \in Entries : alloc_table'[p] = alloc_table[p]
  BY <1>2, <1>3, <1>7 DEF Entries
<1>12. Entries' = Entries \cup {first}
  <2>1. ASSUME NEW p \in AllPages
        PROVE  alloc_table'[p].allocated <=> alloc_table[p].allocated \/ p = first
    <3>1. CASE p = first
      BY <1>10, <3>1
    <3>2. CASE p # first /\ p = f
      <4>1. ~alloc_table[p].allocated
        BY <1>7, <2>1, <3>2 DEF Entries
      <4>2. alloc_table'[p] = [allocated |-> FALSE, size |-> 0]
        BY <1>2, <1>3, <1>8, <3>2
      <4> QED
        BY <3>2, <4>1, <4>2
    <3>3. CASE p # first /\ p # f
      BY <1>2, <1>3, <3>3
    <3> QED
      BY <3>1, <3>2, <3>3
  <2> QED
    BY <1>4, <2>1 DEF Entries
<1> QED
  BY <1>1, <1>4, <1>5, <1>6, <1>7, <1>10, <1>11, <1>12 DEF Taking, f, first, n


(* A block that goes back.                                                  *)
Giving(page) ==
  /\ page \in AllPages
  /\ free' = free \cup EntryPages(page)
  /\ alloc_table' \in [AllPages -> [allocated : BOOLEAN, size : Nat]]
  /\ alloc_table'[0].size = 1
  /\ Entries' = Entries \ {page}
  /\ \A p \in Entries \ {page} : alloc_table'[p] = alloc_table[p]

(* free() gives back the block that begins at the page, and only that.      *)
LEMMA FreeGives ==
  ASSUME MemoryInv, NEW address, NEW page \in Entries \cup {0}, page = address \div PageSize,
         FreePages(address)
  PROVE  Giving(page)
<1>1. /\ alloc_table' = [alloc_table EXCEPT ![page] = Vacant(page)]
      /\ free' = Bitmap!Free(free, page, alloc_table[page].size)
  BY DEF FreePages
<1>2. /\ free \in SUBSET AllPages /\ alloc_table \in [AllPages -> [allocated : BOOLEAN, size : Nat]]
      /\ alloc_table[0].size = 1 /\ AllPages = 0 .. MaxOffset - 1
  BY DEF MemoryInv, TableRight, AllPages
<1>3. page \in AllPages /\ page + alloc_table[page].size <= MaxOffset
  BY <1>2, Numbers DEF MemoryInv, TableRight, Entries
<1>4. free' = free \cup EntryPages(page)
  BY <1>1, <1>2, <1>3, AllBits, Numbers DEF Bitmap!Free, Bitmap!Touched, EntryPages
<1>5. Vacant(page) \in [allocated : BOOLEAN, size : Nat] /\ ~Vacant(page).allocated
      /\ (page = 0 => Vacant(page).size = 1)
  BY DEF Vacant
<1> QED
  BY <1>1, <1>2, <1>3, <1>4, <1>5, Numbers DEF Giving, Entries

-----------------------------------------------------------------------------
(* Taking a block keeps the table in order,                                 *)
LEMMA TakingKeepsTable ==
  ASSUME MemoryInv, NEW first, NEW long, Taking(first, long)
  PROVE  free' \in SUBSET AllPages /\ TableRight'
<1>1. free' \in SUBSET AllPages
  BY DEF Taking, MemoryInv
<1>2. \A p \in Entries' \ {0} : alloc_table'[p].size > 0 /\ p + alloc_table'[p].size <= MaxOffset
  BY DEF Taking, MemoryInv, TableRight
<1> QED
  BY <1>1, <1>2 DEF Taking, TableRight

(* and in step with the bitmap.                                             *)
LEMMA TakingKeepsAccount ==
  ASSUME MemoryInv, NEW first, NEW long, Taking(first, long),
         Entries' \ {0} = {PageAt(h) : h \in Holders'}
  PROVE  PagesAccounted'
<1> DEFINE new == first .. first + long - 1
<1>1. /\ \A q \in Entries : EntryPages(q)' = EntryPages(q)
      /\ EntryPages(first)' = new
  BY DEF Taking, EntryPages
<1>2. /\ Entries' = Entries \cup {first} /\ first \notin Entries /\ first # 0
      /\ \A p \in new : p \in free /\ p \in AllPages \ {0}
      /\ free' = free \ new
  BY Numbers DEF Taking, AllPages
<1>3. /\ \A p \in AllPages \ {0} : p \in free <=> \A q \in Entries : p \notin EntryPages(q)
      /\ \A p, q \in Entries \ {0} : p # q => EntryPages(p) \cap EntryPages(q) = {}
  BY DEF MemoryInv, PagesAccounted
<1> HIDE DEF new
<1>4. \A q \in Entries : EntryPages(q) \cap new = {}
  BY <1>2, <1>3
<1>5. \A p \in AllPages \ {0} : p \in free' <=> \A q \in Entries' : p \notin EntryPages(q)'
  BY <1>1, <1>2, <1>3
<1>6. \A p, q \in Entries' \ {0} : p # q => EntryPages(p)' \cap EntryPages(q)' = {}
  <2> SUFFICES ASSUME NEW p \in Entries' \ {0}, NEW q \in Entries' \ {0}, p # q
               PROVE  EntryPages(p)' \cap EntryPages(q)' = {}
    OBVIOUS
  <2>1. CASE p \in Entries /\ q \in Entries
    BY <1>1, <1>3, <2>1
  <2>2. CASE p = first
    BY <1>1, <1>2, <1>4, <2>2
  <2>3. CASE q = first
    BY <1>1, <1>2, <1>4, <2>3
  <2> QED
    BY <1>2, <2>1, <2>2, <2>3
<1> QED
  BY <1>5, <1>6 DEF PagesAccounted, PageAt

(* Giving one back keeps the table in order,                                *)
LEMMA GivingKeepsTable ==
  ASSUME MemoryInv, NEW page \in Entries \cup {0}, Giving(page)
  PROVE  free' \in SUBSET AllPages /\ TableRight'
<1>1. EntryPages(page) \in SUBSET AllPages
  <2>1. page + alloc_table[page].size <= MaxOffset
    BY Numbers DEF MemoryInv, TableRight
  <2>2. page \in Nat /\ alloc_table[page].size \in Nat
    BY DEF Giving, AllPages, MemoryInv, TableRight
  <2> QED
    BY <2>1, <2>2, Numbers DEF EntryPages, AllPages
<1>2. free' \in SUBSET AllPages
  BY <1>1 DEF Giving, MemoryInv
<1>3. \A p \in Entries' \ {0} : alloc_table'[p].size > 0 /\ p + alloc_table'[p].size <= MaxOffset
  BY DEF Giving, MemoryInv, TableRight
<1> QED
  BY <1>2, <1>3 DEF Giving, TableRight

(* and in step with the bitmap.                                             *)
LEMMA GivingKeepsAccount ==
  ASSUME MemoryInv, NEW page \in Entries \cup {0}, Giving(page),
         Entries' \ {0} = {PageAt(h) : h \in Holders'}
  PROVE  PagesAccounted'
<1>1. \A q \in Entries \ {page} : EntryPages(q)' = EntryPages(q)
  BY DEF Giving, EntryPages
<1>2. Entries' = Entries \ {page} /\ free' = free \cup EntryPages(page)
  BY DEF Giving
<1>3. /\ \A p \in AllPages \ {0} : p \in free <=> \A q \in Entries : p \notin EntryPages(q)
      /\ \A p, q \in Entries \ {0} : p # q => EntryPages(p) \cap EntryPages(q) = {}
  BY DEF MemoryInv, PagesAccounted
<1>4. EntryPages(0) = {0}
  BY DEF EntryPages, MemoryInv, TableRight
<1>5. \A p \in AllPages \ {0} : p \in free' <=> \A q \in Entries' : p \notin EntryPages(q)'
  <2> SUFFICES ASSUME NEW p \in AllPages \ {0}
               PROVE  p \in free' <=> \A q \in Entries' : p \notin EntryPages(q)'
    OBVIOUS
  <2>1. CASE page = 0
    BY <1>1, <1>2, <1>3, <1>4, <2>1
  <2>2. CASE page # 0
    <3>1. p \in EntryPages(page) => \A q \in Entries \ {page} : p \notin EntryPages(q)
      BY <1>3, <1>4, <2>2
    <3> QED
      BY <1>1, <1>2, <1>3, <2>2, <3>1
  <2> QED
    BY <2>1, <2>2
<1>6. \A p, q \in Entries' \ {0} : p # q => EntryPages(p)' \cap EntryPages(q)' = {}
  BY <1>1, <1>2, <1>3
<1> QED
  BY <1>5, <1>6 DEF PagesAccounted, PageAt

HoldersKnown == Entries \ {0} = {PageAt(h) : h \in Holders}

(* A new holder has a block that nobody had.                                *)
LEMMA TakingKeepsHolders ==
  ASSUME MemoryInv, NEW first, NEW long, Taking(first, long),
         NEW size \in Nat \ {0}, size <= long * PageSize,
         Holders' = Holders \cup {[at |-> first * PageSize, size |-> size]},
         (held \cap blocks)' = {}
  PROVE  HoldersRight' /\ HoldersKnown'
<1> DEFINE new == [at |-> first * PageSize, size |-> size]
<1>1. first \in Nat /\ first # 0 /\ first \notin Entries /\ long \in Nat
  BY DEF Taking, AllPages
<1>2. first * PageSize \in Nat /\ PageAt(new) = first /\ new.at = first * PageSize
      /\ new.size = size /\ new \in [at : Nat, size : Nat \ {0}]
  BY <1>1, Numbers, DivExact DEF PageAt
<1>3. /\ Entries' = Entries \cup {first} /\ alloc_table'[first].size = long
      /\ \A p \in Entries : alloc_table'[p] = alloc_table[p]
  BY DEF Taking
<1>4. \A h \in Holders :
        /\ h \in [at : Nat, size : Nat \ {0}] /\ PageAt(h) * PageSize = h.at
        /\ h.size <= alloc_table[PageAt(h)].size * PageSize
        /\ PageAt(h) \in Entries
  BY DEF MemoryInv, HoldersRight, PagesAccounted, PageAt
<1>5. Holders' = Holders \cup {new}
  OBVIOUS
<1> HIDE DEF new
<1>6. \A h \in Holders' :
        /\ h \in [at : Nat, size : Nat \ {0}] /\ PageAt(h) * PageSize = h.at
        /\ h.size <= alloc_table'[PageAt(h)].size * PageSize
  BY <1>2, <1>3, <1>4, <1>5
<1>7. \A g, h \in Holders : PageAt(g) = PageAt(h) => g = h
  BY DEF MemoryInv, HoldersRight
<1>8. \A g, h \in Holders' : PageAt(g) = PageAt(h) => g = h
  BY <1>1, <1>2, <1>4, <1>5, <1>7
<1>9. HoldersKnown'
  <2>1. Entries \ {0} = {PageAt(h) : h \in Holders}
    BY DEF MemoryInv, PagesAccounted, PageAt
  <2>2. Entries' \ {0} = {PageAt(h) : h \in Holders'}
    BY <1>1, <1>2, <1>3, <1>5, <2>1
  <2> QED
    BY <2>2 DEF HoldersKnown, PageAt
<1> QED
  BY <1>6, <1>8, <1>9 DEF HoldersRight, PageAt

(* Who gives a block back was its only holder.                              *)
LEMMA GivingKeepsHolders ==
  ASSUME MemoryInv, NEW h \in Holders, Giving(PageAt(h)), Holders' = Holders \ {h},
         (held \cap blocks)' = {}
  PROVE  HoldersRight' /\ HoldersKnown'
<1>1. \A g \in Holders :
        /\ g \in [at : Nat, size : Nat \ {0}] /\ PageAt(g) * PageSize = g.at
        /\ g.size <= alloc_table[PageAt(g)].size * PageSize
        /\ PageAt(g) \in Entries
        /\ \A k \in Holders : PageAt(g) = PageAt(k) => g = k
  BY DEF MemoryInv, HoldersRight, PagesAccounted, PageAt
<1>2. /\ Entries' = Entries \ {PageAt(h)}
      /\ \A p \in Entries \ {PageAt(h)} : alloc_table'[p] = alloc_table[p]
  BY DEF Giving
<1>3. Entries \ {0} = {PageAt(g) : g \in Holders}
  BY DEF MemoryInv, PagesAccounted, PageAt
<1>4. Entries' \ {0} = {PageAt(g) : g \in Holders'}
  BY <1>1, <1>2, <1>3
<1>5. \A g \in Holders' : g.size <= alloc_table'[PageAt(g)].size * PageSize
  BY <1>1, <1>2
<1> QED
  BY <1>1, <1>4, <1>5 DEF HoldersRight, HoldersKnown, PageAt

(* free(NULL) takes nothing from a holder.                                  *)
LEMMA GivingNullKeepsHolders ==
  ASSUME MemoryInv, Giving(0), UNCHANGED <<held, blocks>>
  PROVE  HoldersRight' /\ HoldersKnown'
<1>1. \A g \in Holders :
        /\ g \in [at : Nat, size : Nat \ {0}] /\ PageAt(g) * PageSize = g.at
        /\ g.size <= alloc_table[PageAt(g)].size * PageSize
        /\ PageAt(g) \in Entries \ {0}
        /\ \A k \in Holders : PageAt(g) = PageAt(k) => g = k
  BY DEF MemoryInv, HoldersRight, PagesAccounted, PageAt
<1>2. /\ Entries' = Entries \ {0} /\ Holders' = Holders
      /\ \A p \in Entries \ {0} : alloc_table'[p] = alloc_table[p]
  BY DEF Giving, Holders
<1>3. Entries \ {0} = {PageAt(g) : g \in Holders}
  BY DEF MemoryInv, PagesAccounted, PageAt
<1>4. held' \cap blocks' = {}
  BY DEF MemoryInv, HoldersRight
<1> QED
  BY <1>1, <1>2, <1>3, <1>4 DEF HoldersRight, HoldersKnown, PageAt


(* A call that succeeds keeps the invariant,                                *)
LEMMA ObtainKeeps ==
  ASSUME MemoryInv, NEW ask, NEW size, Ordinary(ask, size), Obtain(ask),
         \/ held' = held \cup {Holding(ask, size)} /\ UNCHANGED blocks
         \/ blocks' = blocks \cup {Holding(ask, size)} /\ UNCHANGED held
  PROVE  MemoryInv'
<1> DEFINE first == FirstPage(ask)
           long == Found(ask) + ask.count - FirstPage(ask)
           new == [at |-> first * PageSize, size |-> size]
<1>1. Taking(first, long)
  BY ObtainTakes DEF Obtain
<1>2. size \in Nat \ {0} /\ size <= long * PageSize
  BY WhereItGoes DEF Obtain, Ordinary
<1>3. Holding(ask, size) = new
  BY DEF Holding
<1>4. Holders' = Holders \cup {new}
  BY <1>3 DEF Holders
<1> HIDE DEF first, long
<1>5. new \notin Holders
  <2>1. first \in Nat /\ first \notin Entries
    BY <1>1 DEF Taking, AllPages
  <2>2. PageAt(new) = first
    BY <2>1, Numbers, DivExact DEF PageAt
  <2> QED
    BY <2>1, <2>2 DEF MemoryInv, PagesAccounted, PageAt
<1>6. held' \cap blocks' = {}
  BY <1>3, <1>5 DEF MemoryInv, HoldersRight, Holders
<1> HIDE DEF new
<1>7. HoldersRight' /\ HoldersKnown'
  BY <1>1, <1>2, <1>4, <1>6, TakingKeepsHolders DEF new
<1>8. PagesAccounted'
  BY <1>1, <1>7, TakingKeepsAccount DEF HoldersKnown
<1>9. free' \in SUBSET AllPages /\ TableRight'
  BY <1>1, TakingKeepsTable
<1> QED
  BY <1>7, <1>8, <1>9 DEF MemoryInv

(* one that fails,                                                          *)
LEMMA FailKeeps ==
  ASSUME MemoryInv, NEW ask, Fail(ask)
  PROVE  MemoryInv'
BY DEF Fail, MemoryInv, TableRight, HoldersRight, PagesAccounted, Entries, EntryPages, Holders,
       PageAt

(* one that frees,                                                          *)
LEMMA FreeKeeps ==
  ASSUME MemoryInv, NEW h \in Holders, FreePages(h.at), Holders' = Holders \ {h},
         held' \cap blocks' = {}
  PROVE  MemoryInv'
<1>1. PageAt(h) \in Entries
  BY DEF MemoryInv, PagesAccounted, PageAt
<1>2. Giving(PageAt(h))
  BY <1>1, FreeGives DEF PageAt
<1>3. HoldersRight' /\ HoldersKnown'
  BY <1>2, GivingKeepsHolders
<1>4. PagesAccounted'
  BY <1>1, <1>2, <1>3, GivingKeepsAccount DEF HoldersKnown
<1>5. free' \in SUBSET AllPages /\ TableRight'
  BY <1>1, <1>2, GivingKeepsTable
<1> QED
  BY <1>3, <1>4, <1>5 DEF MemoryInv

(* and free(NULL).                                                          *)
LEMMA FreeNullKeeps ==
  ASSUME MemoryInv, LibcFreeNull
  PROVE  MemoryInv'
<1>1. 0 \div PageSize = 0
  BY Numbers
<1>2. Giving(0)
  BY <1>1, FreeGives DEF LibcFreeNull
<1>3. HoldersRight' /\ HoldersKnown'
  BY <1>2, GivingNullKeepsHolders DEF LibcFreeNull
<1>4. PagesAccounted'
  BY <1>2, <1>3, GivingKeepsAccount DEF HoldersKnown
<1>5. free' \in SUBSET AllPages /\ TableRight'
  BY <1>2, GivingKeepsTable
<1> QED
  BY <1>3, <1>4, <1>5 DEF MemoryInv

(* Every step keeps the invariant,                                          *)
LEMMA MemoryStep ==
  ASSUME OrdinaryRequests, MemoryInv, [MemoryNext]_memoryVars
  PROVE  MemoryInv'
<1>1. ASSUME NEW size \in Sizes, Malloc(size) PROVE MemoryInv'
  <2>1. Ordinary(Plain(size), size)
    BY PlainOrdinary
  <2> QED
    BY <1>1, <2>1, ObtainKeeps, FailKeeps DEF Malloc
<1>2. ASSUME NEW alignment \in Alignments, NEW size \in Sizes, Memalign(alignment, size)
      PROVE  MemoryInv'
  <2>1. Ordinary(Roomy(size, alignment, UserStart), size)
    BY MemalignOrdinary
  <2> QED
    BY <1>2, <2>1, ObtainKeeps, FailKeeps DEF Memalign
<1>3. ASSUME NEW type \in BlockTypes, NEW size \in BlockSizes, NEW alignment \in Alignments,
             AllocMemBlock(type, size, alignment)
      PROVE  MemoryInv'
  <2>1. Ordinary(Roomy(size, BlockAlignment(type, size, alignment), TypeStart[type]), size)
    BY BlockOrdinary
  <2> QED
    BY <1>3, <2>1, ObtainKeeps, FailKeeps DEF AllocMemBlock
<1>4. held \cap blocks = {}
  BY DEF MemoryInv, HoldersRight
<1>5. ASSUME NEW h \in held, LibcFree(h) PROVE MemoryInv'
  <2>1. h \in Holders /\ Holders' = Holders \ {h} /\ held' \cap blocks' = {}
    BY <1>4, <1>5 DEF LibcFree, Holders
  <2> QED
    BY <1>5, <2>1, FreeKeeps DEF LibcFree
<1>6. ASSUME NEW b \in blocks, FreeMemBlock(b) PROVE MemoryInv'
  <2>1. b \in Holders /\ Holders' = Holders \ {b} /\ held' \cap blocks' = {}
    BY <1>4, <1>6 DEF FreeMemBlock, Holders
  <2> QED
    BY <1>6, <2>1, FreeKeeps DEF FreeMemBlock
<1>7. CASE UNCHANGED memoryVars
  BY <1>7 DEF memoryVars, MemoryInv, TableRight, HoldersRight, PagesAccounted, Entries,
       EntryPages, Holders, PageAt
<1> QED
  BY <1>1, <1>2, <1>3, <1>5, <1>6, <1>7, FreeNullKeeps DEF MemoryNext

(* so it holds for ever.                                                    *)
LEMMA MemoryInvariant ==
  ASSUME OrdinaryRequests
  PROVE  MemorySpec => []MemoryInv
<1>1. MemoryInit => MemoryInv
  BY MemoryInitRight
<1>2. MemoryInv /\ [MemoryNext]_memoryVars => MemoryInv'
  BY MemoryStep
<1> QED
  BY <1>1, <1>2, PTL DEF MemorySpec

(* Bitmap and table never disagree: above the null page a page is free      *)
(* exactly when no block of alloc_table reaches over it, blocks share no    *)
(* page and each has one holder, whatever malloc, memalign, free and the    *)
(* memory blocks of SceSysmem do in whatever order.                         *)
THEOREM BitmapAndTableAgree ==
  ASSUME OrdinaryRequests
  PROVE  MemorySpec => []PagesAccounted
<1>1. MemoryInv => PagesAccounted
  BY DEF MemoryInv
<1> QED
  BY <1>1, MemoryInvariant, PTL

(* Blocks that share no page make holders that share no byte.               *)
LEMMA InvKeepsApart ==
  ASSUME MemoryInv
  PROVE  HoldersApart
<1> SUFFICES ASSUME NEW h \in Holders
             PROVE  /\ h.at + h.size <= TotalSize
                    /\ \A b \in h.at .. h.at + h.size - 1 : b \div PageSize \notin free
                    /\ \A g \in Holders \ {h} : g.at + g.size <= h.at \/ h.at + h.size <= g.at
  BY DEF HoldersApart
<1> DEFINE Long(p) == alloc_table[p].size
<1>1. \A g \in Holders :
        /\ g.at \in Nat /\ g.size \in Nat /\ g.at = PageAt(g) * PageSize
        /\ g.size <= Long(PageAt(g)) * PageSize
        /\ PageAt(g) \in Nat /\ Long(PageAt(g)) \in Nat
        /\ PageAt(g) \in Entries \ {0} /\ PageAt(g) + Long(PageAt(g)) <= MaxOffset
  <2> SUFFICES ASSUME NEW g \in Holders
               PROVE  /\ g.at \in Nat /\ g.size \in Nat /\ g.at = PageAt(g) * PageSize
                      /\ g.size <= Long(PageAt(g)) * PageSize
                      /\ PageAt(g) \in Nat /\ Long(PageAt(g)) \in Nat
                      /\ PageAt(g) \in Entries \ {0}
                      /\ PageAt(g) + Long(PageAt(g)) <= MaxOffset
    OBVIOUS
  <2>1. PageAt(g) \in Entries \ {0}
    BY DEF MemoryInv, PagesAccounted, PageAt
  <2> QED
    BY <2>1 DEF MemoryInv, HoldersRight, TableRight, Entries, AllPages
<1> DEFINE p == PageAt(h)
           n == Long(p)
<1>2. /\ h.at \in Nat /\ h.size \in Nat /\ h.at = p * PageSize /\ h.size <= n * PageSize
      /\ p \in Nat /\ n \in Nat /\ p \in Entries \ {0} /\ p + n <= MaxOffset
  BY <1>1
<1>3. EntryPages(p) = p .. p + n - 1
  BY DEF EntryPages
<1> HIDE DEF p, n
<1>4. h.at + h.size <= TotalSize
  <2>1. (p + n) * PageSize <= MaxOffset * PageSize
    BY <1>2, Numbers
  <2> QED
    BY <1>2, <2>1, Numbers DEF TotalSize
<1>5. ASSUME NEW b \in h.at .. h.at + h.size - 1 PROVE b \div PageSize \notin free
  <2> DEFINE q == b \div PageSize
  <2>1. b \in Nat /\ p * PageSize <= b /\ b < (p + n) * PageSize
    BY <1>2, <1>5, Numbers
  <2>2. q \in Nat /\ q * PageSize <= b /\ b < q * PageSize + PageSize
    BY <2>1, Numbers, DivBounds
  <2> HIDE DEF q
  <2>3. q * PageSize < (p + n) * PageSize /\ p * PageSize < (q + 1) * PageSize
    BY <2>1, <2>2, <1>2, Numbers
  <2>4. q < p + n /\ p < q + 1
    BY <2>2, <2>3, <1>2, Numbers
  <2>5. q \in EntryPages(p) /\ q \in AllPages \ {0}
    BY <1>2, <1>3, <2>2, <2>4, Numbers DEF AllPages, Entries
  <2>6. q \notin free
    BY <1>2, <2>5 DEF MemoryInv, PagesAccounted
  <2> QED
    BY <2>6 DEF q
<1>6. ASSUME NEW g \in Holders \ {h} PROVE g.at + g.size <= h.at \/ h.at + h.size <= g.at
  <2> DEFINE q == PageAt(g)
             m == Long(q)
  <2>1. /\ g.at \in Nat /\ g.size \in Nat /\ g.at = q * PageSize /\ g.size <= m * PageSize
        /\ q \in Nat /\ m \in Nat /\ q \in Entries \ {0}
    BY <1>1
  <2>2. q # p
    BY DEF MemoryInv, HoldersRight, p
  <2>3. EntryPages(q) = q .. q + m - 1
    BY DEF EntryPages
  <2> HIDE DEF q, m
  <2>4. EntryPages(p) \cap EntryPages(q) = {}
    BY <1>2, <2>1, <2>2 DEF MemoryInv, PagesAccounted
  <2>5. n > 0 /\ m > 0
    BY <1>2, <2>1 DEF MemoryInv, TableRight, n, m
  <2>6. q + m <= p \/ p + n <= q
    <3>1. \A k : ~(k \in EntryPages(p) /\ k \in EntryPages(q))
      BY <2>4
    <3>2. ~(q \in EntryPages(p) /\ q \in EntryPages(q))
      BY <3>1
    <3>3. ~(p \in EntryPages(p) /\ p \in EntryPages(q))
      BY <3>1
    <3> QED
      BY <1>2, <1>3, <2>1, <2>2, <2>3, <2>5, <3>2, <3>3
  <2>7. CASE q + m <= p
    <3>1. (q + m) * PageSize <= p * PageSize
      BY <1>2, <2>1, <2>7, Numbers
    <3> QED
      BY <1>2, <2>1, <3>1, Numbers
  <2>8. CASE p + n <= q
    <3>1. (p + n) * PageSize <= q * PageSize
      BY <1>2, <2>1, <2>8, Numbers
    <3> QED
      BY <1>2, <2>1, <3>1, Numbers
  <2> QED
    BY <2>6, <2>7, <2>8
<1> QED
  BY <1>4, <1>5, <1>6

(* What a caller was given lies in memory, in pages that are taken, and     *)
(* shares no byte with what another was given, until it is given back.      *)
THEOREM HoldersStayApart ==
  ASSUME OrdinaryRequests
  PROVE  MemorySpec => []HoldersApart
BY MemoryInvariant, InvKeepsApart, PTL

(* Without a request for nothing no two holders are ever given the same     *)
(* address, as alloc_inner's assertion wants it.                            *)
THEOREM NoAddressTwice ==
  ASSUME OrdinaryRequests
  PROVE  MemorySpec => []AddressesDiffer
<1>1. MemoryInv => AddressesDiffer
  BY DEF MemoryInv, HoldersRight, PageAt, AddressesDiffer
<1> QED
  BY <1>1, MemoryInvariant, PTL

-----------------------------------------------------------------------------
(* The promise of PagePool.  It counts alignments in whole pages, so those  *)
(* that are asked for must divide a page or be whole pages themselves, as   *)
(* powers of two do.                                                        *)
AlignmentsMatchPages ==
  \A ask \in Asks : PageSize % ask.align = 0 \/ ask.align % PageSize = 0

PoolTaken == {[first |-> p, count |-> alloc_table[p].size] : p \in Entries \ {0}}

(* A place fits in the pool exactly when its pages are free.                *)
LEMMA FitsIsRoom ==
  ASSUME MemoryInv, NEW first \in Nat \ {0}, NEW count \in Nat \ {0}
  PROVE  Pool!Fits(first, count) <=> Room(free, first, count)
<1> DEFINE P == first .. first + count - 1
<1>1. Pool!Fits(first, count) <=>
        /\ first + count <= MaxOffset
        /\ \A q \in Entries \ {0} : EntryPages(q) \cap P = {}
  <2>1. \A q : Pool!Pages([first |-> q, count |-> alloc_table[q].size]) = EntryPages(q)
    BY DEF Pool!Pages, EntryPages
  <2>2. (\A b \in PoolTaken : Pool!Pages(b) \cap P = {})
          <=> \A q \in Entries \ {0} : EntryPages(q) \cap P = {}
    BY <2>1 DEF PoolTaken
  <2> QED
    BY <2>2 DEF Pool!Fits, PoolTaken
<1>2. Room(free, first, count) <=>
        first + count <= MaxOffset /\ \A p \in P : p \in free
  BY DEF Room
<1>3. EntryPages(0) = {0}
  BY DEF EntryPages, MemoryInv, TableRight
<1>4. first + count <= MaxOffset => \A p \in P : p \in AllPages \ {0}
  BY Numbers DEF AllPages
<1>5. \A p \in AllPages \ {0} : p \in free <=> \A q \in Entries : p \notin EntryPages(q)
  BY DEF MemoryInv, PagesAccounted
<1> HIDE DEF P
<1>6. \A p \in AllPages \ {0} : p \in free <=> \A q \in Entries \ {0} : p \notin EntryPages(q)
  BY <1>3, <1>5
<1> QED
  BY <1>1, <1>2, <1>4, <1>6

(* The lowest place with room is the lowest fit of the pool.                *)
LEMMA LowestIsLowestRoom ==
  ASSUME MemoryInv, NEW start \in Nat \ {0}, NEW count \in Nat \ {0}, NEW f,
         LowestRoom(free, count, start, f)
  PROVE  IF f = Bitmap!None
         THEN \A first \in start .. MaxOffset : ~Pool!Fits(first, count)
         ELSE f \in start .. MaxOffset /\ Pool!Lowest(f, count, start)
<1>1. MaxOffset \in Nat
  BY Numbers
<1>2. \A first \in Nat \ {0} : Pool!Fits(first, count) <=> Room(free, first, count)
  BY FitsIsRoom
<1>3. CASE f = Bitmap!None
  <2>1. \A p \in start .. MaxOffset : ~Room(free, p, count)
    BY <1>1, <1>3 DEF LowestRoom, Bitmap!None
  <2> QED
    BY <1>1, <1>2, <1>3, <2>1
<1>4. CASE f # Bitmap!None
  <2>1. /\ f \in start .. MaxOffset - 1 /\ Room(free, f, count)
        /\ \A p \in start .. f - 1 : ~Room(free, p, count)
    BY <1>1, <1>4 DEF LowestRoom
  <2>2. f \in Nat \ {0} /\ f >= start /\ \A p \in start .. f - 1 : p \in Nat \ {0}
    BY <1>1, <2>1
  <2>3. Pool!Lowest(f, count, start)
    BY <1>2, <2>1, <2>2 DEF Pool!Lowest
  <2> QED
    BY <1>1, <1>4, <2>1, <2>3
<1> QED
  BY <1>3, <1>4

(* Rounding a page's address up to an alignment is rounding the page up to  *)
(* so many pages.                                                           *)
LEMMA AlignedInPages ==
  ASSUME NEW f \in Nat, NEW k \in Nat \ {0}
  PROVE  Aligned(f * PageSize, k * PageSize) \div PageSize = Pool!Aligned(f, k)
<1> DEFINE q == (f + k - 1) \div k
           x == f * PageSize
           a == k * PageSize
<1>1. f + k - 1 \in Nat /\ x \in Nat /\ a \in Nat \ {0}
  BY Numbers
<1>2. q \in Nat /\ q * k <= f + k - 1 /\ f + k - 1 < q * k + k
  BY <1>1, DivBounds
<1>3. x + a - 1 \in Nat
  BY <1>1
<1> HIDE DEF q
<1> DEFINE r == q * k
<1>4. r \in Nat /\ r <= f + k - 1 /\ f <= r
  BY <1>2
<1>5. q * a = r * PageSize
  BY <1>2, Numbers
<1> HIDE DEF r
<1>6. r * PageSize <= (f + k - 1) * PageSize /\ f * PageSize <= r * PageSize
  BY <1>4, Numbers
<1>7. (f + k - 1) * PageSize = x + a - PageSize
  BY Numbers
<1> HIDE DEF x, a
<1>8. q * a <= x + a - 1 /\ x + a - 1 < q * a + a
  <2>1. x <= q * a
    BY <1>5, <1>6 DEF x
  <2> QED
    BY <1>1, <1>2, <1>5, <1>6, <1>7, <2>1, Numbers
<1>9. (x + a - 1) \div a = q
  BY <1>1, <1>2, <1>3, <1>8, DivUnique
<1>10. Aligned(x, a) = r * PageSize
  BY <1>5, <1>9 DEF Aligned
<1>11. Aligned(x, a) \div PageSize = r
  BY <1>4, <1>10, Numbers, DivExact
<1>12. Pool!Aligned(f, k) = r
  BY DEF Pool!Aligned, r, q
<1> QED
  BY <1>11, <1>12 DEF x, a

(* An alignment that divides a page moves nothing.                          *)
LEMMA AlignedInside ==
  ASSUME NEW f \in Nat, NEW m \in Nat \ {0}, NEW a \in Nat \ {0}, m * a = PageSize
  PROVE  Aligned(f * PageSize, a) \div PageSize = f
<1> DEFINE g == f * m
<1>1. g \in Nat /\ f * PageSize = g * a
  BY Numbers
<1> HIDE DEF g
<1>2. g * a + a - 1 \in Nat /\ g * a <= g * a + a - 1 /\ g * a + a - 1 < g * a + a
  BY <1>1
<1>3. (g * a + a - 1) \div a = g
  BY <1>1, <1>2, DivUnique
<1>4. Aligned(f * PageSize, a) = f * PageSize
  BY <1>1, <1>3 DEF Aligned
<1> QED
  BY <1>4, Numbers, DivExact

(* Nor does an alignment of one page.                                       *)
LEMMA OneIsNoAlignment ==
  ASSUME NEW f \in Nat
  PROVE  Pool!Aligned(f, 1) = f
BY DEF Pool!Aligned

(* So the first page of a block is the aligned place of the pool.           *)
LEMMA FirstPageAligned ==
  ASSUME NEW f \in Nat, NEW a \in Nat \ {0}, PageSize % a = 0 \/ a % PageSize = 0
  PROVE  Aligned(f * PageSize, a) \div PageSize = Pool!Aligned(f, Max({1, a \div PageSize}))
<1>1. CASE a % PageSize = 0
  <2> DEFINE k == a \div PageSize
  <2>1. k \in Nat /\ k * PageSize = a
    BY <1>1, Numbers, ModZero
  <2> HIDE DEF k
  <2>2. k \in Nat \ {0}
    <3>1. k # 0
      BY <2>1, Numbers
    <3> QED
      BY <2>1, <3>1
  <2>3. Max({1, k}) = k
    <3>1. k >= 1
      BY <2>2
    <3> QED
      BY <2>2, <3>1 DEF Max
  <2>4. Aligned(f * PageSize, k * PageSize) \div PageSize = Pool!Aligned(f, k)
    BY <2>2, AlignedInPages
  <2> QED
    BY <2>1, <2>3, <2>4 DEF k
<1>2. CASE PageSize % a = 0
  <2> DEFINE m == PageSize \div a
  <2>1. m \in Nat /\ m * a = PageSize
    BY <1>2, Numbers, ModZero
  <2> HIDE DEF m
  <2>2. m \in Nat \ {0} /\ a <= PageSize
    BY <2>1, Numbers
  <2>3. a \div PageSize \in {0, 1}
    <3>1. CASE a = PageSize
      <4>1. (1 * PageSize) \div PageSize = 1
        BY Numbers, DivExact
      <4> QED
        BY <3>1, <4>1, Numbers
    <3>2. CASE a < PageSize
      <4>1. a \div PageSize = 0
        BY <3>2, Numbers, DivUnique
      <4> QED
        BY <4>1
    <3> QED
      BY <2>2, <3>1, <3>2, Numbers
  <2>4. Max({1, a \div PageSize}) = 1
    BY <2>3 DEF Max
  <2>5. Aligned(f * PageSize, a) \div PageSize = f
    BY <2>1, <2>2, AlignedInside
  <2> QED
    BY <2>4, <2>5, OneIsNoAlignment
<1> QED
  BY <1>1, <1>2

(* The blocks of the table change as those of the pool: one more,           *)
LEMMA TakingIsTaken ==
  ASSUME MemoryInv, NEW first, NEW long, Taking(first, long)
  PROVE  PoolTaken' = PoolTaken \cup {[first |-> first, count |-> long]}
<1>1. /\ Entries' \ {0} = (Entries \ {0}) \cup {first} /\ alloc_table'[first].size = long
      /\ \A p \in Entries : alloc_table'[p] = alloc_table[p]
  BY DEF Taking
<1> QED
  BY <1>1 DEF PoolTaken

(* or one less.                                                             *)
LEMMA GivingIsGiven ==
  ASSUME MemoryInv, NEW page, Giving(page)
  PROVE  PoolTaken' = PoolTaken \ {[first |-> page, count |-> alloc_table[page].size]}
<1>1. /\ Entries' \ {0} = (Entries \ {0}) \ {page}
      /\ \A p \in Entries \ {page} : alloc_table'[p] = alloc_table[p]
  BY DEF Giving
<1> QED
  BY <1>1 DEF PoolTaken

(* A call that succeeds is a Take of the pool,                              *)
LEMMA ObtainIsTake ==
  ASSUME MemoryInv, NEW ask, NEW size, Ordinary(ask, size), Obtain(ask),
         PageSize % ask.align = 0 \/ ask.align % PageSize = 0
  PROVE  Pool!Take(Request(ask))
<1> DEFINE r == Request(ask)
           f == Found(ask)
<1>1. /\ r.count = ask.count /\ r.start = ask.start \div PageSize
      /\ r.align = Max({1, ask.align \div PageSize})
  BY DEF Request
<1>2. /\ r.start \in Nat \ {0} /\ r.count \in Nat \ {0}
      /\ LowestRoom(free, r.count, r.start, f)
  BY <1>1, RefusedOrFound DEF Ordinary, AllPages
<1>3. f # Bitmap!None
  BY DEF Obtain
<1> HIDE DEF f, r
<1>4. f \in r.start .. MaxOffset /\ Pool!Lowest(f, r.count, r.start)
  BY <1>2, <1>3, LowestIsLowestRoom
<1>5. f \in Nat
  BY <1>2, <1>4, Numbers
<1>6. FirstPage(ask) = Pool!Aligned(f, r.align)
  BY <1>1, <1>5, FirstPageAligned DEF FirstPage, f, Ordinary
<1>7. Taking(FirstPage(ask), f + r.count - FirstPage(ask))
  BY <1>1, ObtainTakes DEF Obtain, f
<1>8. FirstPage(ask) \in Nat
  BY <1>7 DEF Taking, AllPages
<1>9. f + r.count - FirstPage(ask) = r.count - (FirstPage(ask) - f)
  BY <1>2, <1>5, <1>8
<1>10. PoolTaken' =
         PoolTaken \cup {[first |-> FirstPage(ask), count |-> r.count - (FirstPage(ask) - f)]}
  BY <1>7, <1>9, TakingIsTaken
<1>11. answer' = [request |-> r, page |-> FirstPage(ask)]
  BY DEF Obtain, r
<1>12. Pool!Take(r)
  BY <1>4, <1>6, <1>10, <1>11 DEF Pool!Take, PoolTaken
<1> QED
  BY <1>12 DEF r

(* one that fails is a Refuse,                                              *)
LEMMA FailIsRefuse ==
  ASSUME MemoryInv, NEW ask, NEW size, Ordinary(ask, size), Fail(ask)
  PROVE  Pool!Refuse(Request(ask))
<1> DEFINE r == Request(ask)
           f == Found(ask)
<1>1. r.count = ask.count /\ r.start = ask.start \div PageSize
  BY DEF Request
<1>2. /\ r.start \in Nat \ {0} /\ r.count \in Nat \ {0}
      /\ LowestRoom(free, r.count, r.start, f)
  BY <1>1, RefusedOrFound DEF Ordinary, AllPages
<1>3. f = Bitmap!None /\ answer' = [request |-> r, page |-> 0] /\ PoolTaken' = PoolTaken
  BY DEF Fail, PoolTaken, Entries
<1> HIDE DEF f, r
<1>4. \A first \in r.start .. MaxOffset : ~Pool!Fits(first, r.count)
  BY <1>2, <1>3, LowestIsLowestRoom
<1> QED
  BY <1>3, <1>4 DEF Pool!Refuse, PoolTaken, r

(* one that frees is a Give,                                                *)
LEMMA FreeIsGive ==
  ASSUME MemoryInv, NEW h \in Holders, FreePages(h.at)
  PROVE  \E block \in PoolTaken : Pool!Give(block)
<1> DEFINE p == PageAt(h)
           block == [first |-> p, count |-> alloc_table[p].size]
<1>1. p \in Entries \ {0}
  BY DEF MemoryInv, PagesAccounted, PageAt
<1>2. Giving(p)
  BY <1>1, FreeGives DEF PageAt
<1>3. block \in PoolTaken
  BY <1>1 DEF PoolTaken
<1>4. PoolTaken' = PoolTaken \ {block} /\ answer' = answer
  BY <1>2, GivingIsGiven DEF FreePages
<1> QED
  BY <1>3, <1>4 DEF Pool!Give, PoolTaken

(* and free(NULL) is nothing.                                               *)
LEMMA FreeNullIsNothing ==
  ASSUME MemoryInv, LibcFreeNull
  PROVE  PoolTaken' = PoolTaken /\ answer' = answer
<1>1. 0 \div PageSize = 0
  BY Numbers
<1>2. Giving(0)
  BY <1>1, FreeGives DEF LibcFreeNull
<1>3. [first |-> 0, count |-> alloc_table[0].size] \notin PoolTaken
  BY DEF PoolTaken
<1> QED
  BY <1>2, <1>3, GivingIsGiven DEF LibcFreeNull, FreePages

(* The allocator implements PagePool: each successful call is one Take of   *)
(* the lowest fit, each failure a Refuse that was due, each free() one Give *)
(* of just what had been taken, and free(NULL) changes nothing.             *)
THEOREM AllocatorIsPagePool ==
  ASSUME OrdinaryRequests, AlignmentsMatchPages
  PROVE  MemorySpec => PoolPromise
<1> DEFINE Done == [Pool!Next]_<<PoolTaken, answer>>
<1>1. MemoryInit => Pool!Init
  <2> SUFFICES ASSUME MemoryInit PROVE Pool!Init
    OBVIOUS
  <2>1. Entries \ {0} = {}
    BY Numbers DEF MemoryInit, Vacant, Entries, AllPages
  <2> QED
    BY <2>1 DEF Pool!Init, MemoryInit
<1>2. MemoryInv /\ [MemoryNext]_memoryVars => Done
  <2> SUFFICES ASSUME MemoryInv, [MemoryNext]_memoryVars PROVE Done
    OBVIOUS
  <2>1. ASSUME NEW ask \in Asks, NEW size, Ordinary(ask, size), Obtain(ask) \/ Fail(ask)
        PROVE  Done
    <3>1. Pool!Take(Request(ask)) \/ Pool!Refuse(Request(ask))
      BY <2>1, ObtainIsTake, FailIsRefuse DEF AlignmentsMatchPages
    <3> QED
      BY <2>1, <3>1 DEF Pool!Next
  <2>2. ASSUME NEW size \in Sizes, Malloc(size) PROVE Done
    <3>1. Plain(size) \in Asks /\ (Obtain(Plain(size)) \/ Fail(Plain(size)))
      BY <2>2 DEF Malloc, Asks
    <3> QED
      BY <2>1, <3>1, PlainOrdinary
  <2>3. ASSUME NEW alignment \in Alignments, NEW size \in Sizes, Memalign(alignment, size)
        PROVE  Done
    <3> DEFINE ask == Roomy(size, alignment, UserStart)
    <3>1. ask \in Asks /\ (Obtain(ask) \/ Fail(ask))
      BY <2>3 DEF Memalign, Asks
    <3>2. Ordinary(ask, size)
      BY MemalignOrdinary
    <3> QED
      BY <2>1, <3>1, <3>2
  <2>4. ASSUME NEW type \in BlockTypes, NEW size \in BlockSizes, NEW alignment \in Alignments,
               AllocMemBlock(type, size, alignment)
        PROVE  Done
    <3> DEFINE ask == Roomy(size, BlockAlignment(type, size, alignment), TypeStart[type])
    <3>1. ask \in Asks /\ (Obtain(ask) \/ Fail(ask))
      BY <2>4 DEF AllocMemBlock, Asks
    <3>2. Ordinary(ask, size)
      BY BlockOrdinary
    <3> QED
      BY <2>1, <3>1, <3>2
  <2>5. ASSUME NEW h \in Holders, FreePages(h.at) PROVE Done
    BY <2>5, FreeIsGive DEF Pool!Next, PoolTaken
  <2>6. \A h : (h \in held => h \in Holders) /\ (h \in blocks => h \in Holders)
    BY DEF Holders
  <2>7. ASSUME NEW h \in held, LibcFree(h) PROVE Done
    BY <2>5, <2>6, <2>7 DEF LibcFree
  <2>8. ASSUME NEW b \in blocks, FreeMemBlock(b) PROVE Done
    BY <2>5, <2>6, <2>8 DEF FreeMemBlock
  <2>9. CASE LibcFreeNull
    BY <2>9, FreeNullIsNothing
  <2>10. CASE UNCHANGED memoryVars
    BY <2>10 DEF memoryVars, PoolTaken, Entries
  <2> QED
    BY <2>2, <2>3, <2>4, <2>7, <2>8, <2>9, <2>10 DEF MemoryNext
<1>3. MemoryInv /\ [MemoryNext]_memoryVars => [Pool!Next]_<<PoolTaken, answer>>
  BY <1>2
<1> QED
  BY <1>1, <1>3, MemoryInvariant, PTL DEF MemorySpec, PoolPromise, Pool!Spec, PoolTaken
=============================================================================
