---------------------------- MODULE DisplayVblank ----------------------------
(***************************************************************************)
(* The display's clock: a host thread that counts vblanks, takes a touch   *)
(* sample, notifies the application's callbacks and wakes the guest threads*)
(* whose time has come, all under display.mutex; and the guest threads that*)
(* wait for it (display.cpp, SceDisplay.cpp), read the touch screen        *)
(* (touch.cpp) and run their callbacks (callback.cpp).                     *)
(*                                                                         *)
(* A callback's function is taken to make no call of these itself, and one *)
(* thread to read the touch screen, of which one port is modelled.  Walks  *)
(* over display.vblank_callbacks outside display.mutex are taken not to    *)
(* meet a change of that map.                                              *)
(***************************************************************************)
EXTENDS Naturals, Sequences, FiniteSets, FiniteSetsExt

CONSTANTS
  Threads,     (* guest threads                                             *)
  Users,       (* those that wait for vblanks and register callbacks        *)
  Notifiers,   (* those that notify and cancel callbacks                    *)
  Reader,      (* the one that reads the touch screen                       *)
  Callbacks,   (* callbacks that are created                                *)
  Owner,       (* the thread that created each of them                      *)
  VCounts,     (* how many vblanks guests wait for; {1} with fps_hack       *)
  BufCounts,   (* how many samples guests ask for                           *)
  Slots,       (* MAX_TOUCH_BUFFER_SAVED                                    *)
  MaxCount,    (* bound: vblanks                                            *)
  MaxOwed      (* bound: guests notify while fewer notifications are owed   *)

ASSUME DisplayVblankAssumption ==
  /\ Users \subseteq Threads /\ Notifiers \subseteq Threads
  /\ Reader \in Threads /\ Owner \in [Callbacks -> Threads]
  /\ VCounts \subseteq Nat \ {0} /\ Slots \in Nat \ {0} /\ BufCounts \subseteq 1..Slots
  /\ MaxCount \in Nat /\ MaxOwed \in Nat

VARIABLES
  vblankCount, lastSetFrame,  (* DisplayState::vblank_count, last_setframe_vblank_count *)
  waitInfos,   (* DisplayState::vblank_wait_infos; its order does not matter *)
  registered,  (* the keys of DisplayState::vblank_callbacks                *)
  vblank,      (* where the vblank thread is; it holds display.mutex unless idle *)
  left,        (* the callbacks it has not notified yet                     *)
  buffers, index, lastRead,   (* touch_buffers, touch_buffer_idx, last_vcount *)
  status,      (* ThreadState::status                                       *)
  lastWaited,  (* ThreadState::last_vblank_waited                           *)
  step,        (* where a guest thread is                                   *)
  want,        (* what its call is about                                    *)
  toRun,       (* the callbacks its call has not come to                    *)
  samples,     (* what a read is about to return                            *)
  slept,       (* history: the vblank that read slept for, or 0             *)
  dropped,     (* history: cancelled, run or registered since the vblank began *)
  live, notified, running, args, owed     (* see KernelCallback             *)

clock == <<vblankCount, lastSetFrame>>
tick == <<vblank, left>>
touch == <<buffers, index, lastRead>>
read == <<samples, slept>>
waiter == <<status, lastWaited, step, want, toRun>>
callback == <<live, notified, running, args, owed>>
vblankVars == <<clock, waitInfos, registered, tick, touch, waiter, read, dropped, callback>>

Callback == INSTANCE KernelCallback

Counts == 0..MaxCount
Idle == [then |-> "return", target |-> 0, n |-> 0]

VblankTypeOK ==
  /\ vblankCount \in Counts /\ lastSetFrame \in Counts
  /\ waitInfos \subseteq [thread : Threads, target : Counts]
  /\ registered \subseteq Callbacks /\ left \subseteq Callbacks
  /\ vblank \in {"idle", "sample", "index", "notify", "ended"}
  /\ buffers \in [0..(Slots - 1) -> Counts] /\ index \in 0..(Slots - 1) /\ lastRead \in Counts
  /\ status \in [Threads -> {"run", "wait"}] /\ lastWaited \in [Threads -> Counts]
  /\ step \in [Threads -> {"idle", "enter", "look", "block", "asleep", "count", "copy", "copied",
                         "callbacks"}]
  /\ want \in [Threads -> [then : {"return", "callbacks", "read"}, target : Counts,
                           n : 0..Slots]]
  /\ toRun \in [Threads -> SUBSET Callbacks]
  /\ samples \in Seq(Counts) /\ slept \in Counts /\ dropped \subseteq Callbacks
  /\ live \subseteq Callbacks /\ running \subseteq Callbacks
  /\ notified \in [Callbacks -> Nat] /\ args \in [Callbacks -> Nat]

-----------------------------------------------------------------------------
Move(t, label) == step' = [step EXCEPT ![t] = label]
Answer(t) == Move(t, "idle") /\ want' = [want EXCEPT ![t] = Idle]
Mine(t) == {c \in Callbacks : Owner[c] = t}

(* Nobody is in the middle of a walk over display.vblank_callbacks.         *)
NobodyWalks == \A t \in Threads : step[t] # "callbacks"

VblankInit ==
  /\ vblankCount = 0 /\ lastSetFrame = 0 /\ waitInfos = {}
  /\ registered = {} /\ vblank = "idle" /\ left = {}
  /\ buffers = [s \in 0..(Slots - 1) |-> 0] /\ index = 0 /\ lastRead = 0
  /\ status = [t \in Threads |-> "run"] /\ lastWaited = [t \in Threads |-> 0]
  /\ step = [t \in Threads |-> "idle"] /\ want = [t \in Threads |-> Idle]
  /\ toRun = [t \in Threads |-> {}]
  /\ samples = <<>> /\ slept = 0 /\ dropped = {}
  /\ Callback!Create

-----------------------------------------------------------------------------
(* vblank_sync_thread.                                                      *)

CountVblank ==
  /\ vblank = "idle" /\ vblankCount < MaxCount
  /\ vblankCount' = vblankCount + 1 /\ vblank' = "sample" /\ dropped' = {}
  /\ UNCHANGED <<lastSetFrame, waitInfos, registered, left, touch, waiter, read, callback>>

(* Mutant of TakeSample: the sample goes where the index points.            *)
TakeSampleHere ==
  /\ vblank = "sample" /\ vblank' = "index"
  /\ buffers' = [buffers EXCEPT ![index] = vblankCount]
  /\ UNCHANGED <<clock, waitInfos, registered, left, index, lastRead, waiter, read, dropped,
                 callback>>

(* touch_vsync_update: the slot after the newest one, then the index.       *)
TakeSample ==
  /\ vblank = "sample" /\ vblank' = "index"
  /\ buffers' = [buffers EXCEPT ![(index + 1) % Slots] = vblankCount]
  /\ UNCHANGED <<clock, waitInfos, registered, left, index, lastRead, waiter, read, dropped,
                 callback>>

AdvanceIndex ==
  /\ vblank = "index" /\ vblank' = "notify" /\ left' = registered
  /\ index' = (index + 1) % Slots
  /\ UNCHANGED <<clock, waitInfos, registered, buffers, lastRead, waiter, read, dropped,
                 callback>>

(* event_notify, one callback after the other; it waits while one runs.     *)
NotifyCallback(c) ==
  /\ vblank = "notify" /\ c \in left /\ Callback!Notify(c)
  /\ left' = left \ {c}
  /\ UNCHANGED <<clock, waitInfos, registered, vblank, touch, waiter, read, dropped>>

Due == {info \in waitInfos : info.target <= vblankCount}
Woken == {info.thread : info \in Due}

(* Mutants of WakeWaiters: before the callbacks are notified; whoever waits.*)
WakeFirst ==
  /\ vblank = "notify" /\ vblank' = IF left = {} THEN "idle" ELSE vblank
  /\ waitInfos' = waitInfos \ Due
  /\ status' = [t \in Threads |-> IF t \in Woken THEN "run" ELSE status[t]]
  /\ step' = [t \in Threads |-> IF t \in Woken /\ step[t] = "asleep" THEN "look" ELSE step[t]]
  /\ UNCHANGED <<clock, registered, left, touch, lastWaited, want, toRun, read, dropped, callback>>
WakeAll ==
  /\ vblank = "notify" /\ left = {} /\ vblank' = "idle"
  /\ waitInfos' = {}
  /\ status' = [t \in Threads |-> "run"]
  /\ step' = [t \in Threads |-> IF step[t] = "asleep" THEN "look" ELSE step[t]]
  /\ UNCHANGED <<clock, registered, left, touch, lastWaited, want, toRun, read, dropped, callback>>

(* update_status(run) for everyone whose time has come, without the thread's*)
(* own mutex: who is between its look at the status and its sleep misses it.*)
WakeWaiters ==
  /\ vblank = "notify" /\ left = {} /\ vblank' = "idle"
  /\ waitInfos' = waitInfos \ Due
  /\ status' = [t \in Threads |-> IF t \in Woken THEN "run" ELSE status[t]]
  /\ step' = [t \in Threads |-> IF t \in Woken /\ step[t] = "asleep" THEN "look" ELSE step[t]]
  /\ UNCHANGED <<clock, registered, left, touch, lastWaited, want, toRun, read, dropped, callback>>

(* The emulator quits.                                                      *)
Abort ==
  /\ vblank = "idle" /\ vblank' = "ended"
  /\ UNCHANGED <<clock, waitInfos, registered, left, touch, waiter, read, dropped, callback>>

-----------------------------------------------------------------------------
(* Waiting: display_wait and wait_vblank.                                   *)

LaterOf(x, y) == IF x < y THEN y ELSE x

(* Mutant of Target: the pace counts from the call.                         *)
TargetFromCall(t, n, sinceSetBuf) ==
  IF sinceSetBuf THEN lastSetFrame + n ELSE vblankCount + 1 + n

(* What the call waits for: n vblanks after the last sceDisplaySetFrameBuf, *)
(* or after what the thread last waited for, but one from now at least.     *)
Target(t, n, sinceSetBuf) ==
  IF sinceSetBuf THEN lastSetFrame + n ELSE LaterOf(vblankCount + 1, lastWaited[t] + n)

(* sceDisplayWaitVblankStart and sceDisplayWaitSetFrameBuf, their Multi and *)
(* CB forms.  No lock is held.                                              *)
DisplayWait(t, n, sinceSetBuf, cb) ==
  LET target == Target(t, n, sinceSetBuf)
  IN /\ step[t] = "idle" /\ target <= MaxCount
     /\ lastWaited' = IF sinceSetBuf THEN lastWaited ELSE [lastWaited EXCEPT ![t] = target]
     /\ want' = [want EXCEPT ![t] = [then |-> IF cb THEN "callbacks" ELSE "return",
                                     target |-> target, n |-> 0]]
     /\ Move(t, "enter")
     /\ UNCHANGED <<clock, waitInfos, registered, tick, touch, status, toRun, read, dropped,
                    callback>>

DisplayFree == vblank \in {"idle", "ended"}

GoOnReading ==
  Move(Reader, "count") /\ want' = [want EXCEPT ![Reader] = [Idle EXCEPT !.n = want[Reader].n]]

(* wait_vblank under display.mutex: too late, which skips the callbacks, or *)
(* listed.                                                                  *)
Enter(t) ==
  /\ step[t] = "enter" /\ DisplayFree
  /\ IF want[t].target <= vblankCount
     THEN /\ IF want[t].then = "read" THEN GoOnReading ELSE Answer(t)
          /\ UNCHANGED <<status, waitInfos>>
     ELSE /\ status' = [status EXCEPT ![t] = "wait"]
          /\ waitInfos' = waitInfos \cup {[thread |-> t, target |-> want[t].target]}
          /\ Move(t, "look") /\ UNCHANGED want
  /\ UNCHANGED <<clock, registered, tick, touch, lastWaited, toRun, read, dropped, callback>>

(* The look at the status, with the thread's mutex; then the thread blocks, *)
(* or goes on with its callbacks, if the call has the CB form.              *)
Look(t) ==
  /\ step[t] = "look"
  /\ IF status[t] = "wait" THEN Move(t, "block") /\ UNCHANGED <<want, toRun, slept>>
     ELSE CASE want[t].then = "return" -> Answer(t) /\ UNCHANGED <<toRun, slept>>
            [] want[t].then = "read" ->
                 GoOnReading /\ slept' = want[t].target /\ UNCHANGED toRun
            [] want[t].then = "callbacks" ->
                 /\ Move(t, "callbacks") /\ want' = [want EXCEPT ![t] = Idle]
                 /\ toRun' = [toRun EXCEPT ![t] = registered \cap Mine(t)] /\ UNCHANGED slept
  /\ UNCHANGED <<clock, waitInfos, registered, tick, touch, status, lastWaited, samples, dropped,
                 callback>>

(* The second half of status_cond.wait.                                     *)
Block(t) ==
  /\ step[t] = "block" /\ Move(t, "asleep")
  /\ UNCHANGED <<clock, waitInfos, registered, tick, touch, status, lastWaited, want, toRun,
                 read, dropped, callback>>

(* sceDisplaySetFrameBuf.                                                   *)
SetFrameBuf(t) ==
  /\ step[t] = "idle" /\ lastSetFrame' = vblankCount
  /\ UNCHANGED <<vblankCount, waitInfos, registered, tick, touch, waiter, read, dropped, callback>>

-----------------------------------------------------------------------------
(* Callbacks.                                                               *)

(* sceDisplayRegisterVblankStartCallback and its opposite.                  *)
Register(t, c) ==
  /\ step[t] = "idle" /\ c \in live /\ DisplayFree /\ NobodyWalks
  /\ registered' = registered \cup {c} /\ dropped' = dropped \cup {c}
  /\ UNCHANGED <<clock, waitInfos, tick, touch, waiter, read, callback>>

Unregister(t, c) ==
  /\ step[t] = "idle" /\ c \in registered /\ DisplayFree /\ NobodyWalks
  /\ registered' = registered \ {c}
  /\ UNCHANGED <<clock, waitInfos, tick, touch, waiter, read, dropped, callback>>

(* sceKernelCheckCallback (process_callbacks).                              *)
CheckCallback(t) ==
  /\ step[t] = "idle" /\ Move(t, "callbacks")
  /\ toRun' = [toRun EXCEPT ![t] = live \cap Mine(t)]
  /\ UNCHANGED <<clock, waitInfos, registered, tick, touch, status, lastWaited, want, read,
                 dropped, callback>>

(* The walk: a callback without notifications is passed over.               *)
RunCallback(t) ==
  /\ step[t] = "callbacks" /\ Mine(t) \cap running = {}
  /\ \E c \in toRun[t] :
       /\ Callback!NotDue(c) \/ Callback!Execute(c)
       /\ toRun' = [toRun EXCEPT ![t] = @ \ {c}]
  /\ UNCHANGED <<clock, waitInfos, registered, tick, touch, status, lastWaited, step, want, read,
                 dropped>>

CallbackReturns(t) ==
  /\ \E c \in Mine(t) : Callback!Return(c) /\ dropped' = dropped \cup {c}
  /\ UNCHANGED <<clock, waitInfos, registered, tick, touch, waiter, read>>

WalkOver(t) ==
  /\ step[t] = "callbacks" /\ toRun[t] = {} /\ Mine(t) \cap running = {} /\ Answer(t)
  /\ UNCHANGED <<clock, waitInfos, registered, tick, touch, status, lastWaited, toRun, read,
                 dropped, callback>>

(* sceKernelNotifyCallback, -CancelCallback and -DeleteCallback.  The owner *)
(* deletes, for others would meet its walk over its list.                   *)
NotifyByGuest(t, c) ==
  /\ step[t] = "idle" /\ c \in live /\ owed[c] < MaxOwed /\ Callback!Notify(c)
  /\ UNCHANGED <<clock, waitInfos, registered, tick, touch, waiter, read, dropped>>

CancelByGuest(t, c) ==
  /\ step[t] = "idle" /\ Callback!Cancel(c) /\ dropped' = dropped \cup {c}
  /\ UNCHANGED <<clock, waitInfos, registered, tick, touch, waiter, read>>

DeleteByGuest(t, c) ==
  /\ step[t] = "idle" /\ Owner[c] = t /\ Callback!Delete(c)
  /\ UNCHANGED <<clock, waitInfos, registered, tick, touch, waiter, read, dropped>>

-----------------------------------------------------------------------------
(* touch_get for sceTouchRead; sceCtrlRead waits in the same way.           *)

(* No lock is held: neither here nor later on.                              *)
TouchRead(n) ==
  /\ step[Reader] = "idle" /\ lastRead < MaxCount
  /\ \/ /\ vblankCount <= lastRead /\ Move(Reader, "enter")
        /\ want' = [want EXCEPT ![Reader] = [then |-> "read", target |-> lastRead + 1, n |-> n]]
     \/ /\ vblankCount > lastRead /\ Move(Reader, "count")
        /\ want' = [want EXCEPT ![Reader].n = n]
  /\ UNCHANGED <<clock, waitInfos, registered, tick, touch, status, lastWaited, toRun, read,
                 dropped, callback>>

TakeCount ==
  /\ step[Reader] = "count" /\ lastRead' = vblankCount
  /\ want' = [want EXCEPT ![Reader].n = IF @ < vblankCount - lastRead THEN @
                                        ELSE vblankCount - lastRead]
  /\ Move(Reader, "copy")
  /\ UNCHANGED <<clock, waitInfos, registered, tick, buffers, index, status, lastWaited, toRun,
                 read, dropped, callback>>

(* The newest n slots, the oldest of them first.  They are copied in a step:*)
(* the slot that changes next is Slots vblanks old.                         *)
CopySamples ==
  LET n == want[Reader].n
  IN /\ step[Reader] = "copy"
     /\ samples' = [i \in 1..n |-> buffers[(index + Slots - n + i) % Slots]]
     /\ Move(Reader, "copied")
     /\ UNCHANGED <<clock, waitInfos, registered, tick, touch, status, lastWaited, want, toRun,
                    slept, dropped, callback>>

ReadReturns ==
  /\ step[Reader] = "copied" /\ Answer(Reader) /\ samples' = <<>> /\ slept' = 0
  /\ UNCHANGED <<clock, waitInfos, registered, tick, touch, status, lastWaited, toRun, dropped,
                 callback>>

-----------------------------------------------------------------------------
Vblank ==
  \/ CountVblank \/ TakeSample \/ AdvanceIndex \/ WakeWaiters
  \/ \E c \in Callbacks : NotifyCallback(c)

VblankCalls(t) ==
  \/ /\ t \in Users
     /\ \/ \E n \in VCounts, sinceSetBuf, cb \in BOOLEAN : DisplayWait(t, n, sinceSetBuf, cb)
        \/ SetFrameBuf(t) \/ CheckCallback(t)
        \/ \E c \in Callbacks : Register(t, c) \/ Unregister(t, c) \/ DeleteByGuest(t, c)
  \/ t \in Notifiers /\ \E c \in Callbacks : NotifyByGuest(t, c) \/ CancelByGuest(t, c)
  \/ t = Reader /\ \E n \in BufCounts : TouchRead(n)

VblankCallGoesOn(t) ==
  \/ Enter(t) \/ Look(t) \/ Block(t) \/ RunCallback(t) \/ CallbackReturns(t) \/ WalkOver(t)
  \/ t = Reader /\ (TakeCount \/ CopySamples \/ ReadReturns)

VblankNext == Vblank \/ Abort \/ \E t \in Threads : VblankCalls(t) \/ VblankCallGoesOn(t)

(* The vblank thread is scheduled, and gets a callback's mutex, all it ever *)
(* waits for, if that is free again and again; a callback's function returns.*)
VblankFairness ==
  /\ SF_vblankVars(Vblank)
  /\ \A c \in Callbacks : WF_vblankVars(CallbackReturns(Owner[c]))

VblankSpec == VblankInit /\ [][VblankNext]_vblankVars /\ VblankFairness

-----------------------------------------------------------------------------
(* Properties.                                                              *)

(* A wait is no longer than asked (display_wait counts from the last wait,  *)
(* whose vblank is over when the thread calls again), and once a vblank is  *)
(* dealt with nobody whose time has come is left in the list.               *)
WaitsInTime ==
  \A info \in waitInfos :
    /\ \E n \in VCounts \cup {1} : info.target <= vblankCount + n
    /\ DisplayFree => info.target > vblankCount

(* No wait ends before the vblank it is for, although vblank_count and      *)
(* last_vblank_waited are read without a lock (SceDisplay.cpp: "we still    *)
(* need to wait at least for one vblank").                                  *)
Waits(t) == step[t] \in {"enter", "look", "block", "asleep"}
WaitsLongEnough ==
  [][\A t \in Threads : Waits(t) /\ ~Waits(t)' => vblankCount >= want[t].target]_vblankVars

(* Every notification of a callback, by vblank or by guest, is delivered,   *)
(* cancelled or still counted: none is lost while the callback runs.        *)
NotificationsKept == \A c \in Callbacks : owed[c] = notified[c]

(* Who wakes for a vblank in the CB form finds its registered callbacks     *)
(* notified of it (vblank_sync_thread notifies before it wakes).            *)
NotifiedBeforeWake ==
  [][\A t \in Threads : status[t] = "wait" /\ status'[t] = "run" =>
       \A c \in registered \cap Mine(t) : notified[c] > 0 \/ c \in dropped]_vblankVars

(* A read of the touch screen returns the samples of consecutive vblanks,   *)
(* the oldest first, and if it slept, up to that of the vblank it slept for *)
(* (touch_get: "wait for the next vsync for the buffer to be updated").     *)
SamplesRight ==
  samples # <<>> =>
    /\ Len(samples) < Slots =>
         \A i \in 1..(Len(samples) - 1) : samples[i + 1] = samples[i] + 1
    /\ samples[Len(samples)] >= slept

(* Whoever is in the list is woken, however long the callbacks take.        *)
ListedAreWoken ==
  \A t \in Threads :
    LET listed == \E info \in waitInfos : info.thread = t
    IN listed ~> (~listed \/ vblank = "ended")
=============================================================================
