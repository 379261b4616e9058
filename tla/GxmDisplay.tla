----------------------------- MODULE GxmDisplay -----------------------------
(***************************************************************************)
(* Frames on their way to the screen: guest threads that call SceGxm, the  *)
(* renderer that works off their command lists, and the display thread     *)
(* that runs the application's callback for every entry of the display     *)
(* queue.  What keeps them in step is one sync object per frame buffer:    *)
(* timestamp_ahead counts what was asked, timestamp_current what is done.  *)
(*                                                                         *)
(* The guest is taken to use one buffer from one thread at a time (from    *)
(* the start of a call, or of a scene, to its return).  One immediate      *)
(* context; drawing without a sync object and pixel work are left out.     *)
(***************************************************************************)
EXTENDS Naturals, Sequences, FiniteSets, FiniteSetsExt

CONSTANTS
  Drawers,       (* guest threads that draw                                 *)
  Presenters,    (* guest threads that fill the display queue               *)
  Drainers,      (* guest threads that wait for it to be empty              *)
  Display,       (* the host thread of display_entry_thread                 *)
  Buffers,       (* sync objects, one per frame buffer                      *)
  MaxPending,    (* displayQueueMaxPendingCount of sceGxmInitialize         *)
  MaxCommands,   (* maxPendingCount_ of the renderer's queue                *)
  MaxWork        (* bound: how much the guests ask of all buffers           *)

ASSUME GxmDisplayAssumption ==
  /\ Display \notin Drawers \cup Presenters \cup Drainers /\ Buffers # {}
  /\ MaxPending \in Nat \ {0} /\ MaxCommands \in Nat \ {0} /\ MaxWork \in Nat

(* A thread may do more than one of the three.                              *)
Guests == Drawers \cup Presenters \cup Drainers

VARIABLES
  items, aborted, at,  (* gxm.display_queue                                 *)
  commands,      (* the renderer's command_buffer_queue                     *)
  work,          (* commands left of the list the renderer is at            *)
  requests,      (* what the thread that waits for fences has to signal     *)
  accurate,      (* high_accuracy: signals go by way of that thread         *)
  ahead, current, lastDisplay,    (* SceGxmSyncObject                       *)
  pc,            (* where a guest thread is                                 *)
  call,          (* what its call is about                                  *)
  lists,         (* command lists its call has still to submit              *)
  host,          (* where the display thread is                             *)
  entry,         (* display_callback                                        *)
  vita,          (* the guest thread that runs the callback                 *)
  asked, begun, finished          (* history: see FramePromise              *)

queue == <<items, aborted, at>>
renderer == <<commands, work, requests, accurate>>
sync == <<ahead, current, lastDisplay>>
guest == <<pc, call, lists>>
display == <<host, entry, vita>>
history == <<asked, begun, finished>>
vars == <<queue, renderer, sync, guest, display, history>>

Stamps == Nat
Entries == [old : Buffers, new : Buffers, oldStamp : Stamps, newStamp : Stamps]
Commands == [op : {"wait", "draw", "signal", "other"}, buffer : Buffers, stamp : Stamps]

(* The last frame is out of the queue, and at most three are on their way.  *)
QueueSize == IF MaxPending >= 3 THEN 2 ELSE 1

DisplayQueue == INSTANCE HostQueue WITH Callers <- Guests \cup {Display}, Capacity <- QueueSize
Fifo == INSTANCE BoundedFifo WITH
          Capacity <- QueueSize, inside <- items, open <- ~aborted
Promise == INSTANCE FramePromise

Vitas == [status : {"dormant", "run"}, toDo : {"wait", "run", "remove"}, alive : BOOLEAN]

TypeOK ==
  /\ items \in Seq(Entries) /\ aborted \in BOOLEAN
  /\ at \in [Guests \cup {Display} -> DisplayQueue!Places]
  /\ commands \in Seq(Seq(Commands)) /\ Len(commands) <= MaxCommands
  /\ work \in Seq(Commands) /\ requests \in Seq(Commands) /\ accurate \in BOOLEAN
  /\ ahead \in [Buffers -> Stamps] /\ current \in [Buffers -> Stamps]
  /\ lastDisplay \in [Buffers -> Stamps]
  /\ pc \in [Guests -> {"idle", "scene", "stamp", "enqueue", "newFrame", "submit",
                        "transfer", "drain", "terminate", "abort", "kill"}]
  /\ call \in [Guests -> Entries] /\ lists \in [Guests -> Seq(Seq(Commands))]
  /\ host \in {"none", "top", "pop", "start", "callback", "signal", "ended"}
  /\ entry \in Entries /\ vita \in Vitas
  /\ asked \in [Buffers -> Seq({"draw", "flip"})]
  /\ begun \in [Buffers -> SUBSET Stamps] /\ finished \in [Buffers -> SUBSET Stamps]

-----------------------------------------------------------------------------
Command(op, b, stamp) == [op |-> op, buffer |-> b, stamp |-> stamp]
AboutOne(b, stamp) == [old |-> b, new |-> b, oldStamp |-> stamp, newStamp |-> stamp]
AnyEntry == AboutOne(CHOOSE b \in Buffers : TRUE, 0)

Goto(g, label) == pc' = [pc EXCEPT ![g] = label]
Return(g) == Goto(g, "idle") /\ call' = [call EXCEPT ![g] = AnyEntry]

(* The buffers a guest thread is in the middle of using.                    *)
Using(g) ==
  IF pc[g] \in {"scene", "stamp", "enqueue", "newFrame", "submit", "transfer"}
  THEN {call[g].old, call[g].new} ELSE {}
Free(b) == \A g \in Guests : b \notin Using(g)
Unstamped(b) == \E g \in Guests : b \in Using(g) /\ pc[g] \in {"scene", "stamp", "transfer"}
Room(B) ==
  LET Work(b) == Len(asked[b]) + IF Unstamped(b) THEN 1 ELSE 0
  IN MapThenSumSet(Work, Buffers) + Cardinality(B) <= MaxWork

(* ++timestamp_ahead, and what the history makes of it.                     *)
Ahead(B) == ahead' = [b \in Buffers |-> IF b \in B THEN ahead[b] + 1 ELSE ahead[b]]
Ask(B, kind) ==
  asked' = [b \in Buffers |-> IF b \in B THEN Append(asked[b], kind) ELSE asked[b]]
Mark(log, B, stamp(_)) ==
  [b \in Buffers |-> IF b \in B THEN log[b] \cup {stamp(b)} ELSE log[b]]

Init ==
  /\ DisplayQueue!Create
  /\ commands = <<>> /\ work = <<>> /\ requests = <<>> /\ accurate \in BOOLEAN
  /\ ahead = [b \in Buffers |-> 0] /\ current = ahead /\ lastDisplay = ahead
  /\ pc = [g \in Guests |-> "idle"] /\ call = [g \in Guests |-> AnyEntry]
  /\ lists = [g \in Guests |-> <<>>]
  /\ host = "none" /\ entry = AnyEntry
  /\ vita = [status |-> "dormant", toDo |-> "wait", alive |-> FALSE]
  /\ asked = [b \in Buffers |-> <<>>]
  /\ begun = [b \in Buffers |-> {}] /\ finished = begun

-----------------------------------------------------------------------------
(* SceGxm: what the guest calls.                                            *)

(* sceGxmInitialize: the thread for the callbacks, the queue reset, and the *)
(* display thread.  Once: what a second one meets is told in the README.    *)
Initialize(g) ==
  /\ pc[g] = "idle" /\ host = "none"
  /\ DisplayQueue!Reset
  /\ host' = "top" /\ vita' = [vita EXCEPT !.alive = TRUE]
  /\ UNCHANGED <<renderer, sync, guest, entry, history>>

Running == host # "none" /\ ~aborted
Starts(g, B) == pc[g] = "idle" /\ Running /\ Room(B) /\ \A b \in B : Free(b)

(* sceGxmBeginScene: the list begins with a wait for the last flip of the   *)
(* buffer.  context->state.active allows one scene at a time.               *)
BeginScene(g, b) ==
  /\ Starts(g, {b}) /\ \A h \in Guests : pc[h] # "scene"
  /\ call' = [call EXCEPT ![g] = AboutOne(b, lastDisplay[b])] /\ Goto(g, "scene")
  /\ UNCHANGED <<queue, renderer, sync, lists, display, history>>

(* sceGxmEndScene: the scene and its signal are one list.                   *)
EndScene(g) ==
  LET b == call[g].old
      p == ahead[b] + 1
      scene == <<Command("wait", b, call[g].oldStamp), Command("draw", b, p),
                 Command("signal", b, p)>>
  IN /\ pc[g] = "scene"
     /\ Ahead({b}) /\ Ask({b}, "draw")
     /\ lists' = [lists EXCEPT ![g] = <<scene>>]
     /\ Goto(g, "submit")
     /\ UNCHANGED <<queue, renderer, current, lastDisplay, call, display, begun, finished>>

(* sceGxmTransferCopy, -Downscale and -Fill: three lists of one command,    *)
(* the time stamp taken once the first is submitted.                        *)
Transfer(g, b) ==
  /\ Starts(g, {b})
  /\ call' = [call EXCEPT ![g] = AboutOne(b, lastDisplay[b])]
  /\ lists' = [lists EXCEPT ![g] = << <<Command("wait", b, lastDisplay[b])>> >>]
  /\ Goto(g, "transfer")
  /\ UNCHANGED <<queue, renderer, sync, display, history>>

TransferStamp(g) ==
  LET b == call[g].old
      p == ahead[b] + 1
  IN /\ pc[g] = "transfer" /\ lists[g] = <<>>
     /\ Ahead({b}) /\ Ask({b}, "draw")
     /\ lists' = [lists EXCEPT ![g] =
                    << <<Command("draw", b, p)>>, <<Command("signal", b, p)>> >>]
     /\ Goto(g, "submit")
     /\ UNCHANGED <<queue, renderer, current, lastDisplay, call, display, begun, finished>>

(* submit_command_list: waits for room in the renderer's queue.  After its  *)
(* last list the call returns; with one frame at a time an entry's call     *)
(* first waits for the display queue to be empty.                           *)
Submit(g) ==
  /\ lists[g] # <<>> /\ Len(commands) < MaxCommands
  /\ commands' = Append(commands, Head(lists[g]))
  /\ lists' = [lists EXCEPT ![g] = Tail(@)]
  /\ CASE Len(lists[g]) > 1 \/ pc[g] = "transfer" -> UNCHANGED <<pc, call>>
       [] pc[g] = "newFrame" /\ MaxPending = 1 -> Goto(g, "drain") /\ UNCHANGED call
       [] OTHER -> Return(g)
  /\ UNCHANGED <<queue, work, requests, accurate, sync, display, history>>

(* sceGxmDisplayQueueAddEntry: the stamps are read, then counted up.  The   *)
(* application does not call it inside a scene on one of the two buffers.   *)
AddEntry(g, old, new) ==
  /\ Starts(g, {old, new})
  /\ call' = [call EXCEPT ![g] = [old |-> old, new |-> new,
                                  oldStamp |-> ahead[old], newStamp |-> ahead[new]]]
  /\ Goto(g, "stamp")
  /\ UNCHANGED <<queue, renderer, sync, lists, display, history>>

StampEntry(g) ==
  LET B == {call[g].old, call[g].new}
  IN /\ pc[g] = "stamp" /\ Ahead(B) /\ Ask(B, "flip")
     /\ lastDisplay' = [b \in Buffers |-> IF b \in B THEN ahead'[b] ELSE lastDisplay[b]]
     /\ Goto(g, "enqueue")
     /\ UNCHANGED <<queue, renderer, current, call, lists, display, begun, finished>>

(* The push waits for room and is dropped after an abort.  NewFrame is for  *)
(* the renderer, whatever became of the push.                               *)
Enqueue(g) ==
  /\ pc[g] = "enqueue"
  /\ \/ /\ DisplayQueue!PushWaits(g) /\ UNCHANGED <<pc, lists>>
     \/ /\ DisplayQueue!Push(g, call[g]) \/ DisplayQueue!PushRefused(g)
        /\ lists' = [lists EXCEPT ![g] = << <<Command("other", call[g].new, 0)>> >>]
        /\ Goto(g, "newFrame")
  /\ UNCHANGED <<renderer, sync, call, display, history>>

(* sceGxmDisplayQueueFinish, and the call at the end of the two others.     *)
Finish(g) ==
  /\ pc[g] = "idle" /\ Running /\ Goto(g, "drain")
  /\ UNCHANGED <<queue, renderer, sync, call, lists, display, history>>

Drain(g) ==
  /\ \/ /\ pc[g] \in {"drain", "terminate"} /\ DisplayQueue!EmptyWaits(g)
        /\ UNCHANGED <<pc, call>>
     \/ pc[g] = "drain" /\ DisplayQueue!EmptySeen(g) /\ Return(g)
     \/ pc[g] = "terminate" /\ DisplayQueue!EmptySeen(g) /\ Goto(g, "abort") /\ UNCHANGED call
  /\ UNCHANGED <<renderer, sync, lists, display, history>>

(* sceGxmTerminate: wait_empty, abort, and the callback's guest thread is   *)
(* told to remove itself.                                                   *)
Terminate(g) ==
  /\ pc[g] = "idle" /\ Running /\ Goto(g, "terminate")
  /\ UNCHANGED <<queue, renderer, sync, call, lists, display, history>>

AbortQueue(g) ==
  /\ pc[g] = "abort" /\ DisplayQueue!Abort /\ Goto(g, "kill")
  /\ UNCHANGED <<renderer, sync, call, lists, display, history>>

KillVita(g) ==
  /\ pc[g] = "kill" /\ vita' = [vita EXCEPT !.toDo = "remove"] /\ Goto(g, "idle")
  /\ UNCHANGED <<queue, renderer, sync, call, lists, host, entry, history>>

(* The second half of a wait inside the queue.                              *)
Sleep(t) ==
  /\ DisplayQueue!FallAsleep(t)
  /\ UNCHANGED <<renderer, sync, guest, display, history>>

-----------------------------------------------------------------------------
(* The renderer (process_batches) and the thread that waits for fences.     *)

(* subject_done: timestamp_current never goes back.                         *)
Later(b, stamp) == IF current[b] < stamp THEN stamp ELSE current[b]
Signal(b, stamp) == current' = [current EXCEPT ![b] = Later(b, stamp)]

Reached(command) == command.op = "wait" => current[command.buffer] >= command.stamp

(* A list that begins with a wait is left in the queue until it is ready:   *)
(* top, is_cmd_ready or wait_cmd, pop.  The wait itself then passes at once,*)
(* for timestamp_current does not go back.  A wait further down, behind what*)
(* the context was told before the scene, blocks the renderer just the same.*)
TakeList ==
  LET list == Head(commands)
  IN /\ work = <<>> /\ commands # <<>> /\ Reached(Head(list))
     /\ work' = IF Head(list).op \in {"draw", "signal"} THEN list ELSE Tail(list)
     /\ commands' = Tail(commands)
     /\ UNCHANGED <<queue, requests, accurate, sync, guest, display, history>>

(* process_batch, a command at a time.                                      *)
DoDraw ==
  /\ work # <<>> /\ Head(work).op = "draw" /\ work' = Tail(work)
  /\ begun' = Mark(begun, {Head(work).buffer}, LAMBDA b : Head(work).stamp)
  /\ UNCHANGED <<queue, commands, requests, accurate, sync, guest, display, asked, finished>>

(* handle_signal_sync_object: what was drawn is done, or its fence is set.  *)
DoSignal ==
  /\ work # <<>> /\ Head(work).op = "signal" /\ work' = Tail(work)
  /\ IF accurate
     THEN requests' = Append(requests, Head(work)) /\ UNCHANGED <<current, finished>>
     ELSE /\ Signal(Head(work).buffer, Head(work).stamp) /\ UNCHANGED requests
          /\ finished' = Mark(finished, {Head(work).buffer}, LAMBDA b : Head(work).stamp)
  /\ UNCHANGED <<queue, commands, accurate, ahead, lastDisplay, guest, display, asked, begun>>

(* wait_thread_function: the fences of all that was drawn before, then the  *)
(* signal.                                                                  *)
FencePassed ==
  /\ requests # <<>> /\ requests' = Tail(requests)
  /\ Signal(Head(requests).buffer, Head(requests).stamp)
  /\ finished' = Mark(finished, {Head(requests).buffer}, LAMBDA b : Head(requests).stamp)
  /\ UNCHANGED <<queue, commands, work, accurate, ahead, lastDisplay, guest, display,
                 asked, begun>>

-----------------------------------------------------------------------------
(* display_entry_thread, and the guest thread it starts for every entry.    *)

Flip(log) ==
  Mark(log, {entry.old, entry.new},
       LAMBDA b : IF b = entry.old THEN entry.oldStamp + 1 ELSE entry.newStamp + 1)

HostTop ==
  /\ host = "top"
  /\ \/ DisplayQueue!TakeWaits(Display) /\ UNCHANGED <<host, entry>>
     \/ DisplayQueue!TakeRefused(Display) /\ host' = "ended" /\ UNCHANGED entry
     \/ DisplayQueue!Top(Display) /\ entry' = Head(items) /\ host' = "pop"
  /\ UNCHANGED <<renderer, sync, guest, vita, history>>

(* Mutant of Wished: the buffer on show is waited for, not the new one.     *)
WishedOld == current[entry.old] >= entry.oldStamp

(* wishlist on both sync objects: the drawing asked for earlier is done.    *)
Wished == current[entry.old] >= entry.oldStamp /\ current[entry.new] >= entry.newStamp

(* The entry leaves the queue before its callback runs; what pop returns is *)
(* not looked at.                                                           *)
HostPop ==
  /\ host = "pop" /\ Wished
  /\ DisplayQueue!Pop(Display) \/ DisplayQueue!TakeRefused(Display)
  /\ host' = "start"
  /\ UNCHANGED <<renderer, sync, guest, entry, vita, history>>

(* run_guest_function: start(), which knows nothing of a removal asked for, *)
(* then the wait for the guest thread to be dormant.                        *)
HostStart ==
  /\ host = "start"
  /\ vita' = [vita EXCEPT !.status = "run", !.toDo = "run"]
  /\ host' = "callback" /\ begun' = Flip(begun)
  /\ UNCHANGED <<queue, renderer, sync, guest, entry, asked, finished>>

VitaReturns ==
  /\ vita.alive /\ vita.toDo = "run"
  /\ vita' = [vita EXCEPT !.status = "dormant", !.toDo = "wait"]
  /\ UNCHANGED <<queue, renderer, sync, guest, host, entry, history>>

VitaRemoved ==
  /\ vita.alive /\ vita.toDo = "remove"
  /\ vita' = [vita EXCEPT !.status = "dormant", !.alive = FALSE]
  /\ UNCHANGED <<queue, renderer, sync, guest, host, entry, history>>

HostCallbackOver ==
  /\ host = "callback" /\ vita.status = "dormant" /\ vita.toDo # "run"
  /\ host' = "signal" /\ finished' = Flip(finished)
  /\ UNCHANGED <<queue, renderer, sync, guest, entry, vita, asked, begun>>

(* Mutants of HostSignal: the newest stamp is signalled; one object is.     *)
HostSignalNewest ==
  /\ host = "signal" /\ host' = "top" /\ entry' = AnyEntry
  /\ current' = [b \in Buffers |-> IF b \in {entry.old, entry.new}
                                   THEN Later(b, ahead[b]) ELSE current[b]]
  /\ UNCHANGED <<queue, renderer, ahead, lastDisplay, guest, vita, history>>
HostSignalOld ==
  /\ host = "signal" /\ host' = "top" /\ entry' = AnyEntry
  /\ Signal(entry.old, entry.oldStamp + 1)
  /\ UNCHANGED <<queue, renderer, ahead, lastDisplay, guest, vita, history>>

(* subject_done on both sync objects.                                       *)
HostSignal ==
  /\ host = "signal" /\ host' = "top" /\ entry' = AnyEntry
  /\ current' = [b \in Buffers |-> CASE b = entry.old -> Later(b, entry.oldStamp + 1)
                                     [] b = entry.new -> Later(b, entry.newStamp + 1)
                                     [] OTHER -> current[b]]
  /\ UNCHANGED <<queue, renderer, ahead, lastDisplay, guest, vita, history>>

-----------------------------------------------------------------------------
Calls(g) ==
  \/ g \in Drawers /\ \E b \in Buffers : BeginScene(g, b) \/ Transfer(g, b)
  \/ /\ g \in Presenters
     /\ Initialize(g) \/ \E old, new \in Buffers : AddEntry(g, old, new)
  \/ g \in Drainers /\ (Finish(g) \/ Terminate(g))

(* What goes on without the application: the rest of a call, but not the    *)
(* end of a scene, which is a call of its own.                              *)
CallGoesOn(g) ==
  \/ TransferStamp(g) \/ Submit(g) \/ StampEntry(g) \/ Enqueue(g)
  \/ Drain(g) \/ AbortQueue(g) \/ KillVita(g) \/ Sleep(g)
Render == TakeList \/ DoDraw \/ DoSignal
HostGoesOn ==
  \/ HostTop \/ HostPop \/ HostStart \/ HostCallbackOver \/ HostSignal
  \/ Sleep(Display)
Vita == VitaReturns \/ VitaRemoved

Next ==
  \/ \E g \in Guests : Calls(g) \/ EndScene(g) \/ CallGoesOn(g)
  \/ Render \/ FencePassed \/ HostGoesOn \/ Vita

(* Host threads are scheduled, fences pass, and the callback returns.       *)
Fairness ==
  /\ \A g \in Guests : WF_vars(CallGoesOn(g))
  /\ WF_vars(Render) /\ WF_vars(FencePassed) /\ WF_vars(HostGoesOn) /\ WF_vars(Vita)

Spec == Init /\ [][Next]_vars /\ Fairness

-----------------------------------------------------------------------------
(* Properties.                                                              *)

(* The display queue keeps what a bounded fifo promises (queue.h): nothing  *)
(* is lost, doubled, overtaken or over the limit, whoever sleeps on it.     *)
QueueKeepsPromise == Fifo!Spec

(* Work on a frame buffer keeps the order the application asked for: a      *)
(* buffer is shown only when all drawing asked for earlier is finished, and *)
(* drawn to again only when its callback is over (the stamps SceGxm hands   *)
(* out, the waits of renderer and display thread, and the signals).         *)
FramesKeepPromise == Promise!Spec

(* timestamp_current is the stamp "for what has already been processed"     *)
(* (gxm_types.h): all work up to it is over, although signals only raise it *)
(* to their own stamp, from three threads.                                  *)
CurrentIsProcessed ==
  \A b \in Buffers : 1..current[b] \subseteq finished[b]

(* All that is asked of a buffer is done: renderer, display thread and the  *)
(* callers of two bounded queues never wait for one another for ever.       *)
(* Until the application calls sceGxmTerminate.                             *)
AllWorkDone ==
  \A b \in Buffers :
    LET done == DOMAIN asked[b] \subseteq finished[b] IN ~done ~> (done \/ aborted)

(* Nobody sleeps in the display queue while what it waits for is there: an  *)
(* item for the display thread, room for a guest that pushes, emptiness for *)
(* one that drains it; the two sorts of guests share one condition variable *)
(* (the loops and notifications of queue.h).                                *)
NobodyOversleeps ==
  /\ at[Display] = "asleepCondempty" => items = <<>>
  /\ \A g \in Guests : at[g] = "asleepCond" =>
       items # <<>> /\ (pc[g] = "enqueue" => Len(items) = QueueSize)
=============================================================================
