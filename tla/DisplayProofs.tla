---------------------------- MODULE DisplayProofs ----------------------------
(***************************************************************************)
(* The safety of both halves of the display: of GxmDisplay, for any number *)
(* of guest threads and frame buffers, any limit of either queue and any   *)
(* amount of work, and of DisplayVblank, for any number of threads,        *)
(* callbacks, touch samples and vblanks.  They share no state, and a       *)
(* theorem is about the one whose specification it names.                  *)
(***************************************************************************)
EXTENDS GxmDisplay, DisplayVblank, SequenceTheorems, TLAPS

-----------------------------------------------------------------------------
(* GxmDisplay: nobody oversleeps in the display queue, which keeps the      *)
(* promise of a bounded fifo, and work on a frame buffer keeps the order    *)
(* asked for.                                                               *)


Callers == Guests \cup {Display}

(* The command lists SceGxm submits, and what can be left of one.           *)
Scene(b, w, p) ==
  <<Command("wait", b, w), Command("draw", b, p), Command("signal", b, p)>>
Lists ==
  {l \in Seq(Commands) : \/ \E c \in Commands : l = <<c>>
                         \/ \E b \in Buffers, w, p \in Stamps : l = Scene(b, w, p)}
Rests ==
  {l \in Seq(Commands) : \/ l = <<>> \/ \E c \in Commands : l = <<c>>
                         \/ \E b \in Buffers, p \in Stamps :
                              l = <<Command("draw", b, p), Command("signal", b, p)>>}

(* TypeOK, the shape of the lists told more exactly, part by part.          *)
QueueTyped ==
  /\ items \in Seq(Entries) /\ aborted \in BOOLEAN
  /\ at \in [Callers -> DisplayQueue!Places]
RendererTyped ==
  /\ commands \in Seq(Lists) /\ Len(commands) <= MaxCommands
  /\ work \in Rests /\ requests \in Seq(Commands) /\ accurate \in BOOLEAN
SyncTyped ==
  /\ ahead \in [Buffers -> Stamps] /\ current \in [Buffers -> Stamps]
  /\ lastDisplay \in [Buffers -> Stamps]
GuestTyped ==
  /\ pc \in [Guests -> {"idle", "scene", "stamp", "enqueue", "newFrame", "submit",
                        "transfer", "drain", "terminate", "abort", "kill"}]
  /\ call \in [Guests -> Entries] /\ lists \in [Guests -> Seq(Lists)]
HostTyped ==
  /\ host \in {"none", "top", "pop", "start", "callback", "signal", "ended"}
  /\ entry \in Entries /\ vita \in Vitas
HistoryTyped ==
  /\ asked \in [Buffers -> Seq({"draw", "flip"})]
  /\ begun \in [Buffers -> SUBSET Stamps] /\ finished \in [Buffers -> SUBSET Stamps]
Typed ==
  QueueTyped /\ RendererTyped /\ SyncTyped /\ GuestTyped /\ HostTyped /\ HistoryTyped

(* Before sceGxmInitialize nobody is in a call.                             *)
NotBegun ==
  host = "none" => /\ items = <<>> /\ ~aborted
                   /\ \A t \in Callers : at[t] = "outside"
                   /\ \A g \in Guests : pc[g] = "idle"

(* One caller holds the queue's mutex; the display thread waits for an item *)
(* and guests for room or emptiness, and while one of them sleeps, or has   *)
(* looked and is about to, there is none of what it waits for.              *)
SleepersRight ==
  /\ \A t, u \in Callers :
       DisplayQueue!HoldsMutex(t) /\ DisplayQueue!HoldsMutex(u) => t = u
  /\ at[Display] \in {"outside", "aboutCondempty", "asleepCondempty"}
  /\ \A g \in Guests : at[g] \in {"outside", "aboutCond", "asleepCond"}
  /\ at[Display] # "outside" => items = <<>>
  /\ \A g \in Guests : at[g] # "outside" => items # <<>>
  /\ Len(items) <= QueueSize

QueueInv == QueueTyped /\ SleepersRight

-----------------------------------------------------------------------------
(* The display queue.                                                       *)

LEMMA Places ==
  /\ DisplayQueue!Places =
       {"outside", "aboutCond", "aboutCondempty", "asleepCond", "asleepCondempty"}
  /\ \A t : DisplayQueue!HoldsMutex(t) <=> at[t] \in {"aboutCond", "aboutCondempty"}
  /\ \A t : DisplayQueue!HoldsMutex(t)' <=> at'[t] \in {"aboutCond", "aboutCondempty"}
  /\ DisplayQueue!About["cond"] = "aboutCond"
  /\ DisplayQueue!About["condempty"] = "aboutCondempty"
  /\ DisplayQueue!Asleep["cond"] = "asleepCond"
  /\ DisplayQueue!Asleep["condempty"] = "asleepCondempty"
  /\ {DisplayQueue!Asleep[c] : c \in DisplayQueue!Conditions} = {"asleepCond", "asleepCondempty"}
BY DEF DisplayQueue!Places, DisplayQueue!About, DisplayQueue!Asleep,
       DisplayQueue!Conditions, DisplayQueue!HoldsMutex

(* A call begins when nobody holds the mutex.                               *)
LEMMA Entering ==
  ASSUME NEW t \in Callers, DisplayQueue!Enter(t)
  PROVE  /\ at[t] = "outside"
         /\ \A u \in Callers : at[u] \notin {"aboutCond", "aboutCondempty"}
BY Places DEF DisplayQueue!Enter, Callers

(* To queue an item wakes the display thread.                               *)
LEMMA PushKeepsQueue ==
  ASSUME QueueInv, NEW g \in Guests, NEW e \in Entries, DisplayQueue!Push(g, e)
  PROVE  QueueInv' /\ Len(items) < QueueSize
<1>1. /\ items' = Append(items, e) /\ Len(items) # QueueSize
      /\ aborted' = aborted /\ DisplayQueue!NotifyOne("condempty")
  BY DEF DisplayQueue!Push
<1>2. \A u \in Callers : at[u] \notin {"aboutCond", "aboutCondempty"}
  BY Entering DEF DisplayQueue!Push, Callers
<1>3. /\ at' \in [Callers -> DisplayQueue!Places]
      /\ \A u \in Callers : at'[u] = IF at[u] = "asleepCondempty" THEN "outside" ELSE at[u]
  <2>1. \A u \in Callers : at[u] = "asleepCondempty" => u = Display
    BY DEF QueueInv, SleepersRight, Callers
  <2>2. CASE UNCHANGED at /\ \A u \in Callers : at[u] # "asleepCondempty"
    BY <2>2 DEF QueueInv, QueueTyped
  <2>3. ASSUME NEW u \in Callers, at[u] = "asleepCondempty",
               at' = [at EXCEPT ![u] = "outside"]
        PROVE  /\ at' \in [Callers -> DisplayQueue!Places]
               /\ \A v \in Callers :
                    at'[v] = IF at[v] = "asleepCondempty" THEN "outside" ELSE at[v]
    BY <2>1, <2>3, Places DEF QueueInv, QueueTyped
  <2> QED
    BY <1>1, <2>2, <2>3, Places DEF DisplayQueue!NotifyOne, Callers
<1>4. items \in Seq(Entries) /\ Len(items) \in Nat /\ Len(items) <= QueueSize
      /\ QueueSize \in Nat
  BY DEF QueueInv, QueueTyped, SleepersRight, QueueSize
<1>5. items' \in Seq(Entries) /\ Len(items') = Len(items) + 1 /\ Len(items) < QueueSize
  BY <1>1, <1>4
<1>6. items' # <<>>
  BY <1>4, <1>5
<1>7. QueueTyped'
  BY <1>1, <1>3, <1>5 DEF QueueInv, QueueTyped
<1>8. QueueSize' = QueueSize /\ Len(items') <= QueueSize
  BY <1>4, <1>5 DEF QueueSize
<1>9. SleepersRight'
  BY <1>2, <1>3, <1>6, <1>8, Places DEF QueueInv, SleepersRight, Callers
<1> QED
  BY <1>5, <1>7, <1>9 DEF QueueInv

(* To take an item wakes every guest that waits for room or emptiness.      *)
LEMMA PopKeepsQueue ==
  ASSUME QueueInv, DisplayQueue!Pop(Display)
  PROVE  QueueInv'
<1>1. /\ items # <<>> /\ items' = Tail(items) /\ aborted' = aborted
      /\ DisplayQueue!NotifyAll("cond")
  BY DEF DisplayQueue!Pop
<1>2. /\ at[Display] = "outside"
      /\ \A u \in Callers : at[u] \notin {"aboutCond", "aboutCondempty"}
  BY Entering DEF DisplayQueue!Pop, Callers
<1>3. at' = [u \in Callers |-> IF at[u] = "asleepCond" THEN "outside" ELSE at[u]]
  BY <1>1, Places DEF DisplayQueue!NotifyAll, Callers
<1>4. items' \in Seq(Entries) /\ Len(items') = Len(items) - 1 /\ Len(items) \in Nat
  BY <1>1 DEF QueueInv, QueueTyped
<1>5. QueueTyped'
  BY <1>1, <1>3, <1>4, Places DEF QueueInv, QueueTyped
<1>6. \A u \in Callers : at'[u] = "outside"
  BY <1>2, <1>3 DEF QueueInv, SleepersRight, Callers
<1>7. QueueSize \in Nat /\ QueueSize' = QueueSize
  BY DEF QueueSize
<1>8. Len(items') <= QueueSize
  BY <1>4, <1>7 DEF QueueInv, SleepersRight
<1>9. SleepersRight'
  BY <1>6, <1>7, <1>8, Places DEF SleepersRight, Callers
<1> QED
  BY <1>5, <1>9 DEF QueueInv

(* To wait: the caller keeps the mutex until it sleeps.                     *)
LEMMA WaitKeepsQueue ==
  ASSUME QueueInv, NEW t \in Callers, NEW c \in {"cond", "condempty"},
         DisplayQueue!Enter(t), DisplayQueue!Wait(t, c),
         IF c = "cond" THEN t \in Guests /\ items # <<>> ELSE t = Display /\ items = <<>>
  PROVE  QueueInv'
<1>1. /\ at[t] = "outside"
      /\ \A u \in Callers : at[u] \notin {"aboutCond", "aboutCondempty"}
  BY Entering
<1>2. at' = [at EXCEPT ![t] = DisplayQueue!About[c]] /\ items' = items /\ aborted' = aborted
  BY DEF DisplayQueue!Wait
<1>3. DisplayQueue!About[c] = IF c = "cond" THEN "aboutCond" ELSE "aboutCondempty"
  BY Places
<1>4. QueueTyped'
  BY <1>2, <1>3, Places DEF QueueInv, QueueTyped
<1>5. \A u \in Callers : at'[u] = IF u = t THEN DisplayQueue!About[c] ELSE at[u]
  BY <1>2 DEF QueueInv, QueueTyped
<1>6. Display \notin Guests /\ QueueSize' = QueueSize
  BY GxmDisplayAssumption DEF Guests, QueueSize
<1>7. SleepersRight'
  BY <1>1, <1>2, <1>3, <1>5, <1>6, Places DEF QueueInv, SleepersRight, Callers
<1> QED
  BY <1>4, <1>7 DEF QueueInv

LEMMA SleepKeepsQueue ==
  ASSUME QueueInv, NEW t \in Callers, DisplayQueue!FallAsleep(t)
  PROVE  QueueInv'
<1>1. PICK c \in {"cond", "condempty"} :
        at[t] = DisplayQueue!About[c] /\ at' = [at EXCEPT ![t] = DisplayQueue!Asleep[c]]
  BY DEF DisplayQueue!FallAsleep, DisplayQueue!Conditions
<1>2. items' = items /\ aborted' = aborted /\ QueueSize' = QueueSize
  BY DEF DisplayQueue!FallAsleep, QueueSize
<1>3. /\ at[t] = IF c = "cond" THEN "aboutCond" ELSE "aboutCondempty"
      /\ at' = [at EXCEPT ![t] = IF c = "cond" THEN "asleepCond" ELSE "asleepCondempty"]
  BY <1>1, Places
<1>4. QueueTyped'
  BY <1>2, <1>3, Places DEF QueueInv, QueueTyped
<1>5. SleepersRight'
  BY <1>2, <1>3, Places DEF QueueInv, QueueTyped, SleepersRight, Callers
<1> QED
  BY <1>4, <1>5 DEF QueueInv

LEMMA AbortKeepsQueue ==
  ASSUME QueueInv, DisplayQueue!Abort
  PROVE  QueueInv'
<1>1. /\ items' = items /\ aborted' = TRUE /\ QueueSize' = QueueSize
      /\ at' = [u \in Callers |-> IF at[u] \in {"asleepCond", "asleepCondempty"}
                                  THEN "outside" ELSE at[u]]
  BY Places DEF DisplayQueue!Abort, QueueSize, Callers
<1>2. QueueTyped'
  BY <1>1, Places DEF QueueInv, QueueTyped
<1>3. SleepersRight'
  BY <1>1, Places DEF QueueInv, QueueTyped, SleepersRight, Callers
<1> QED
  BY <1>2, <1>3 DEF QueueInv

-----------------------------------------------------------------------------
(* Who changes what.                                                        *)

LEMMA QueueSteps ==
  ASSUME [Next]_vars
  PROVE  \/ UNCHANGED queue
         \/ \E g \in Guests :
              Initialize(g) \/ Enqueue(g) \/ Drain(g) \/ AbortQueue(g) \/ Sleep(g)
         \/ Sleep(Display) \/ HostTop \/ HostPop
<1>1. CASE UNCHANGED vars
  BY <1>1 DEF vars
<1>2. ASSUME NEW g \in Guests, Calls(g) PROVE UNCHANGED queue \/ Initialize(g)
  BY <1>2 DEF Calls, BeginScene, Transfer, Finish, Terminate, AddEntry
<1>3. ASSUME NEW g \in Guests, EndScene(g) \/ CallGoesOn(g)
      PROVE  UNCHANGED queue \/ Enqueue(g) \/ Drain(g) \/ AbortQueue(g) \/ Sleep(g)
  BY <1>3 DEF CallGoesOn, EndScene, TransferStamp, Submit, StampEntry, KillVita
<1>4. CASE Render \/ FencePassed \/ Vita
  BY <1>4 DEF Render, FencePassed, Vita, TakeList, DoDraw, DoSignal, VitaReturns, VitaRemoved
<1>5. CASE HostGoesOn
  BY <1>5 DEF HostGoesOn, HostStart, HostCallbackOver, HostSignal
<1> QED
  BY <1>1, <1>2, <1>3, <1>4, <1>5 DEF Next

LEMMA RendererSteps ==
  ASSUME [Next]_vars
  PROVE  \/ UNCHANGED renderer
         \/ (\E g \in Guests : Submit(g)) \/ TakeList \/ DoDraw \/ DoSignal \/ FencePassed
<1>1. CASE UNCHANGED vars
  BY <1>1 DEF vars
<1>2. ASSUME NEW g \in Guests, Calls(g) \/ EndScene(g) \/ CallGoesOn(g)
      PROVE  UNCHANGED renderer \/ Submit(g)
  BY <1>2 DEF Calls, CallGoesOn, Initialize, BeginScene, Transfer, Finish, Terminate, AddEntry,
              EndScene, TransferStamp, StampEntry, Enqueue, Drain, AbortQueue, KillVita, Sleep
<1>3. CASE Vita
  BY <1>3 DEF Vita, VitaReturns, VitaRemoved
<1>4. CASE HostGoesOn
  BY <1>4 DEF HostGoesOn, HostTop, HostPop, HostStart, HostCallbackOver, HostSignal, Sleep
<1> QED
  BY <1>1, <1>2, <1>3, <1>4 DEF Next, Render

LEMMA SyncSteps ==
  ASSUME [Next]_vars
  PROVE  \/ UNCHANGED sync
         \/ \E g \in Guests : EndScene(g) \/ TransferStamp(g) \/ StampEntry(g)
         \/ DoSignal \/ FencePassed \/ HostSignal
<1>1. CASE UNCHANGED vars
  BY <1>1 DEF vars
<1>2. ASSUME NEW g \in Guests, Calls(g) PROVE UNCHANGED sync
  BY <1>2 DEF Calls, Initialize, BeginScene, Transfer, Finish, Terminate, AddEntry
<1>3. ASSUME NEW g \in Guests, CallGoesOn(g)
      PROVE  UNCHANGED sync \/ TransferStamp(g) \/ StampEntry(g)
  BY <1>3 DEF CallGoesOn, Submit, Enqueue, Drain, AbortQueue, KillVita, Sleep
<1>4. CASE Render \/ Vita
  BY <1>4 DEF Render, TakeList, DoDraw, Vita, VitaReturns, VitaRemoved
<1>5. CASE HostGoesOn
  BY <1>5 DEF HostGoesOn, HostTop, HostPop, HostStart, HostCallbackOver, Sleep
<1> QED
  BY <1>1, <1>2, <1>3, <1>4, <1>5 DEF Next

LEMMA GuestSteps ==
  ASSUME [Next]_vars
  PROVE  \/ UNCHANGED guest
         \/ \E g \in Guests :
              \/ \E b \in Buffers : BeginScene(g, b) \/ Transfer(g, b)
              \/ Finish(g) \/ Terminate(g) \/ \E old, new \in Buffers : AddEntry(g, old, new)
              \/ EndScene(g) \/ TransferStamp(g) \/ Submit(g) \/ StampEntry(g) \/ Enqueue(g)
              \/ Drain(g) \/ AbortQueue(g) \/ KillVita(g)
<1>1. CASE UNCHANGED vars
  BY <1>1 DEF vars
<1>2. ASSUME NEW g \in Guests, Initialize(g) \/ Sleep(g) PROVE UNCHANGED guest
  BY <1>2 DEF Initialize, Sleep
<1>3. CASE Render \/ FencePassed \/ Vita
  BY <1>3 DEF Render, TakeList, DoDraw, DoSignal, FencePassed, Vita, VitaReturns, VitaRemoved
<1>4. CASE HostGoesOn
  BY <1>4 DEF HostGoesOn, HostTop, HostPop, HostStart, HostCallbackOver, HostSignal, Sleep
<1> QED
  BY <1>1, <1>2, <1>3, <1>4 DEF Next, Calls, CallGoesOn

LEMMA HostSteps ==
  ASSUME [Next]_vars
  PROVE  \/ UNCHANGED display
         \/ \E g \in Guests : Initialize(g) \/ KillVita(g)
         \/ HostTop \/ HostPop \/ HostStart \/ VitaReturns \/ VitaRemoved
         \/ HostCallbackOver \/ HostSignal
<1>1. CASE UNCHANGED vars
  BY <1>1 DEF vars
<1>2. ASSUME NEW g \in Guests, Calls(g) \/ EndScene(g) \/ CallGoesOn(g)
      PROVE  UNCHANGED display \/ Initialize(g) \/ KillVita(g)
  BY <1>2 DEF Calls, CallGoesOn, BeginScene, Transfer, Finish, Terminate, AddEntry, EndScene,
              TransferStamp, Submit, StampEntry, Enqueue, Drain, AbortQueue, Sleep
<1>3. CASE Render \/ FencePassed \/ Sleep(Display)
  BY <1>3 DEF Render, TakeList, DoDraw, DoSignal, FencePassed, Sleep
<1> QED
  BY <1>1, <1>2, <1>3 DEF Next, HostGoesOn, Vita

LEMMA HistorySteps ==
  ASSUME [Next]_vars
  PROVE  \/ UNCHANGED history
         \/ \E g \in Guests : EndScene(g) \/ TransferStamp(g) \/ StampEntry(g)
         \/ DoDraw \/ DoSignal \/ FencePassed \/ HostStart \/ HostCallbackOver
<1>1. CASE UNCHANGED vars
  BY <1>1 DEF vars
<1>2. ASSUME NEW g \in Guests, Calls(g) PROVE UNCHANGED history
  BY <1>2 DEF Calls, Initialize, BeginScene, Transfer, Finish, Terminate, AddEntry
<1>3. ASSUME NEW g \in Guests, CallGoesOn(g)
      PROVE  UNCHANGED history \/ TransferStamp(g) \/ StampEntry(g)
  BY <1>3 DEF CallGoesOn, Submit, Enqueue, Drain, AbortQueue, KillVita, Sleep
<1>4. CASE TakeList \/ Vita
  BY <1>4 DEF TakeList, Vita, VitaReturns, VitaRemoved
<1>5. CASE HostGoesOn
  BY <1>5 DEF HostGoesOn, HostTop, HostPop, HostSignal, Sleep
<1> QED
  BY <1>1, <1>2, <1>3, <1>4, <1>5 DEF Next, Render

-----------------------------------------------------------------------------
(* Types.                                                                   *)

LEMMA CommandTyped ==
  ASSUME NEW b \in Buffers, NEW p \in Stamps, NEW op \in {"wait", "draw", "signal", "other"}
  PROVE  Command(op, b, p) \in Commands
BY DEF Command, Commands

LEMMA AnyEntryTyped == AnyEntry \in Entries
BY GxmDisplayAssumption DEF AnyEntry, AboutOne, Entries, Stamps

(* The commands of a list, by their places.                                 *)
LEMMA SceneFields ==
  ASSUME NEW b \in Buffers, NEW w \in Stamps, NEW p \in Stamps
  PROVE  /\ Scene(b, w, p) \in Lists
         /\ Len(Scene(b, w, p)) = 3 /\ Head(Scene(b, w, p)) = Command("wait", b, w)
         /\ Tail(Scene(b, w, p)) = <<Command("draw", b, p), Command("signal", b, p)>>
<1>1. /\ Command("wait", b, w) \in Commands /\ Command("draw", b, p) \in Commands
      /\ Command("signal", b, p) \in Commands
  BY CommandTyped
<1>2. Scene(b, w, p) \in Seq(Commands)
  BY <1>1 DEF Scene
<1>3. Scene(b, w, p) \in Lists
  BY <1>2 DEF Lists
<1> QED
  BY <1>1, <1>3 DEF Scene

LEMMA OneField ==
  ASSUME NEW c \in Commands
  PROVE  /\ <<c>> \in Lists /\ <<c>> \in Rests
         /\ Len(<<c>>) = 1 /\ Head(<<c>>) = c /\ Tail(<<c>>) = <<>>
BY DEF Lists, Rests

LEMMA TwoFields ==
  ASSUME NEW b \in Buffers, NEW p \in Stamps
  PROVE  LET l == <<Command("draw", b, p), Command("signal", b, p)>>
         IN  /\ l \in Rests /\ Head(l) = Command("draw", b, p)
             /\ Tail(l) = <<Command("signal", b, p)>>
<1>1. Command("draw", b, p) \in Commands /\ Command("signal", b, p) \in Commands
  BY CommandTyped
<1> QED
  BY <1>1 DEF Rests

LEMMA TypedImpliesTypeOK == Typed => TypeOK
<1> SUFFICES ASSUME Typed PROVE TypeOK
  OBVIOUS
<1>1. commands \in Seq(Seq(Commands)) /\ work \in Seq(Commands)
  BY SeqMonotonic DEF Typed, RendererTyped, Lists, Rests
<1>2. lists \in [Guests -> Seq(Seq(Commands))]
  <2>1. Seq(Lists) \subseteq Seq(Seq(Commands))
    BY SeqMonotonic DEF Lists
  <2> QED
    BY <2>1 DEF Typed, GuestTyped
<1> QED
  BY <1>1, <1>2 DEF Typed, QueueTyped, RendererTyped, SyncTyped, GuestTyped, HostTyped,
                    HistoryTyped, TypeOK, Callers

LEMMA WorkFields ==
  ASSUME RendererTyped, work # <<>>
  PROVE  Tail(work) \in Rests /\ Head(work) \in Commands
<1>1. ASSUME NEW c \in Commands, work = <<c>>
      PROVE  Tail(work) \in Rests /\ Head(work) \in Commands
  BY <1>1, OneField, EmptySeq DEF Rests
<1>2. ASSUME NEW b \in Buffers, NEW p \in Stamps,
             work = <<Command("draw", b, p), Command("signal", b, p)>>
      PROVE  Tail(work) \in Rests /\ Head(work) \in Commands
  BY <1>2, TwoFields, OneField, CommandTyped
<1> QED
  BY <1>1, <1>2 DEF Rests, RendererTyped

LEMMA RendererKeepsType ==
  ASSUME Typed, [Next]_vars
  PROVE  RendererTyped'
<1> USE DEF RendererTyped
<1>1. CASE UNCHANGED renderer
  BY <1>1 DEF renderer, Typed
<1>2. ASSUME NEW g \in Guests, Submit(g) PROVE RendererTyped'
  <2>1. Head(lists[g]) \in Lists
    BY <1>2 DEF Submit, Typed, GuestTyped
  <2>2. Append(commands, Head(lists[g])) \in Seq(Lists)
        /\ Len(Append(commands, Head(lists[g]))) = Len(commands) + 1
    BY <2>1 DEF Typed
  <2> QED
    BY <1>2, <2>2, GxmDisplayAssumption DEF Submit, Typed
<1>3. CASE TakeList
  <2> DEFINE list == Head(commands)
  <2>1. /\ commands # <<>> /\ commands' = Tail(commands)
        /\ work' = IF Head(list).op \in {"draw", "signal"} THEN list ELSE Tail(list)
        /\ UNCHANGED <<requests, accurate>>
    BY <1>3 DEF TakeList
  <2>2. list \in Lists /\ commands' \in Seq(Lists) /\ Len(commands') <= MaxCommands
    BY <2>1, GxmDisplayAssumption DEF Typed
  <2> HIDE DEF list
  <2>3. work' \in Rests
    <3>1. ASSUME NEW c \in Commands, list = <<c>> PROVE work' \in Rests
      BY <2>1, <3>1, OneField, EmptySeq DEF Rests
    <3>2. ASSUME NEW b \in Buffers, NEW w \in Stamps, NEW p \in Stamps, list = Scene(b, w, p)
          PROVE  work' \in Rests
      <4>1. Head(list).op = "wait"
        BY <3>2, SceneFields DEF Command
      <4> QED
        BY <2>1, <3>2, <4>1, SceneFields, TwoFields
    <3> QED
      BY <2>2, <3>1, <3>2 DEF Lists
  <2> QED
    BY <2>1, <2>2, <2>3 DEF Typed
<1>4. work # <<>> => Tail(work) \in Rests /\ Head(work) \in Commands
  BY WorkFields DEF Typed
<1>5. CASE DoDraw
  BY <1>4, <1>5 DEF DoDraw, Typed
<1>6. CASE DoSignal
  <2>1. Tail(work) \in Rests /\ Head(work) \in Commands
    BY <1>4, <1>6 DEF DoSignal
  <2>2. requests' \in Seq(Commands)
    <3>1. requests' = Append(requests, Head(work)) \/ requests' = requests
      BY <1>6 DEF DoSignal
    <3> QED
      BY <2>1, <3>1 DEF Typed
  <2> QED
    BY <2>1, <2>2, <1>6 DEF DoSignal, Typed
<1>7. CASE FencePassed
  BY <1>7 DEF FencePassed, Typed
<1> QED
  BY <1>1, <1>2, <1>3, <1>5, <1>6, <1>7, RendererSteps

LEMMA SyncKeepsType ==
  ASSUME Typed, [Next]_vars
  PROVE  SyncTyped'
<1> USE DEF SyncTyped, Stamps
<1>0. SyncTyped /\ GuestTyped
  BY DEF Typed
<1>1. CASE UNCHANGED sync
  BY <1>0, <1>1 DEF sync
<1>2. ASSUME NEW g \in Guests, EndScene(g) \/ TransferStamp(g) PROVE SyncTyped'
  BY <1>0, <1>2 DEF EndScene, TransferStamp, Ahead
<1>3. ASSUME NEW g \in Guests, StampEntry(g) PROVE SyncTyped'
  <2>1. ahead' \in [Buffers -> Stamps]
    BY <1>0, <1>3 DEF StampEntry, Ahead
  <2> QED
    BY <1>0, <1>3, <2>1 DEF StampEntry
<1>4. ASSUME NEW c \in Commands, Signal(c.buffer, c.stamp) PROVE current' \in [Buffers -> Stamps]
  BY <1>0, <1>4 DEF Signal, Later, Commands
<1>5. CASE DoSignal
  <2>1. Head(work) \in Commands
    BY <1>5, WorkFields DEF DoSignal, Typed
  <2> QED
    BY <1>0, <1>4, <1>5, <2>1 DEF DoSignal
<1>6. CASE FencePassed
  <2>1. Head(requests) \in Commands
    BY <1>6 DEF FencePassed, Typed, RendererTyped
  <2> QED
    BY <1>0, <1>4, <1>6, <2>1 DEF FencePassed
<1>7. CASE HostSignal
  <2>1. entry \in Entries
    BY DEF Typed, HostTyped
  <2> QED
    BY <1>0, <1>7, <2>1 DEF HostSignal, Later, Entries
<1> QED
  BY <1>1, <1>2, <1>3, <1>5, <1>6, <1>7, SyncSteps

LEMMA GuestKeepsType ==
  ASSUME Typed, [Next]_vars
  PROVE  GuestTyped'
<1> USE DEF GuestTyped
<1>0. GuestTyped /\ SyncTyped
  BY DEF Typed
<1>1. CASE UNCHANGED guest
  BY <1>0, <1>1 DEF guest
<1>2. ASSUME NEW g \in Guests, NEW b \in Buffers, BeginScene(g, b) \/ Transfer(g, b)
      PROVE  GuestTyped'
  <2>1. AboutOne(b, lastDisplay[b]) \in Entries
    BY <1>0 DEF AboutOne, Entries, SyncTyped
  <2>2. << <<Command("wait", b, lastDisplay[b])>> >> \in Seq(Lists)
    <3>1. <<Command("wait", b, lastDisplay[b])>> \in Lists
      BY <1>0, CommandTyped, OneField DEF SyncTyped
    <3> QED
      BY <3>1
  <2> QED
    BY <1>0, <1>2, <2>1, <2>2 DEF BeginScene, Transfer, Goto
<1>3. ASSUME NEW g \in Guests, Finish(g) \/ Terminate(g) \/ AbortQueue(g) \/ KillVita(g)
      PROVE  GuestTyped'
  BY <1>0, <1>3 DEF Finish, Terminate, AbortQueue, KillVita, Goto
<1>4. ASSUME NEW g \in Guests, NEW old \in Buffers, NEW new \in Buffers, AddEntry(g, old, new)
      PROVE  GuestTyped'
  BY <1>0, <1>4 DEF AddEntry, Goto, Entries, SyncTyped
<1>5. ASSUME NEW g \in Guests
      PROVE  /\ call[g].old \in Buffers /\ call[g].new \in Buffers
             /\ call[g].oldStamp \in Stamps
             /\ ahead[call[g].old] + 1 \in Stamps
  BY <1>0 DEF Entries, SyncTyped, Stamps
<1>6. ASSUME NEW g \in Guests, EndScene(g) PROVE GuestTyped'
  <2>1. Scene(call[g].old, call[g].oldStamp, ahead[call[g].old] + 1) \in Lists
    BY <1>5, SceneFields
  <2>2. lists' = [lists EXCEPT ![g] =
                    <<Scene(call[g].old, call[g].oldStamp, ahead[call[g].old] + 1)>>]
    BY <1>6 DEF EndScene, Scene
  <2>3. lists' \in [Guests -> Seq(Lists)]
    BY <1>0, <2>1, <2>2
  <2> QED
    BY <1>0, <1>6, <2>3 DEF EndScene, Goto
<1>7. ASSUME NEW g \in Guests, TransferStamp(g) PROVE GuestTyped'
  <2> DEFINE b == call[g].old
             p == ahead[b] + 1
  <2>1. <<Command("draw", b, p)>> \in Lists /\ <<Command("signal", b, p)>> \in Lists
    BY <1>5, CommandTyped, OneField
  <2>2. lists' = [lists EXCEPT ![g] = << <<Command("draw", b, p)>>, <<Command("signal", b, p)>> >>]
    BY <1>7 DEF TransferStamp
  <2> HIDE DEF b, p
  <2>3. << <<Command("draw", b, p)>>, <<Command("signal", b, p)>> >> \in Seq(Lists)
    BY <2>1
  <2>4. lists' \in [Guests -> Seq(Lists)]
    BY <1>0, <2>2, <2>3
  <2> QED
    BY <1>0, <1>7, <2>4 DEF TransferStamp, Goto
<1>8. ASSUME NEW g \in Guests, Submit(g) PROVE GuestTyped'
  <2>1. lists' \in [Guests -> Seq(Lists)]
    BY <1>0, <1>8 DEF Submit
  <2> QED
    BY <1>0, <1>8, <2>1, AnyEntryTyped DEF Submit, Goto, Return
<1>9. ASSUME NEW g \in Guests, StampEntry(g) PROVE GuestTyped'
  BY <1>0, <1>9 DEF StampEntry, Goto
<1>10. ASSUME NEW g \in Guests, Enqueue(g) PROVE GuestTyped'
  <2>1. << <<Command("other", call[g].new, 0)>> >> \in Seq(Lists)
    <3>1. <<Command("other", call[g].new, 0)>> \in Lists
      BY <1>5, CommandTyped, OneField DEF Stamps
    <3> QED
      BY <3>1
  <2> QED
    BY <1>0, <1>10, <2>1 DEF Enqueue, Goto
<1>11. ASSUME NEW g \in Guests, Drain(g) PROVE GuestTyped'
  BY <1>0, <1>11, AnyEntryTyped DEF Drain, Goto, Return
<1> QED
  BY <1>1, <1>2, <1>3, <1>4, <1>6, <1>7, <1>8, <1>9, <1>10, <1>11, GuestSteps

LEMMA HostKeepsType ==
  ASSUME Typed, [Next]_vars
  PROVE  HostTyped'
<1> USE DEF HostTyped, Vitas
<1>0. HostTyped
  BY DEF Typed
<1>1. CASE UNCHANGED display
  BY <1>0, <1>1 DEF display
<1>2. ASSUME NEW g \in Guests, Initialize(g) \/ KillVita(g) PROVE HostTyped'
  BY <1>0, <1>2 DEF Initialize, KillVita
<1>3. CASE HostTop
  <2>1. DisplayQueue!Top(Display) => Head(items) \in Entries
    BY DEF DisplayQueue!Top, Typed, QueueTyped
  <2> QED
    BY <1>0, <1>3, <2>1 DEF HostTop
<1>4. CASE HostPop \/ HostStart \/ HostCallbackOver \/ VitaReturns \/ VitaRemoved
  BY <1>0, <1>4 DEF HostPop, HostStart, HostCallbackOver, VitaReturns, VitaRemoved
<1>5. CASE HostSignal
  BY <1>0, <1>5, AnyEntryTyped DEF HostSignal
<1> QED
  BY <1>1, <1>2, <1>3, <1>4, <1>5, HostSteps

LEMMA HistoryKeepsType ==
  ASSUME Typed, [Next]_vars
  PROVE  HistoryTyped'
<1> USE DEF HistoryTyped
<1>0. HistoryTyped
  BY DEF Typed
<1>1. CASE UNCHANGED history
  BY <1>0, <1>1 DEF history
<1>2. ASSUME NEW g \in Guests, EndScene(g) \/ TransferStamp(g) \/ StampEntry(g)
      PROVE  HistoryTyped'
  <2>1. UNCHANGED <<begun, finished>>
    BY <1>2 DEF EndScene, TransferStamp, StampEntry
  <2>2. ASSUME NEW B, NEW kind \in {"draw", "flip"}, Ask(B, kind)
        PROVE  asked' \in [Buffers -> Seq({"draw", "flip"})]
    BY <1>0, <2>2 DEF Ask
  <2> QED
    BY <1>0, <1>2, <2>1, <2>2 DEF EndScene, TransferStamp, StampEntry
<1>3. ASSUME NEW c \in Commands, NEW log \in [Buffers -> SUBSET Stamps]
      PROVE  Mark(log, {c.buffer}, LAMBDA b : c.stamp) \in [Buffers -> SUBSET Stamps]
  BY <1>3 DEF Mark, Commands
<1>4. ASSUME NEW log \in [Buffers -> SUBSET Stamps]
      PROVE  Flip(log) \in [Buffers -> SUBSET Stamps]
  BY DEF Flip, Mark, Typed, HostTyped, Entries, Stamps
<1>5. CASE DoDraw
  BY <1>0, <1>3, <1>5, WorkFields DEF DoDraw, Typed
<1>6. CASE DoSignal
  BY <1>0, <1>3, <1>6, WorkFields DEF DoSignal, Typed
<1>7. CASE FencePassed
  <2>1. Head(requests) \in Commands
    BY <1>7 DEF FencePassed, Typed, RendererTyped
  <2> QED
    BY <1>0, <1>3, <1>7, <2>1 DEF FencePassed
<1>8. CASE HostStart \/ HostCallbackOver
  BY <1>0, <1>4, <1>8 DEF HostStart, HostCallbackOver
<1> QED
  BY <1>1, <1>2, <1>5, <1>6, <1>7, <1>8, HistorySteps

(* Who is in the display queue, or about to be, has a call that began after *)
(* sceGxmInitialize.                                                        *)
LEMMA NextKeepsNotBegun ==
  ASSUME Typed, NotBegun, [Next]_vars
  PROVE  NotBegun'
<1> SUFFICES ASSUME host' = "none" PROVE NotBegun'
  BY DEF NotBegun
<1>1. host = "none"
  BY HostSteps DEF display, Initialize, KillVita, HostTop, HostPop, HostStart, VitaReturns,
                   VitaRemoved, HostCallbackOver, HostSignal
<1>2. /\ items = <<>> /\ ~aborted /\ \A t \in Callers : at[t] = "outside"
      /\ \A g \in Guests : pc[g] = "idle"
  BY <1>1 DEF NotBegun
<1>3. ASSUME NEW t \in Callers PROVE ~Sleep(t)
  BY <1>2, Places DEF Sleep, DisplayQueue!FallAsleep, DisplayQueue!Conditions
<1>4. UNCHANGED queue
  <2>1. ASSUME NEW g \in Guests
        PROVE  ~(Initialize(g) \/ Enqueue(g) \/ Drain(g) \/ AbortQueue(g))
    BY <1>1, <1>2, HostSteps DEF Initialize, Enqueue, Drain, AbortQueue
  <2> QED
    BY <1>1, <1>3, <2>1, QueueSteps DEF HostTop, HostPop, Callers
<1>5. \A g \in Guests : pc'[g] = "idle"
  <2>1. ASSUME NEW g \in Guests, Submit(g) PROVE \A h \in Guests : pc'[h] = "idle"
    BY <1>2, <2>1 DEF Submit, Return, Goto, Typed, GuestTyped
  <2>2. UNCHANGED guest \/ \E g \in Guests : Submit(g)
    BY <1>1, <1>2, GuestSteps
       DEF BeginScene, Transfer, Starts, Running, Finish, Terminate, AddEntry, EndScene,
           TransferStamp, StampEntry, Enqueue, Drain, AbortQueue, KillVita
  <2> QED
    BY <1>2, <2>1, <2>2 DEF guest
<1> QED
  BY <1>2, <1>4, <1>5 DEF NotBegun, queue, Callers

LEMMA NextKeepsQueue ==
  ASSUME Typed, SleepersRight, NotBegun, [Next]_vars
  PROVE  QueueInv'
<1>0. QueueInv
  BY DEF QueueInv, Typed
<1>1. CASE UNCHANGED queue
  BY <1>0, <1>1, Places DEF QueueInv, QueueTyped, SleepersRight, queue, QueueSize
<1>2. ASSUME NEW g \in Guests, Initialize(g) PROVE QueueInv'
  <2>1. items' = <<>> /\ aborted' = FALSE /\ at' = at /\ \A t \in Callers : at[t] = "outside"
    BY <1>2 DEF Initialize, DisplayQueue!Reset, NotBegun
  <2>2. QueueTyped'
    BY <1>0, <2>1, EmptySeq DEF QueueInv, QueueTyped
  <2>3. Len(items') <= QueueSize'
    BY <2>1 DEF QueueSize
  <2>4. SleepersRight'
    BY <2>1, <2>3, Places DEF SleepersRight, Callers
  <2> QED
    BY <2>2, <2>4 DEF QueueInv
<1>3. ASSUME NEW g \in Guests, Enqueue(g) PROVE QueueInv'
  <2>1. CASE DisplayQueue!PushWaits(g)
    <3>1. items # <<>>
      BY <2>1 DEF DisplayQueue!PushWaits, QueueSize
    <3> QED
      BY <1>0, <2>1, <3>1, WaitKeepsQueue DEF DisplayQueue!PushWaits, Callers
  <2>2. CASE DisplayQueue!Push(g, call[g])
    BY <1>0, <2>2, PushKeepsQueue DEF Typed, GuestTyped
  <2>3. CASE DisplayQueue!PushRefused(g)
    BY <1>0, <2>3, Places
       DEF DisplayQueue!PushRefused, QueueInv, QueueTyped, SleepersRight, QueueSize
  <2> QED
    BY <1>3, <2>1, <2>2, <2>3 DEF Enqueue
<1>4. ASSUME NEW g \in Guests, Drain(g) PROVE QueueInv'
  <2>1. CASE DisplayQueue!EmptyWaits(g)
    BY <1>0, <2>1, WaitKeepsQueue DEF DisplayQueue!EmptyWaits, Callers
  <2>2. CASE DisplayQueue!EmptySeen(g)
    BY <1>0, <2>2, Places
       DEF DisplayQueue!EmptySeen, QueueInv, QueueTyped, SleepersRight, QueueSize
  <2> QED
    BY <1>4, <2>1, <2>2 DEF Drain
<1>5. ASSUME NEW g \in Guests, AbortQueue(g) PROVE QueueInv'
  BY <1>0, <1>5, AbortKeepsQueue DEF AbortQueue
<1>6. ASSUME NEW t \in Callers, Sleep(t) PROVE QueueInv'
  BY <1>0, <1>6, SleepKeepsQueue DEF Sleep
<1>7. ASSUME UNCHANGED queue \/ DisplayQueue!TakeRefused(Display) \/ DisplayQueue!Top(Display)
      PROVE  QueueInv'
  BY <1>0, <1>7, Places
     DEF DisplayQueue!TakeRefused, DisplayQueue!Top, QueueInv, QueueTyped, SleepersRight,
         QueueSize, queue
<1>8. CASE HostTop
  <2>1. CASE DisplayQueue!TakeWaits(Display)
    BY <1>0, <2>1, WaitKeepsQueue DEF DisplayQueue!TakeWaits, Callers
  <2> QED
    BY <1>7, <1>8, <2>1 DEF HostTop
<1>9. CASE HostPop
  BY <1>0, <1>7, <1>9, PopKeepsQueue DEF HostPop
<1> QED
  BY <1>1, <1>2, <1>3, <1>4, <1>5, <1>6, <1>8, <1>9, QueueSteps DEF Callers

-----------------------------------------------------------------------------
DisplayInv == Typed /\ SleepersRight /\ NotBegun

LEMMA InitDisplayInv == Init => DisplayInv
<1> SUFFICES ASSUME Init PROVE DisplayInv
  OBVIOUS
<1>1. QueueTyped
  BY Places, EmptySeq DEF Init, DisplayQueue!Create, QueueTyped, Callers
<1>2. RendererTyped
  BY EmptySeq, GxmDisplayAssumption DEF Init, RendererTyped, Rests
<1>3. SyncTyped
  BY DEF Init, SyncTyped, Stamps
<1>4. GuestTyped
  BY AnyEntryTyped, EmptySeq DEF Init, GuestTyped
<1>5. HostTyped
  BY AnyEntryTyped DEF Init, HostTyped, Vitas
<1>6. HistoryTyped
  BY EmptySeq DEF Init, HistoryTyped, Stamps
<1>7. SleepersRight
  BY Places DEF Init, DisplayQueue!Create, SleepersRight, Callers, QueueSize
<1>8. NotBegun
  BY DEF Init, DisplayQueue!Create, NotBegun, Callers
<1> QED
  BY <1>1, <1>2, <1>3, <1>4, <1>5, <1>6, <1>7, <1>8 DEF DisplayInv, Typed

LEMMA NextKeepsDisplayInv == DisplayInv /\ [Next]_vars => DisplayInv'
<1> SUFFICES ASSUME DisplayInv, [Next]_vars PROVE DisplayInv'
  OBVIOUS
<1> USE DEF DisplayInv
<1>1. RendererTyped' /\ SyncTyped' /\ GuestTyped' /\ HostTyped' /\ HistoryTyped'
  BY RendererKeepsType, SyncKeepsType, GuestKeepsType, HostKeepsType, HistoryKeepsType
<1>2. QueueTyped' /\ SleepersRight'
  BY NextKeepsQueue DEF QueueInv
<1>3. NotBegun'
  BY NextKeepsNotBegun
<1> QED
  BY <1>1, <1>2, <1>3 DEF Typed

LEMMA SpecDisplayInv == Spec => []DisplayInv
BY InitDisplayInv, NextKeepsDisplayInv, PTL DEF Spec

(* The variables keep their types, stamps and histories being unbounded.    *)
THEOREM GxmDisplayTypeCorrect == Spec => []TypeOK
<1>1. DisplayInv => TypeOK
  BY TypedImpliesTypeOK DEF DisplayInv
<1> QED
  BY <1>1, SpecDisplayInv, PTL

(* The display queue implements the bounded fifo: no entry is lost, doubled,*)
(* overtaken or over the limit.                                             *)
THEOREM DisplayQueueKeepsPromise == Spec => QueueKeepsPromise
<1>1. Init => Fifo!Init
  BY DEF Init, DisplayQueue!Create, Fifo!Init
<1>2. ASSUME DisplayInv, [Next]_vars
      PROVE  [Fifo!Next]_<<items, ~aborted>>
  <2>0. QueueInv /\ items \in Seq(Entries)
    BY <1>2 DEF DisplayInv, Typed, QueueInv, QueueTyped
  <2>1. CASE UNCHANGED queue
    BY <2>1 DEF queue
  <2>2. ASSUME NEW g \in Guests, Initialize(g) PROVE Fifo!Renew
    BY <2>2 DEF Initialize, DisplayQueue!Reset, Fifo!Renew
  <2>3. ASSUME NEW g \in Guests, Enqueue(g) PROVE Fifo!Put \/ UNCHANGED <<items, aborted>>
    <3>1. ASSUME DisplayQueue!Push(g, call[g]) PROVE Fifo!Put
      <4>1. call[g] \in Entries
        BY <1>2 DEF DisplayInv, Typed, GuestTyped
      <4>2. /\ items' = Append(items, call[g]) /\ ~aborted /\ aborted' = aborted
            /\ Len(items) < QueueSize
        BY <2>0, <3>1, <4>1, PushKeepsQueue DEF DisplayQueue!Push
      <4>3. Len(items') = Len(items) + 1 /\ SubSeq(items', 1, Len(items)) = items
        BY <2>0, <4>1, <4>2, AppendProperties, SubSeqFull, SubSeqProperties
      <4> QED
        BY <4>2, <4>3 DEF Fifo!Put
    <3> QED
      BY <2>3, <3>1 DEF Enqueue, DisplayQueue!PushWaits, DisplayQueue!PushRefused,
                        DisplayQueue!Wait
  <2>4. ASSUME NEW g \in Guests, Drain(g) PROVE UNCHANGED <<items, aborted>>
    BY <2>4 DEF Drain, DisplayQueue!EmptyWaits, DisplayQueue!EmptySeen, DisplayQueue!Wait
  <2>5. ASSUME NEW g \in Guests, AbortQueue(g) PROVE Fifo!Close
    BY <2>5 DEF AbortQueue, DisplayQueue!Abort, Fifo!Close
  <2>6. ASSUME NEW t \in Callers, Sleep(t) PROVE UNCHANGED <<items, aborted>>
    BY <2>6 DEF Sleep, DisplayQueue!FallAsleep
  <2>7. CASE HostTop
    BY <2>7 DEF HostTop, DisplayQueue!TakeWaits, DisplayQueue!TakeRefused, DisplayQueue!Top,
                DisplayQueue!Wait
  <2>8. CASE HostPop
    BY <2>8 DEF HostPop, DisplayQueue!Pop, DisplayQueue!TakeRefused, Fifo!Get, Fifo!Next
  <2> QED
    BY <1>2, <2>1, <2>2, <2>3, <2>4, <2>5, <2>6, <2>7, <2>8, QueueSteps DEF Fifo!Next, Callers
<1> QED
  BY <1>1, <1>2, SpecDisplayInv, PTL DEF Spec, QueueKeepsPromise, Fifo!Spec

-----------------------------------------------------------------------------
(* What keeps the frames in order.                                          *)

IsDraw(b, p) == p \in 1..ahead[b] /\ asked[b][p] = "draw"
IsFlip(b, p) == p \in 1..ahead[b] /\ asked[b][p] = "flip"

(* Every flip of b before p has a position up to w; is over.                *)
FlipsUpTo(b, p, w) == \A q \in 1..(p - 1) : asked[b][q] = "flip" => q <= w
Cleared(b, p) == \A q \in 1..(p - 1) : asked[b][q] = "flip" => q \in finished[b]

(* The renderer's commands in the order it comes to them: what is left of   *)
(* the list it is at, and the queue.                                        *)
Pipe(i) == IF i = 0 THEN work ELSE commands[i]
Spots == 0..Len(commands)
Has(list, op, b, p) == \E k \in DOMAIN list : list[k] = Command(op, b, p)
InPipe(i, op, b, p) == Has(Pipe(i), op, b, p)
Requested(i, b, p) == requests[i] = Command("signal", b, p)

(* List i begins with a wait for all flips of b before p.                   *)
WaitsFor(i, b, p) ==
  \E w \in Stamps : Head(commands[i]) = Command("wait", b, w) /\ FlipsUpTo(b, p, w)

(* A call is about to submit its work on b, all of it or the signal only.   *)
Submitting(g, b) == pc[g] = "submit" /\ call[g].old = b
SignalOnly(g, b) == lists[g] = << <<Command("signal", b, ahead[b])>> >>
DrawFirst(g, b) ==
  lists[g] = << <<Command("draw", b, ahead[b])>>, <<Command("signal", b, ahead[b])>> >>

(* The stamp an entry takes on a buffer.                                    *)
FlipAt(e, b, p) ==
  (b = e.old /\ p = e.oldStamp + 1) \/ (b = e.new /\ p = e.newStamp + 1)

(* No two threads are in the middle of using one buffer.                    *)
UsedApart == \A g, h \in Guests : g # h => Using(g) \cap Using(h) = {}

(* What a call has still to submit, and the stamps it has taken.            *)
CallRight(g) ==
  LET b == call[g].old
  IN  /\ pc[g] \notin {"transfer", "submit", "newFrame"} => lists[g] = <<>>
      /\ pc[g] \in {"scene", "transfer", "submit"} =>
           call[g] = AboutOne(b, lastDisplay[b])
      /\ pc[g] = "transfer" =>
           lists[g] \in {<<>>, << <<Command("wait", b, lastDisplay[b])>> >>}
      /\ pc[g] = "submit" =>
           \/ lists[g] = <<Scene(b, lastDisplay[b], ahead[b])>>
           \/ DrawFirst(g, b) \/ SignalOnly(g, b)
      /\ pc[g] = "newFrame" => lists[g] = << <<Command("other", call[g].new, 0)>> >>
      /\ pc[g] = "stamp" => /\ call[g].oldStamp = ahead[call[g].old]
                            /\ call[g].newStamp = ahead[call[g].new]
      /\ pc[g] = "enqueue" => /\ call[g].oldStamp + 1 = ahead[call[g].old]
                              /\ call[g].newStamp + 1 = ahead[call[g].new]

CallsRight == \A g \in Guests : CallRight(g)

(* The histories: work begins after it was asked for and is over after it   *)
(* began, and all work up to timestamp_current is over.                     *)
HistoryRight ==
  \A b \in Buffers :
    /\ Len(asked[b]) = ahead[b]
    /\ \A q \in 1..ahead[b] : asked[b][q] = "flip" => q <= lastDisplay[b]
    /\ lastDisplay[b] <= ahead[b]
    /\ finished[b] \subseteq begun[b] /\ begun[b] \subseteq 1..ahead[b]
    /\ 1..current[b] \subseteq finished[b]

(* Commands on one buffer are in the pipe in the order of their stamps,     *)
(* behind the signals that wait for a fence.                                *)
PipeOrdered ==
  \A b \in Buffers, p, q \in Stamps :
    /\ \A op \in {"draw", "signal"}, i, j \in Spots :
         i < j /\ InPipe(i, op, b, p) /\ InPipe(j, op, b, q) => p < q
    /\ \A i \in DOMAIN requests :
         Requested(i, b, p) =>
           /\ \A j \in DOMAIN requests : i < j /\ Requested(j, b, q) => p < q
           /\ \A j \in Spots : InPipe(j, "signal", b, q) => p < q

(* The flips of b before p are over, or one of the first k lists will be    *)
(* held back until they are.                                                *)
Behind(k, b, p) == Cleared(b, p) \/ \E i \in 1..k : WaitsFor(i, b, p)
Awaited(b, p) == Behind(Len(commands), b, p)

(* A draw in the pipe has not begun, and comes behind all flips asked for   *)
(* earlier; one that is not in the pipe has begun or is not submitted yet.  *)
DrawsRight ==
  \A b \in Buffers, p \in Stamps :
    /\ \A i \in Spots : InPipe(i, "draw", b, p) =>
         IsDraw(b, p) /\ p \notin begun[b] /\ Behind(i, b, p)
    /\ IsDraw(b, p) /\ p \notin begun[b] =>
         \/ \E i \in Spots : InPipe(i, "draw", b, p)
         \/ p = ahead[b] /\ \E g \in Guests : Submitting(g, b) /\ ~SignalOnly(g, b)
    /\ IsDraw(b, p) /\ p \in begun[b] => Cleared(b, p)

(* A signal in the pipe is for a draw that is not over, and comes behind it.*)
SignalsRight ==
  \A b \in Buffers, p \in Stamps :
    /\ \A i \in Spots : InPipe(i, "signal", b, p) =>
         /\ IsDraw(b, p) /\ p \notin finished[b]
         /\ p \in begun[b] \/ \E j \in 0..i : InPipe(j, "draw", b, p)
    /\ \A i \in DOMAIN requests : Requested(i, b, p) =>
         IsDraw(b, p) /\ p \in begun[b] \ finished[b]
    /\ IsDraw(b, p) /\ p \notin finished[b] =>
         \/ \E i \in Spots : InPipe(i, "signal", b, p)
         \/ \E i \in DOMAIN requests : Requested(i, b, p)
         \/ p = ahead[b] /\ \E g \in Guests : Submitting(g, b)

(* What a call has not submitted yet is nowhere else, and the wait that     *)
(* belongs to it is submitted first.                                        *)
Transferring(g, b) == pc[g] = "transfer" /\ lists[g] = <<>> /\ call[g].old = b
SubmissionRight(g, b, p) ==
  /\ Transferring(g, b) /\ p = ahead[b] + 1 => Awaited(b, p)
  /\ Submitting(g, b) /\ p = ahead[b] =>
       /\ IsDraw(b, p) /\ p \notin finished[b]
       /\ \A i \in Spots : ~InPipe(i, "signal", b, p)
       /\ \A i \in DOMAIN requests : ~Requested(i, b, p)
       /\ ~SignalOnly(g, b) =>
            p \notin begun[b] /\ \A i \in Spots : ~InPipe(i, "draw", b, p)
       /\ DrawFirst(g, b) => Awaited(b, p)
       /\ SignalOnly(g, b) => p \in begun[b] \/ \E i \in Spots : InPipe(i, "draw", b, p)
SubmissionsRight ==
  \A g \in Guests, b \in Buffers, p \in Stamps : SubmissionRight(g, b, p)

(* The renderer keeps to its mode, and only signals wait for fences.        *)
RequestsRight ==
  /\ \A i \in DOMAIN requests : requests[i].op = "signal"
  /\ ~accurate => requests = <<>>

PipeInv ==
  /\ PipeOrdered /\ DrawsRight /\ SignalsRight /\ SubmissionsRight /\ RequestsRight

(* An entry takes one stamp of each of its buffers.                         *)
OneStampEach(e) == e.old = e.new => e.oldStamp = e.newStamp

(* The entries still to be shown, in the queue, with the display thread or  *)
(* about to be queued, are for different flips, which have not begun.  What *)
(* is in the queue after an abort is never shown.                           *)
FlipsRight ==
  /\ ~aborted => \A i \in DOMAIN items : OneStampEach(items[i])
  /\ ~aborted => \A i \in DOMAIN items, b \in Buffers, p \in Stamps :
       FlipAt(items[i], b, p) =>
         /\ IsFlip(b, p) /\ p \notin begun[b]
         /\ \A j \in DOMAIN items : FlipAt(items[j], b, p) => i = j
         /\ host = "start" => ~FlipAt(entry, b, p)
         /\ \A g \in Guests : pc[g] = "enqueue" => ~FlipAt(call[g], b, p)
  /\ \A g \in Guests : pc[g] \in {"stamp", "enqueue"} => OneStampEach(call[g])
  /\ \A g \in Guests, b \in Buffers, p \in Stamps :
       pc[g] = "enqueue" /\ FlipAt(call[g], b, p) => IsFlip(b, p) /\ p \notin begun[b]

(* The entry the display thread is at.                                      *)
EntryRight ==
  host \in {"pop", "start", "callback", "signal"} =>
    /\ OneStampEach(entry)
    /\ ~aborted /\ host = "pop" => items # <<>> /\ entry = Head(items)
    /\ \A b \in Buffers, p \in Stamps :
         FlipAt(entry, b, p) =>
           /\ IsFlip(b, p)
           /\ host \in {"pop", "start"} =>
                /\ p \notin begun[b]
                /\ \A g \in Guests : pc[g] = "enqueue" => ~FlipAt(call[g], b, p)
           /\ host = "callback" => p \in begun[b] \ finished[b]
           /\ host = "signal" => p \in finished[b]
           /\ host # "pop" => p <= current[b] + 1

FramesInv ==
  UsedApart /\ CallsRight /\ HistoryRight /\ PipeInv /\ FlipsRight /\ EntryRight

-----------------------------------------------------------------------------
(* Calls.                                                                   *)

(* Types in a handier form.                                                 *)
LEMMA GuestFields ==
  ASSUME DisplayInv, NEW g \in Guests
  PROVE  /\ call[g] \in Entries /\ call[g].old \in Buffers /\ call[g].new \in Buffers
         /\ call[g].oldStamp \in Nat /\ call[g].newStamp \in Nat
         /\ lists[g] \in Seq(Lists)
BY DEF DisplayInv, Typed, GuestTyped, Entries, Stamps

LEMMA BufferFields ==
  ASSUME DisplayInv, NEW b \in Buffers
  PROVE  /\ ahead[b] \in Nat /\ current[b] \in Nat /\ lastDisplay[b] \in Nat
         /\ asked[b] \in Seq({"draw", "flip"})
         /\ begun[b] \in SUBSET Nat /\ finished[b] \in SUBSET Nat
BY DEF DisplayInv, Typed, SyncTyped, HistoryTyped, Stamps

(* A call is not disturbed by what others do to other buffers.              *)
LEMMA OtherCallRight ==
  ASSUME DisplayInv, NEW h \in Guests, CallRight(h),
         pc'[h] = pc[h], call'[h] = call[h], lists'[h] = lists[h],
         \A b \in Using(h) : ahead'[b] = ahead[b] /\ lastDisplay'[b] = lastDisplay[b]
  PROVE  CallRight(h)'
<1>1. pc[h] \in {"scene", "stamp", "enqueue", "submit", "transfer"} =>
        /\ ahead'[call[h].old] = ahead[call[h].old] /\ ahead'[call[h].new] = ahead[call[h].new]
        /\ lastDisplay'[call[h].old] = lastDisplay[call[h].old]
  BY DEF Using
<1> QED
  BY <1>1 DEF CallRight, DrawFirst, SignalOnly

(* Guests outside of the calls that use buffers.                            *)
Quiet == {"idle", "drain", "terminate", "abort", "kill"}

LEMMA QuietCallRight ==
  ASSUME NEW h \in Guests, pc'[h] \in Quiet, lists'[h] = <<>>
  PROVE  CallRight(h)'
BY DEF CallRight, Quiet

LEMMA QuietUsed ==
  ASSUME UsedApart,
         \A h \in Guests : Using(h)' \subseteq Using(h)
  PROVE  UsedApart'
BY DEF UsedApart

(* A step of guest g that touches only the buffers it uses, and takes only  *)
(* free ones, disturbs no call of another.                                  *)
LEMMA GuestStep ==
  ASSUME DisplayInv, UsedApart, CallsRight, NEW g \in Guests,
         \A h \in Guests \ {g} : pc'[h] = pc[h] /\ call'[h] = call[h] /\ lists'[h] = lists[h],
         \A b \in Buffers : Free(b) => ahead'[b] = ahead[b] /\ lastDisplay'[b] = lastDisplay[b],
         \A b \in Buffers : b \notin Using(g) /\ ~Free(b) =>
           ahead'[b] = ahead[b] /\ lastDisplay'[b] = lastDisplay[b],
         \A b \in Using(g)' : b \in Using(g) \/ Free(b),
         CallRight(g)'
  PROVE  UsedApart' /\ CallsRight'
<1>1. \A h \in Guests \ {g} : Using(h)' = Using(h)
  BY DEF Using
<1>2. UsedApart'
  BY <1>1 DEF UsedApart, Free
<1>3. ASSUME NEW h \in Guests \ {g} PROVE CallRight(h)'
  <2>1. Using(h) \subseteq Buffers
    BY GuestFields DEF Using
  <2>2. ASSUME NEW b \in Using(h) PROVE ahead'[b] = ahead[b] /\ lastDisplay'[b] = lastDisplay[b]
    BY <2>1, <2>2 DEF UsedApart, Free
  <2> QED
    BY <2>2, OtherCallRight DEF CallsRight
<1> QED
  BY <1>2, <1>3 DEF CallsRight

LEMMA StartsKeepCalls ==
  ASSUME DisplayInv, UsedApart, CallsRight, NEW g \in Guests, NEW b \in Buffers,
         BeginScene(g, b) \/ Transfer(g, b)
  PROVE  UsedApart' /\ CallsRight'
<1>0. GuestTyped /\ SyncTyped
  BY DEF DisplayInv, Typed
<1>1. CallRight(g)
  BY DEF CallsRight
<1>2. /\ pc[g] = "idle" /\ Free(b) /\ UNCHANGED <<ahead, lastDisplay>>
      /\ call' = [call EXCEPT ![g] = AboutOne(b, lastDisplay[b])]
  BY DEF BeginScene, Transfer, Starts, sync
<1>3. \/ pc' = [pc EXCEPT ![g] = "scene"] /\ lists' = lists
      \/ /\ pc' = [pc EXCEPT ![g] = "transfer"]
         /\ lists' = [lists EXCEPT ![g] = << <<Command("wait", b, lastDisplay[b])>> >>]
  BY DEF BeginScene, Transfer, Goto
<1>4. \A h \in Guests \ {g} : pc'[h] = pc[h] /\ call'[h] = call[h] /\ lists'[h] = lists[h]
  BY <1>0, <1>2, <1>3 DEF GuestTyped
<1>5. call'[g] = AboutOne(b, lastDisplay[b]) /\ call'[g].old = b /\ call'[g].new = b
  BY <1>0, <1>2 DEF GuestTyped, AboutOne
<1>6. Using(g)' \subseteq {b}
  BY <1>5 DEF Using
<1>7. CallRight(g)'
  BY <1>0, <1>1, <1>2, <1>3, <1>5 DEF CallRight, GuestTyped
<1> QED
  BY <1>2, <1>4, <1>6, <1>7, GuestStep

LEMMA DrawKeepsCalls ==
  ASSUME DisplayInv, UsedApart, CallsRight, HistoryRight, NEW g \in Guests,
         EndScene(g) \/ TransferStamp(g)
  PROVE  UsedApart' /\ CallsRight'
<1> DEFINE b == call[g].old
<1>0. GuestTyped /\ SyncTyped /\ b \in Buffers /\ ahead[b] \in Nat
  BY GuestFields, BufferFields DEF DisplayInv, Typed
<1>1. call[g] = AboutOne(b, lastDisplay[b]) /\ call[g].oldStamp = lastDisplay[b]
  BY DEF CallsRight, CallRight, EndScene, TransferStamp, AboutOne
<1>2. /\ pc[g] \in {"scene", "transfer"} /\ Ahead({b}) /\ UNCHANGED <<lastDisplay, call>>
      /\ pc' = [pc EXCEPT ![g] = "submit"]
  BY DEF EndScene, TransferStamp, Goto
<1>3. \/ lists' = [lists EXCEPT ![g] = <<Scene(b, lastDisplay[b], ahead[b] + 1)>>]
      \/ lists' = [lists EXCEPT ![g] = << <<Command("draw", b, ahead[b] + 1)>>,
                                         <<Command("signal", b, ahead[b] + 1)>> >>]
  BY <1>1 DEF EndScene, TransferStamp, Scene
<1>4. ahead'[b] = ahead[b] + 1 /\ \A c \in Buffers \ {b} : ahead'[c] = ahead[c]
  BY <1>0, <1>2 DEF Ahead
<1>5. \A h \in Guests \ {g} : pc'[h] = pc[h] /\ call'[h] = call[h] /\ lists'[h] = lists[h]
  BY <1>0, <1>2, <1>3 DEF GuestTyped
<1>6. Using(g) = {b} /\ Using(g)' = {b}
  <2>1. call[g].new = b
    BY <1>1 DEF AboutOne
  <2> QED
    BY <1>0, <1>2, <2>1 DEF Using, GuestTyped
<1>7. CallRight(g)'
  <2>1. pc'[g] = "submit" /\ call'[g] = call[g]
    BY <1>0, <1>2 DEF GuestTyped
  <2>2. lists'[g] = <<Scene(b, lastDisplay[b], ahead'[b])>> \/ DrawFirst(g, b)'
    BY <1>0, <1>2, <1>3, <1>4 DEF GuestTyped, DrawFirst
  <2> QED
    BY <1>1, <1>2, <2>1, <2>2 DEF CallRight, DrawFirst
<1> QED
  <2>1. ~Free(b)
    BY <1>6 DEF Free
  <2> QED
    BY <1>2, <1>4, <1>5, <1>6, <1>7, <2>1, GuestStep

(* What a call that submits has in hand, list by list.                      *)
LEMMA Submissions ==
  ASSUME DisplayInv, CallsRight, NEW g \in Guests, Submit(g)
  PROVE  LET b == call[g].old
         IN  \/ /\ pc[g] = "transfer" /\ lists[g] = << <<Command("wait", b, lastDisplay[b])>> >>
                /\ UNCHANGED <<pc, call>> /\ lists'[g] = <<>>
             \/ /\ pc[g] = "newFrame" /\ lists[g] = << <<Command("other", call[g].new, 0)>> >>
                /\ pc'[g] \in {"idle", "drain"} /\ lists'[g] = <<>>
             \/ /\ pc[g] = "submit" /\ lists[g] = <<Scene(b, lastDisplay[b], ahead[b])>>
                /\ pc'[g] = "idle" /\ lists'[g] = <<>>
             \/ /\ pc[g] = "submit" /\ DrawFirst(g, b)
                /\ UNCHANGED <<pc, call>> /\ SignalOnly(g, b)'
             \/ /\ pc[g] = "submit" /\ SignalOnly(g, b)
                /\ pc'[g] = "idle" /\ lists'[g] = <<>>
<1> DEFINE b == call[g].old
<1>0. GuestTyped
  BY DEF DisplayInv, Typed
<1>1. /\ lists[g] # <<>> /\ lists' = [lists EXCEPT ![g] = Tail(@)] /\ UNCHANGED ahead
      /\ CASE Len(lists[g]) > 1 \/ pc[g] = "transfer" -> UNCHANGED <<pc, call>>
           [] pc[g] = "newFrame" /\ MaxPending = 1 -> Goto(g, "drain") /\ UNCHANGED call
           [] OTHER -> Return(g)
  BY DEF Submit, sync
<1>2. lists'[g] = Tail(lists[g])
  BY <1>0, <1>1 DEF GuestTyped
<1>3. pc[g] \in {"transfer", "submit", "newFrame"} /\ CallRight(g)
  BY <1>1 DEF CallsRight, CallRight
<1>4. CASE pc[g] = "transfer"
  <2>1. lists[g] = << <<Command("wait", b, lastDisplay[b])>> >>
    BY <1>1, <1>3, <1>4 DEF CallRight
  <2> QED
    BY <1>1, <1>2, <1>4, <2>1
<1>5. CASE pc[g] = "newFrame"
  <2>1. lists[g] = << <<Command("other", call[g].new, 0)>> >>
    BY <1>3, <1>5 DEF CallRight
  <2>2. Goto(g, "drain") \/ Goto(g, "idle")
    BY <1>1, <1>5, <2>1 DEF Return
  <2> QED
    BY <1>0, <1>2, <1>5, <2>1, <2>2 DEF Goto, GuestTyped
<1>6. CASE pc[g] = "submit" /\ DrawFirst(g, b)
  BY <1>1, <1>2, <1>6 DEF DrawFirst, SignalOnly
<1>7. CASE pc[g] = "submit" /\ ~DrawFirst(g, b)
  <2>1. lists[g] = <<Scene(b, lastDisplay[b], ahead[b])>> \/ SignalOnly(g, b)
    BY <1>3, <1>7 DEF CallRight
  <2>2. Len(lists[g]) = 1 /\ Tail(lists[g]) = <<>>
    <3>1. PICK l : lists[g] = <<l>>
      BY <2>1 DEF SignalOnly
    <3> QED
      BY <3>1
  <2> QED
    BY <1>0, <1>1, <1>2, <1>7, <2>1, <2>2 DEF Return, Goto, GuestTyped
<1> QED
  BY <1>3, <1>4, <1>5, <1>6, <1>7

LEMMA SubmitKeepsCalls ==
  ASSUME DisplayInv, UsedApart, CallsRight, NEW g \in Guests, Submit(g)
  PROVE  UsedApart' /\ CallsRight'
<1> DEFINE b == call[g].old
<1>0. GuestTyped /\ CallRight(g)
  BY DEF DisplayInv, Typed, CallsRight
<1>1. UNCHANGED <<ahead, lastDisplay>> /\ lists' = [lists EXCEPT ![g] = Tail(@)]
  BY DEF Submit, sync
<1>2. /\ \A h \in Guests \ {g} : pc'[h] = pc[h] /\ call'[h] = call[h] /\ lists'[h] = lists[h]
  BY <1>0, <1>1 DEF GuestTyped, Submit, Return, Goto
<1>3. Using(g)' \subseteq Using(g)
  BY Submissions DEF Using
<1>4. CallRight(g)'
  <2>1. CASE pc'[g] \in {"idle", "drain"} /\ lists'[g] = <<>>
    BY <2>1, QuietCallRight DEF Quiet
  <2>2. CASE pc[g] = "transfer" /\ UNCHANGED <<pc, call>> /\ lists'[g] = <<>>
    BY <1>0, <1>1, <2>2 DEF CallRight
  <2>3. CASE pc[g] = "submit" /\ UNCHANGED <<pc, call>> /\ SignalOnly(g, b)'
    <3>1. call'[g].old = b
      BY <2>3
    <3> QED
      BY <1>0, <1>1, <2>3, <3>1 DEF CallRight, SignalOnly
  <2> QED
    BY <2>1, <2>2, <2>3, Submissions
<1> QED
  BY <1>1, <1>2, <1>3, <1>4, GuestStep

LEMMA EntryKeepsCalls ==
  ASSUME DisplayInv, UsedApart, CallsRight, NEW g \in Guests,
         StampEntry(g) \/ Enqueue(g) \/ \E old, new \in Buffers : AddEntry(g, old, new)
  PROVE  UsedApart' /\ CallsRight'
<1>0. GuestTyped /\ SyncTyped /\ CallRight(g)
  BY DEF DisplayInv, Typed, CallsRight
<1>1. \A h \in Guests \ {g} : pc'[h] = pc[h] /\ call'[h] = call[h] /\ lists'[h] = lists[h]
  BY <1>0 DEF GuestTyped, StampEntry, Enqueue, AddEntry, Goto
<1>2. CASE StampEntry(g)
  <2> DEFINE B == {call[g].old, call[g].new}
  <2>1. /\ pc[g] = "stamp" /\ pc'[g] = "enqueue" /\ UNCHANGED <<call, lists>> /\ Ahead(B)
        /\ lastDisplay' = [b \in Buffers |-> IF b \in B THEN ahead'[b] ELSE lastDisplay[b]]
    BY <1>0, <1>2 DEF StampEntry, Goto, GuestTyped
  <2>2. B \subseteq Buffers /\ \A b \in B : ahead'[b] = ahead[b] + 1 /\ ahead[b] \in Nat
    BY <2>1, GuestFields, BufferFields DEF Ahead
  <2>3. \A b \in Buffers \ B : ahead'[b] = ahead[b] /\ lastDisplay'[b] = lastDisplay[b]
    BY <2>1 DEF Ahead
  <2>4. Using(g) = B /\ Using(g)' = B
    BY <2>1 DEF Using
  <2>5. CallRight(g)'
    BY <1>0, <2>1, <2>2 DEF CallRight
  <2>6. \A b \in B : ~Free(b)
    BY <2>4 DEF Free
  <2> QED
    BY <1>1, <2>3, <2>4, <2>5, <2>6, GuestStep
<1>3. CASE Enqueue(g)
  <2>1. /\ pc[g] = "enqueue" /\ UNCHANGED <<ahead, lastDisplay, call>>
        /\ \/ UNCHANGED <<pc, lists>>
           \/ /\ pc'[g] = "newFrame"
              /\ lists'[g] = << <<Command("other", call[g].new, 0)>> >>
    BY <1>0, <1>3 DEF Enqueue, sync, Goto, GuestTyped
  <2>2. Using(g)' = Using(g)
    BY <2>1 DEF Using
  <2>3. CallRight(g)'
    BY <1>0, <2>1 DEF CallRight
  <2> QED
    BY <1>1, <2>1, <2>2, <2>3, GuestStep
<1>4. ASSUME NEW old \in Buffers, NEW new \in Buffers, AddEntry(g, old, new)
      PROVE  UsedApart' /\ CallsRight'
  <2>1. /\ pc[g] = "idle" /\ pc'[g] = "stamp" /\ UNCHANGED <<ahead, lastDisplay, lists>>
        /\ Free(old) /\ Free(new)
        /\ call'[g] = [old |-> old, new |-> new, oldStamp |-> ahead[old], newStamp |-> ahead[new]]
    BY <1>0, <1>4 DEF AddEntry, Starts, sync, Goto, GuestTyped
  <2>2. Using(g)' = {old, new}
    BY <2>1 DEF Using
  <2>3. CallRight(g)'
    BY <1>0, <2>1 DEF CallRight
  <2> QED
    BY <1>1, <2>1, <2>2, <2>3, GuestStep
<1> QED
  BY <1>2, <1>3, <1>4

LEMMA QuietKeepsCalls ==
  ASSUME DisplayInv, UsedApart, CallsRight, NEW g \in Guests,
         Finish(g) \/ Terminate(g) \/ Drain(g) \/ AbortQueue(g) \/ KillVita(g)
  PROVE  UsedApart' /\ CallsRight'
<1>0. GuestTyped /\ CallRight(g)
  BY DEF DisplayInv, Typed, CallsRight
<1>1. /\ \A h \in Guests \ {g} : pc'[h] = pc[h] /\ call'[h] = call[h] /\ lists'[h] = lists[h]
      /\ UNCHANGED <<ahead, lastDisplay, lists>>
  BY <1>0 DEF GuestTyped, Finish, Terminate, Drain, AbortQueue, KillVita, Goto, Return, sync
<1>2. pc[g] \in Quiet /\ pc'[g] \in Quiet
  BY <1>0 DEF GuestTyped, Finish, Terminate, Drain, AbortQueue, KillVita, Goto, Return, Quiet
<1>3. Using(g)' = {}
  BY <1>2 DEF Using, Quiet
<1>4. CallRight(g)'
  <2>1. lists'[g] = <<>>
    BY <1>0, <1>1, <1>2 DEF CallRight, Quiet
  <2> QED
    BY <1>2, <2>1, QuietCallRight
<1> QED
  BY <1>1, <1>3, <1>4, GuestStep

LEMMA CallsStay ==
  ASSUME DisplayInv, UsedApart, CallsRight, HistoryRight, [Next]_vars
  PROVE  UsedApart' /\ CallsRight'
<1>1. CASE UNCHANGED <<guest, ahead, lastDisplay>>
  <2>1. UsedApart'
    BY <1>1 DEF UsedApart, Using, guest
  <2>2. CallsRight'
    BY <1>1 DEF CallsRight, CallRight, DrawFirst, SignalOnly, guest
  <2> QED
    BY <2>1, <2>2
<1>2. CASE UNCHANGED guest
  <2>1. UNCHANGED <<ahead, lastDisplay>>
    <3>1. ASSUME NEW g \in Guests, EndScene(g) \/ TransferStamp(g) \/ StampEntry(g)
          PROVE  FALSE
      <4>1. pc[g] \in {"scene", "transfer", "stamp"} /\ pc'[g] \in {"submit", "enqueue"}
        BY <3>1 DEF EndScene, TransferStamp, StampEntry, Goto, DisplayInv, Typed, GuestTyped
      <4> QED
        BY <1>2, <4>1 DEF guest
    <3> QED
      BY <3>1, SyncSteps DEF sync, DoSignal, FencePassed, HostSignal
  <2> QED
    BY <1>1, <1>2, <2>1
<1> QED
  BY <1>2, GuestSteps, StartsKeepCalls, DrawKeepsCalls, SubmitKeepsCalls, EntryKeepsCalls,
     QuietKeepsCalls

-----------------------------------------------------------------------------
(* What is asked, begun and over only grows.                                *)

(* A drawing call takes one stamp of its buffer.                            *)
LEMMA DrawAsked ==
  ASSUME DisplayInv, NEW g \in Guests, EndScene(g) \/ TransferStamp(g)
  PROVE  LET b == call[g].old
         IN  /\ ahead'[b] = ahead[b] + 1 /\ asked'[b] = Append(asked[b], "draw")
             /\ \A c \in Buffers \ {b} : ahead'[c] = ahead[c] /\ asked'[c] = asked[c]
             /\ UNCHANGED <<renderer, current, lastDisplay, begun, finished>>
<1>1. call[g].old \in Buffers
  BY GuestFields
<1> QED
  BY <1>1 DEF EndScene, TransferStamp, Ahead, Ask

(* An entry takes one stamp of each of its buffers.                         *)
LEMMA FlipAsked ==
  ASSUME DisplayInv, NEW g \in Guests, StampEntry(g)
  PROVE  LET B == {call[g].old, call[g].new}
         IN  /\ \A b \in B : /\ ahead'[b] = ahead[b] + 1 /\ lastDisplay'[b] = ahead[b] + 1
                             /\ asked'[b] = Append(asked[b], "flip")
             /\ \A c \in Buffers \ B : /\ ahead'[c] = ahead[c] /\ asked'[c] = asked[c]
                                       /\ lastDisplay'[c] = lastDisplay[c]
             /\ UNCHANGED <<renderer, current, begun, finished>>
<1>1. call[g].old \in Buffers /\ call[g].new \in Buffers
  BY GuestFields
<1> QED
  BY <1>1 DEF StampEntry, Ahead, Ask

LEMMA AskSteps ==
  ASSUME DisplayInv, [Next]_vars
  PROVE  \/ UNCHANGED <<ahead, asked, lastDisplay>>
         \/ \E g \in Guests : EndScene(g) \/ TransferStamp(g) \/ StampEntry(g)
<1> SUFFICES ASSUME ~ \E g \in Guests : EndScene(g) \/ TransferStamp(g) \/ StampEntry(g)
             PROVE  UNCHANGED <<ahead, asked, lastDisplay>>
  OBVIOUS
<1>1. UNCHANGED <<ahead, lastDisplay>>
  BY SyncSteps DEF sync, DoSignal, FencePassed, HostSignal
<1>2. UNCHANGED asked
  BY HistorySteps DEF history, DoDraw, DoSignal, FencePassed, HostStart, HostCallbackOver
<1> QED
  BY <1>1, <1>2

LEMMA AskedGrows ==
  ASSUME DisplayInv, HistoryRight, [Next]_vars, NEW b \in Buffers
  PROVE  /\ ahead[b] <= ahead'[b]
         /\ \A p \in 1..ahead[b] : p \in 1..ahead'[b] /\ asked'[b][p] = asked[b][p]
<1>0. /\ ahead[b] \in Nat /\ Len(asked[b]) = ahead[b]
      /\ asked[b] \in Seq({"draw", "flip"})
  BY BufferFields DEF HistoryRight
<1>1. CASE UNCHANGED <<ahead, asked>>
  BY <1>0, <1>1
<1>2. ASSUME NEW kind \in {"draw", "flip"}, ahead'[b] = ahead[b] + 1,
             asked'[b] = Append(asked[b], kind)
      PROVE  /\ ahead[b] <= ahead'[b]
             /\ \A p \in 1..ahead[b] : p \in 1..ahead'[b] /\ asked'[b][p] = asked[b][p]
  BY <1>0, <1>2
<1>3. CASE ahead'[b] = ahead[b] /\ asked'[b] = asked[b]
  BY <1>0, <1>3
<1>4. ASSUME NEW g \in Guests, EndScene(g) \/ TransferStamp(g)
      PROVE  /\ ahead[b] <= ahead'[b]
             /\ \A p \in 1..ahead[b] : p \in 1..ahead'[b] /\ asked'[b][p] = asked[b][p]
  BY <1>2, <1>3, <1>4, DrawAsked
<1>5. ASSUME NEW g \in Guests, StampEntry(g)
      PROVE  /\ ahead[b] <= ahead'[b]
             /\ \A p \in 1..ahead[b] : p \in 1..ahead'[b] /\ asked'[b][p] = asked[b][p]
  BY <1>2, <1>3, <1>5, FlipAsked
<1> QED
  BY <1>1, <1>4, <1>5, AskSteps

(* The number of stamps is that of what was asked, and lastDisplay tells    *)
(* where the last flip is.                                                  *)
LEMMA StampsStay ==
  ASSUME DisplayInv, HistoryRight, [Next]_vars, NEW b \in Buffers
  PROVE  /\ Len(asked'[b]) = ahead'[b]
         /\ \A q \in 1..ahead'[b] : asked'[b][q] = "flip" => q <= lastDisplay'[b]
         /\ lastDisplay'[b] <= ahead'[b]
<1> DEFINE Good == /\ Len(asked'[b]) = ahead'[b]
                   /\ \A q \in 1..ahead'[b] : asked'[b][q] = "flip" => q <= lastDisplay'[b]
                   /\ lastDisplay'[b] <= ahead'[b]
<1>0. /\ ahead[b] \in Nat /\ Len(asked[b]) = ahead[b] /\ lastDisplay[b] \in Nat
      /\ asked[b] \in Seq({"draw", "flip"}) /\ lastDisplay[b] <= ahead[b]
      /\ \A q \in 1..ahead[b] : asked[b][q] = "flip" => q <= lastDisplay[b]
  BY BufferFields DEF HistoryRight
<1>1. CASE ahead'[b] = ahead[b] /\ asked'[b] = asked[b] /\ lastDisplay'[b] = lastDisplay[b]
  BY <1>0, <1>1
<1>2. ASSUME ahead'[b] = ahead[b] + 1, asked'[b] = Append(asked[b], "draw"),
             lastDisplay'[b] = lastDisplay[b]
      PROVE  Good
  BY <1>0, <1>2
<1>3. ASSUME ahead'[b] = ahead[b] + 1, asked'[b] = Append(asked[b], "flip"),
             lastDisplay'[b] = ahead[b] + 1
      PROVE  Good
  BY <1>0, <1>3
<1>4. ASSUME NEW g \in Guests, EndScene(g) \/ TransferStamp(g) PROVE Good
  BY <1>1, <1>2, <1>4, DrawAsked
<1>5. ASSUME NEW g \in Guests, StampEntry(g) PROVE Good
  BY <1>1, <1>3, <1>5, FlipAsked
<1> QED
  BY <1>1, <1>4, <1>5, AskSteps

(* Who is asked for what, after a step.                                     *)
LEMMA KindsStay ==
  ASSUME DisplayInv, HistoryRight, [Next]_vars, NEW b \in Buffers, NEW p \in Stamps
  PROVE  /\ IsDraw(b, p) => IsDraw(b, p)'
         /\ IsFlip(b, p) => IsFlip(b, p)'
         /\ IsDraw(b, p)' => \/ IsDraw(b, p)
                             \/ /\ p = ahead[b] + 1 /\ p = ahead'[b]
                                /\ \E g \in Guests : /\ call[g].old = b
                                                     /\ EndScene(g) \/ TransferStamp(g)
<1>0. /\ ahead[b] \in Nat /\ Len(asked[b]) = ahead[b] /\ p \in Nat
      /\ asked[b] \in Seq({"draw", "flip"})
  BY BufferFields DEF HistoryRight, Stamps
<1>1. (IsDraw(b, p) => IsDraw(b, p)') /\ (IsFlip(b, p) => IsFlip(b, p)')
  BY AskedGrows DEF IsDraw, IsFlip
<1> SUFFICES ASSUME IsDraw(b, p)', ~IsDraw(b, p)
             PROVE  /\ p = ahead[b] + 1 /\ p = ahead'[b]
                    /\ \E g \in Guests : /\ call[g].old = b
                                         /\ EndScene(g) \/ TransferStamp(g)
  BY <1>1
<1>2. CASE UNCHANGED <<ahead, asked>>
  BY <1>2 DEF IsDraw
<1>3. CASE ahead'[b] = ahead[b] /\ asked'[b] = asked[b]
  BY <1>3 DEF IsDraw
<1>4. ASSUME NEW g \in Guests, call[g].old = b, EndScene(g) \/ TransferStamp(g)
      PROVE  p = ahead[b] + 1 /\ p = ahead'[b]
  <2>1. ahead'[b] = ahead[b] + 1 /\ asked'[b] = Append(asked[b], "draw")
    BY <1>4, DrawAsked
  <2> QED
    BY <1>0, <2>1 DEF IsDraw
<1>5. ASSUME NEW g \in Guests, StampEntry(g) PROVE FALSE
  <2>1. CASE ahead'[b] = ahead[b] + 1 /\ asked'[b] = Append(asked[b], "flip")
    BY <1>0, <2>1 DEF IsDraw
  <2> QED
    BY <1>3, <1>5, <2>1, FlipAsked DEF IsDraw
<1>6. ASSUME NEW g \in Guests, EndScene(g) \/ TransferStamp(g)
      PROVE  call[g].old = b
  BY <1>6, DrawAsked DEF IsDraw
<1> QED
  BY <1>2, <1>4, <1>5, <1>6, AskSteps

-----------------------------------------------------------------------------
(* What the renderer's steps do to the pipe.                                *)

LEMMA SameCommand ==
  ASSUME NEW o1, NEW b1, NEW p1, NEW o2, NEW b2, NEW p2
  PROVE  /\ Command(o1, b1, p1) = Command(o2, b2, p2) <=> o1 = o2 /\ b1 = b2 /\ p1 = p2
         /\ Command(o1, b1, p1).op = o1
         /\ Command(o1, b1, p1).buffer = b1 /\ Command(o1, b1, p1).stamp = p1
<1>1. /\ Command(o1, b1, p1).op = o1 /\ Command(o1, b1, p1).buffer = b1
      /\ Command(o1, b1, p1).stamp = p1
  BY DEF Command
<1>2. /\ Command(o2, b2, p2).op = o2 /\ Command(o2, b2, p2).buffer = b2
      /\ Command(o2, b2, p2).stamp = p2
  BY DEF Command
<1> QED
  BY <1>1, <1>2

LEMMA CommandFields ==
  ASSUME NEW c \in Commands
  PROVE  /\ c = Command(c.op, c.buffer, c.stamp) /\ c.buffer \in Buffers /\ c.stamp \in Stamps
         /\ c.op \in {"wait", "draw", "signal", "other"}
BY DEF Command, Commands

(* The renderer is at a draw: the only one in its hands, which goes.        *)
LEMMA DrawStep ==
  ASSUME DisplayInv, DoDraw
  PROVE  \E b \in Buffers, p \in Stamps :
           /\ \A d, q : /\ InPipe(0, "draw", d, q) <=> d = b /\ q = p
                        /\ ~InPipe(0, "draw", d, q)'
                        /\ InPipe(0, "signal", d, q)' <=> InPipe(0, "signal", d, q)
           /\ begun'[b] = begun[b] \cup {p} /\ \A d \in Buffers \ {b} : begun'[d] = begun[d]
           /\ UNCHANGED <<commands, requests, accurate, finished, current, asked>>
<1>1. PICK c \in Commands :
        /\ c = Head(work) /\ work # <<>> /\ c.op = "draw" /\ work' = Tail(work)
        /\ begun' = [b \in Buffers |-> IF b \in {c.buffer} THEN begun[b] \cup {c.stamp} ELSE begun[b]]
        /\ UNCHANGED <<commands, requests, accurate, finished, current, asked>>
  BY WorkFields DEF DoDraw, Mark, sync, DisplayInv, Typed
<1>2. work \in Rests
  BY DEF DisplayInv, Typed, RendererTyped
<1>3. PICK b \in Buffers, p \in Stamps : c = Command("draw", b, p)
  BY <1>1, CommandFields
<1>4. work = <<c>> \/ work = <<c, Command("signal", b, p)>>
  <2>1. CASE \E d \in Commands : work = <<d>>
    BY <1>1, <2>1
  <2>2. ASSUME NEW d \in Buffers, NEW q \in Stamps,
               work = <<Command("draw", d, q), Command("signal", d, q)>>
        PROVE  work = <<c, Command("signal", b, p)>>
    <3>1. c = Command("draw", d, q)
      BY <1>1, <2>2
    <3> QED
      BY <1>3, <2>2, <3>1, SameCommand
  <2> QED
    BY <1>1, <1>2, <2>1, <2>2 DEF Rests
<1>5. c.buffer = b /\ c.stamp = p
  BY <1>3, SameCommand
<1>6. \A o, d, q : InPipe(0, o, d, q) <=> \E k \in DOMAIN work : work[k] = Command(o, d, q)
  BY DEF InPipe, Pipe, Has
<1>7. \A o, d, q : InPipe(0, o, d, q)' <=> \E k \in DOMAIN work' : work'[k] = Command(o, d, q)
  BY DEF InPipe, Pipe, Has
<1>8. \A d, q : /\ InPipe(0, "draw", d, q) <=> d = b /\ q = p
                /\ ~InPipe(0, "draw", d, q)'
                /\ InPipe(0, "signal", d, q)' <=> InPipe(0, "signal", d, q)
  <2>1. CASE work = <<c>>
    <3>1. work' = <<>>
      BY <1>1, <2>1
    <3> QED
      BY <1>3, <1>6, <1>7, <2>1, <3>1, SameCommand
  <2>2. CASE work = <<c, Command("signal", b, p)>>
    <3>1. work' = <<Command("signal", b, p)>>
      BY <1>1, <2>2
    <3>2. /\ DOMAIN work = {1, 2} /\ work[1] = Command("draw", b, p)
          /\ work[2] = Command("signal", b, p)
          /\ DOMAIN work' = {1} /\ work'[1] = Command("signal", b, p)
      BY <1>3, <2>2, <3>1
    <3> QED
      BY <1>6, <1>7, <3>2, SameCommand
  <2> QED
    BY <1>4, <2>1, <2>2
<1>9. begun'[b] = begun[b] \cup {p} /\ \A d \in Buffers \ {b} : begun'[d] = begun[d]
  BY <1>1, <1>5
<1>10. UNCHANGED <<commands, requests, accurate, finished, current, asked>>
  BY <1>1
<1> QED
  BY <1>8, <1>9, <1>10

(* The renderer is at a signal, the last command of its list.               *)
LEMMA SignalStep ==
  ASSUME DisplayInv, DoSignal
  PROVE  \E b \in Buffers, p \in Stamps :
           /\ \A o, c, q : InPipe(0, o, c, q) <=> o = "signal" /\ c = b /\ q = p
           /\ \A o, c, q : ~InPipe(0, o, c, q)'
           /\ UNCHANGED <<commands, accurate, asked, begun>>
           /\ \/ /\ accurate /\ requests' = Append(requests, Command("signal", b, p))
                 /\ UNCHANGED <<current, finished>>
              \/ /\ ~accurate /\ UNCHANGED requests /\ current'[b] = Later(b, p)
                 /\ finished'[b] = finished[b] \cup {p}
                 /\ \A c \in Buffers \ {b} : current'[c] = current[c] /\ finished'[c] = finished[c]
<1> DEFINE c == Head(work)
<1>1. /\ work # <<>> /\ c.op = "signal" /\ work' = Tail(work)
      /\ UNCHANGED <<commands, accurate, asked, begun>>
  BY DEF DoSignal
<1>2. c \in Commands /\ work \in Rests
  BY <1>1, WorkFields DEF DisplayInv, Typed, RendererTyped
<1>3. PICK b \in Buffers, p \in Stamps : c = Command("signal", b, p)
  BY <1>1, <1>2, CommandFields
<1>4. work = <<c>>
  <2>1. ASSUME NEW d \in Buffers, NEW q \in Stamps,
               work = <<Command("draw", d, q), Command("signal", d, q)>>
        PROVE  FALSE
    <3>1. Head(work) = Command("draw", d, q)
      BY <2>1
    <3> QED
      BY <1>3, <3>1, SameCommand
  <2> QED
    BY <1>1, <1>2, <2>1 DEF Rests
<1>5. work' = <<>>
  BY <1>1, <1>4
<1>6. \A o, d, q : /\ InPipe(0, o, d, q) <=> \E k \in DOMAIN work : work[k] = Command(o, d, q)
                   /\ InPipe(0, o, d, q)' <=> \E k \in DOMAIN work' : work'[k] = Command(o, d, q)
  BY DEF InPipe, Pipe, Has
<1>7. \A o, d, q : /\ InPipe(0, o, d, q) <=> o = "signal" /\ d = b /\ q = p
                   /\ ~InPipe(0, o, d, q)'
  <2>1. DOMAIN work = {1} /\ work[1] = Command("signal", b, p) /\ DOMAIN work' = {}
    BY <1>3, <1>4, <1>5
  <2> QED
    BY <1>6, <2>1, SameCommand
<1>8. \/ /\ accurate /\ requests' = Append(requests, Command("signal", b, p))
         /\ UNCHANGED <<current, finished>>
      \/ /\ ~accurate /\ UNCHANGED requests /\ current'[b] = Later(b, p)
         /\ finished'[b] = finished[b] \cup {p}
         /\ \A d \in Buffers \ {b} : current'[d] = current[d] /\ finished'[d] = finished[d]
  <2>1. c.buffer = b /\ c.stamp = p
    BY <1>3, SameCommand
  <2>2. CASE accurate
    BY <1>3, <2>2 DEF DoSignal
  <2>3. CASE ~accurate
    BY <2>1, <2>3 DEF DoSignal, Signal, Mark, DisplayInv, Typed, SyncTyped
  <2> QED
    BY <2>2, <2>3
<1> QED
  BY <1>1, <1>7, <1>8

(* A fence passes: the first of the waiting signals.                        *)
LEMMA FenceStep ==
  ASSUME DisplayInv, RequestsRight, FencePassed
  PROVE  \E b \in Buffers, p \in Stamps :
           /\ requests # <<>> /\ Requested(1, b, p) /\ 1 \in DOMAIN requests
           /\ \A i : i \in DOMAIN requests' <=> i \in Nat /\ i + 1 \in DOMAIN requests /\ i # 0
           /\ \A i, c, q : i \in DOMAIN requests' =>
                             (Requested(i, c, q)' <=> Requested(i + 1, c, q))
           /\ \A i \in DOMAIN requests' : requests'[i] = requests[i + 1]
           /\ UNCHANGED <<work, commands, accurate, asked, begun>>
           /\ current'[b] = Later(b, p) /\ finished'[b] = finished[b] \cup {p}
           /\ \A c \in Buffers \ {b} : current'[c] = current[c] /\ finished'[c] = finished[c]
<1>1. /\ requests # <<>> /\ requests' = Tail(requests) /\ requests \in Seq(Commands)
      /\ UNCHANGED <<work, commands, accurate, asked, begun>>
  BY DEF FencePassed, DisplayInv, Typed, RendererTyped
<1>2. Head(requests) \in Commands /\ Head(requests) = requests[1] /\ 1 \in DOMAIN requests
  BY <1>1
<1>3. PICK b \in Buffers, p \in Stamps : Head(requests) = Command("signal", b, p)
  BY <1>2, CommandFields DEF RequestsRight
<1>4. Head(requests).buffer = b /\ Head(requests).stamp = p
  BY <1>3, SameCommand
<1>5. /\ current'[b] = Later(b, p) /\ finished'[b] = finished[b] \cup {p}
      /\ \A c \in Buffers \ {b} : current'[c] = current[c] /\ finished'[c] = finished[c]
  BY <1>4 DEF FencePassed, Signal, Mark, DisplayInv, Typed, SyncTyped
<1>6. /\ \A i : i \in DOMAIN requests' <=> i \in Nat /\ i + 1 \in DOMAIN requests /\ i # 0
      /\ \A i \in DOMAIN requests' : requests'[i] = requests[i + 1]
  BY <1>1
<1>7. Requested(1, b, p)
  BY <1>2, <1>3 DEF Requested
<1> QED
  BY <1>1, <1>2, <1>5, <1>6, <1>7 DEF Requested

(* A flip marks the stamp its entry has on each of its buffers.             *)
LEMMA FlipMarks ==
  ASSUME DisplayInv, OneStampEach(entry), NEW log \in [Buffers -> SUBSET Stamps],
         NEW b \in Buffers
  PROVE  /\ Flip(log)[b] = log[b] \cup {p \in Stamps : FlipAt(entry, b, p)}
         /\ \A p, q \in Stamps : FlipAt(entry, b, p) /\ FlipAt(entry, b, q) => p = q
<1>1. /\ entry.old \in Buffers /\ entry.new \in Buffers
      /\ entry.oldStamp \in Nat /\ entry.newStamp \in Nat
  BY DEF DisplayInv, Typed, HostTyped, Entries, Stamps
<1>2. \A p, q \in Stamps : FlipAt(entry, b, p) /\ FlipAt(entry, b, q) => p = q
  BY <1>1 DEF FlipAt, OneStampEach, Stamps
<1>3. Flip(log)[b] = IF b \in {entry.old, entry.new}
                     THEN log[b] \cup {IF b = entry.old THEN entry.oldStamp + 1
                                                        ELSE entry.newStamp + 1}
                     ELSE log[b]
  BY DEF Flip, Mark
<1>4. CASE b = entry.old
  <2>1. {p \in Stamps : FlipAt(entry, b, p)} = {entry.oldStamp + 1}
    BY <1>1, <1>4 DEF FlipAt, OneStampEach, Stamps
  <2> QED
    BY <1>2, <1>3, <1>4, <2>1
<1>5. CASE b # entry.old /\ b = entry.new
  <2>1. {p \in Stamps : FlipAt(entry, b, p)} = {entry.newStamp + 1}
    BY <1>1, <1>5 DEF FlipAt, Stamps
  <2> QED
    BY <1>2, <1>3, <1>5, <2>1
<1>6. CASE b # entry.old /\ b # entry.new
  <2>1. {p \in Stamps : FlipAt(entry, b, p)} = {}
    BY <1>6 DEF FlipAt
  <2> QED
    BY <1>2, <1>3, <1>6, <2>1
<1> QED
  BY <1>4, <1>5, <1>6

LEMMA LogsGrow ==
  ASSUME DisplayInv, RequestsRight, EntryRight, [Next]_vars, NEW b \in Buffers
  PROVE  /\ begun[b] \subseteq begun'[b] /\ finished[b] \subseteq finished'[b]
         /\ current[b] <= current'[b]
<1>0. /\ current[b] \in Nat /\ current'[b] \in Nat
      /\ begun \in [Buffers -> SUBSET Stamps] /\ finished \in [Buffers -> SUBSET Stamps]
      /\ current \in [Buffers -> Nat]
  BY NextKeepsDisplayInv DEF DisplayInv, Typed, HistoryTyped, SyncTyped, Stamps
<1>1. \A p \in Stamps : current[b] <= Later(b, p)
  BY <1>0 DEF Later, Stamps
<1>2. begun[b] \subseteq begun'[b] /\ finished[b] \subseteq finished'[b]
  <2>1. ASSUME NEW g \in Guests, EndScene(g) \/ TransferStamp(g) \/ StampEntry(g)
        PROVE  UNCHANGED <<begun, finished>>
    BY <2>1 DEF EndScene, TransferStamp, StampEntry
  <2>2. CASE HostStart
    <3>1. OneStampEach(entry) /\ begun' = Flip(begun) /\ UNCHANGED finished
      BY <2>2 DEF HostStart, EntryRight
    <3> QED
      BY <1>0, <3>1, FlipMarks
  <2>3. CASE HostCallbackOver
    <3>1. OneStampEach(entry) /\ finished' = Flip(finished) /\ UNCHANGED begun
      BY <2>3 DEF HostCallbackOver, EntryRight
    <3> QED
      BY <1>0, <3>1, FlipMarks
  <2>4. CASE DoDraw
    BY <2>4, DrawStep
  <2>5. CASE DoSignal
    BY <2>5, SignalStep
  <2>6. CASE FencePassed
    BY <2>6, FenceStep
  <2> QED
    BY <2>1, <2>2, <2>3, <2>4, <2>5, <2>6, HistorySteps DEF history
<1>3. current[b] <= current'[b]
  <2>1. ASSUME NEW g \in Guests, EndScene(g) \/ TransferStamp(g) \/ StampEntry(g)
        PROVE  UNCHANGED current
    BY <2>1 DEF EndScene, TransferStamp, StampEntry
  <2>2. CASE HostSignal
    <3>1. current'[b] \in {current[b], Later(b, entry.oldStamp + 1), Later(b, entry.newStamp + 1)}
      BY <2>2 DEF HostSignal
    <3>2. entry.oldStamp + 1 \in Stamps /\ entry.newStamp + 1 \in Stamps
      BY DEF DisplayInv, Typed, HostTyped, Entries, Stamps
    <3> QED
      BY <1>0, <1>1, <3>1, <3>2
  <2>3. CASE DoSignal
    BY <1>0, <1>1, <2>3, SignalStep
  <2>4. CASE FencePassed
    BY <1>0, <1>1, <2>4, FenceStep
  <2> QED
    BY <1>0, <2>1, <2>2, <2>3, <2>4, SyncSteps DEF sync
<1> QED
  BY <1>2, <1>3

(* The order of work and flips holds on: a list goes on waiting for the     *)
(* flips it waited for, and what is over stays over.                        *)
LEMMA WaitsStay ==
  ASSUME DisplayInv, HistoryRight, [Next]_vars, NEW b \in Buffers, NEW p \in Stamps,
         p <= ahead[b] + 1, NEW i, NEW j, commands'[j] = commands[i], WaitsFor(i, b, p)
  PROVE  WaitsFor(j, b, p)'
<1>1. PICK w \in Stamps : Head(commands[i]) = Command("wait", b, w) /\ FlipsUpTo(b, p, w)
  BY DEF WaitsFor
<1>2. \A q \in 1..(p - 1) : asked'[b][q] = asked[b][q]
  BY BufferFields, AskedGrows DEF Stamps
<1>3. FlipsUpTo(b, p, w)'
  BY <1>1, <1>2 DEF FlipsUpTo
<1> QED
  BY <1>1, <1>3 DEF WaitsFor

LEMMA ClearedStays ==
  ASSUME DisplayInv, HistoryRight, RequestsRight, EntryRight, [Next]_vars,
         NEW b \in Buffers, NEW p \in Stamps, p <= ahead[b] + 1, Cleared(b, p)
  PROVE  Cleared(b, p)'
<1>1. \A q \in 1..(p - 1) : asked'[b][q] = asked[b][q]
  BY BufferFields, AskedGrows DEF Stamps
<1> QED
  BY <1>1, LogsGrow DEF Cleared

LEMMA BehindStays ==
  ASSUME DisplayInv, HistoryRight, RequestsRight, EntryRight, [Next]_vars,
         NEW b \in Buffers, NEW p \in Stamps, p <= ahead[b] + 1,
         NEW k, \A i \in 1..k : commands'[i] = commands[i], Behind(k, b, p)
  PROVE  Behind(k, b, p)'
BY ClearedStays, WaitsStay DEF Behind

(* The renderer takes the next list: every list comes one place nearer.     *)
LEMMA TakeStep ==
  ASSUME DisplayInv, TakeList
  PROVE  /\ Len(commands') = Len(commands) - 1 /\ Len(commands) \in Nat \ {0}
         /\ \A i \in Spots' : i \in Nat /\ i + 1 \in Spots
         /\ \A i \in Spots : i # 0 => i \in Nat /\ i - 1 \in Spots'
         /\ \A i \in 1..Len(commands') : commands'[i] = commands[i + 1]
         /\ \A o, c, q : ~InPipe(0, o, c, q)
         /\ \A i \in Spots', o \in {"draw", "signal"} : \A c, q :
              InPipe(i, o, c, q)' <=> InPipe(i + 1, o, c, q)
         /\ Reached(Head(commands[1]))
         /\ UNCHANGED <<requests, accurate, sync, guest, history>>
<1>1. /\ work = <<>> /\ commands # <<>> /\ commands' = Tail(commands)
      /\ Reached(Head(Head(commands))) /\ UNCHANGED <<requests, accurate, sync, guest, history>>
      /\ work' = IF Head(Head(commands)).op \in {"draw", "signal"}
                 THEN Head(commands) ELSE Tail(Head(commands))
  BY DEF TakeList, history
<1>2. commands \in Seq(Lists)
  BY DEF DisplayInv, Typed, RendererTyped
<1>3. /\ Len(commands') = Len(commands) - 1 /\ Len(commands) \in Nat \ {0}
      /\ \A i \in 1..Len(commands') : commands'[i] = commands[i + 1]
      /\ Head(commands) = commands[1] /\ commands[1] \in Lists
  BY <1>1, <1>2
<1>4. /\ \A i \in Spots' : i \in Nat /\ i + 1 \in Spots
      /\ \A i \in Spots : i # 0 => i \in Nat /\ i - 1 \in Spots'
  BY <1>3 DEF Spots
<1>5. \A o, c, q : ~InPipe(0, o, c, q)
  BY <1>1, EmptySeq DEF InPipe, Pipe, Has
<1>6. ASSUME NEW o \in {"draw", "signal"}, NEW c, NEW q
      PROVE  InPipe(0, o, c, q)' <=> InPipe(1, o, c, q)
  <2>1. /\ InPipe(0, o, c, q)' <=> \E k \in DOMAIN work' : work'[k] = Command(o, c, q)
        /\ InPipe(1, o, c, q) <=> \E k \in DOMAIN commands[1] : commands[1][k] = Command(o, c, q)
    BY DEF InPipe, Pipe, Has
  <2>2. ASSUME NEW d \in Commands, commands[1] = <<d>>
        PROVE  InPipe(0, o, c, q)' <=> InPipe(1, o, c, q)
    <3>1. Head(commands[1]) = d /\ Tail(commands[1]) = <<>>
      BY <2>2
    <3>2. CASE d.op \in {"draw", "signal"}
      BY <1>1, <1>3, <2>1, <3>1, <3>2
    <3>3. CASE d.op \notin {"draw", "signal"}
      <4>1. work' = <<>>
        BY <1>1, <1>3, <3>1, <3>3
      <4>2. d # Command(o, c, q)
        BY <3>3, SameCommand
      <4> QED
        BY <2>1, <2>2, <4>1, <4>2
    <3> QED
      BY <3>2, <3>3
  <2>3. ASSUME NEW d \in Buffers, NEW w \in Stamps, NEW p \in Stamps,
               commands[1] = Scene(d, w, p)
        PROVE  InPipe(0, o, c, q)' <=> InPipe(1, o, c, q)
    <3>1. /\ Head(commands[1]) = Command("wait", d, w)
          /\ Tail(commands[1]) = <<Command("draw", d, p), Command("signal", d, p)>>
      BY <2>3, SceneFields
    <3>2. work' = <<Command("draw", d, p), Command("signal", d, p)>>
      BY <1>1, <1>3, <3>1, SameCommand
    <3>3. /\ DOMAIN commands[1] = {1, 2, 3} /\ commands[1][1] = Command("wait", d, w)
          /\ commands[1][2] = Command("draw", d, p) /\ commands[1][3] = Command("signal", d, p)
      BY <2>3 DEF Scene
    <3>4. /\ DOMAIN work' = {1, 2} /\ work'[1] = Command("draw", d, p)
          /\ work'[2] = Command("signal", d, p)
      BY <3>2
    <3>5. Command("wait", d, w) # Command(o, c, q)
      BY SameCommand
    <3> QED
      BY <2>1, <3>3, <3>4, <3>5
  <2> QED
    BY <1>3, <2>2, <2>3 DEF Lists
<1>7. ASSUME NEW i \in Spots', i # 0, NEW o, NEW c, NEW q
      PROVE  InPipe(i, o, c, q)' <=> InPipe(i + 1, o, c, q)
  <2>1. i \in 1..Len(commands') /\ i + 1 # 0
    BY <1>3, <1>7 DEF Spots
  <2> QED
    BY <1>3, <1>7, <2>1 DEF InPipe, Pipe, Has
<1>8. \A i \in Spots', o \in {"draw", "signal"} : \A c, q :
        InPipe(i, o, c, q)' <=> InPipe(i + 1, o, c, q)
  BY <1>6, <1>7
<1> QED
  BY <1>1, <1>3, <1>4, <1>5, <1>8

(* The wait of the list that is taken has passed.                           *)
LEMMA BehindTaken ==
  ASSUME DisplayInv, HistoryRight, RequestsRight, EntryRight, [Next]_vars, TakeList,
         NEW b \in Buffers, NEW p \in Stamps, p <= ahead[b] + 1,
         NEW k \in Nat, k < Len(commands), Behind(k + 1, b, p)
  PROVE  Behind(k, b, p)'
<1>1. CASE Cleared(b, p)
  BY <1>1, ClearedStays DEF Behind
<1>2. CASE WaitsFor(1, b, p)
  <2>1. PICK w \in Stamps : Head(commands[1]) = Command("wait", b, w) /\ FlipsUpTo(b, p, w)
    BY <1>2 DEF WaitsFor
  <2>2. current[b] >= w
    BY <2>1, TakeStep, SameCommand DEF Reached
  <2>3. \A q \in 1..(p - 1) : q <= w => q \in finished[b]
    <3>1. 1..current[b] \subseteq finished[b]
      BY DEF HistoryRight
    <3>2. current[b] \in Nat /\ w \in Nat /\ p \in Nat
      BY BufferFields DEF Stamps
    <3>3. \A q \in 1..(p - 1) : q <= w => q \in 1..current[b]
      BY <2>2, <3>2
    <3> QED
      BY <3>1, <3>3
  <2>4. Cleared(b, p)
    BY <2>1, <2>3 DEF Cleared, FlipsUpTo
  <2> QED
    BY <2>4, ClearedStays DEF Behind
<1>3. ASSUME NEW i \in 2..(k + 1), WaitsFor(i, b, p)
      PROVE  Behind(k, b, p)'
  <2>1. i - 1 \in 1..k /\ commands'[i - 1] = commands[i]
    <3>1. Len(commands') = Len(commands) - 1 /\ Len(commands) \in Nat
      BY TakeStep
    <3>2. \A j \in 1..Len(commands') : commands'[j] = commands[j + 1]
      BY TakeStep
    <3>3. i - 1 \in 1..k
      OBVIOUS
    <3>4. i - 1 \in 1..Len(commands')
      BY <3>1, <3>3
    <3>5. commands'[i - 1] = commands[(i - 1) + 1]
      BY <3>2, <3>4
    <3>6. (i - 1) + 1 = i
      OBVIOUS
    <3> QED
      BY <3>3, <3>5, <3>6
  <2>2. WaitsFor(i - 1, b, p)'
    BY <1>3, <2>1, WaitsStay
  <2> QED
    BY <2>1, <2>2 DEF Behind
<1>4. \A i \in 1..(k + 1) : i = 1 \/ i \in 2..(k + 1)
  OBVIOUS
<1> QED
  BY <1>1, <1>2, <1>3, <1>4 DEF Behind

(* A list goes to the end of the queue.                                     *)
LEMMA SubmitStep ==
  ASSUME DisplayInv, NEW g \in Guests, Submit(g)
  PROVE  /\ Len(commands) \in Nat /\ Len(commands') = Len(commands) + 1
         /\ Spots' = Spots \cup {Len(commands) + 1} /\ Len(commands) + 1 \notin Spots
         /\ \A i \in Spots : i < Len(commands) + 1
         /\ \A i \in 1..Len(commands) : commands'[i] = commands[i]
         /\ commands'[Len(commands) + 1] = Head(lists[g])
         /\ \A i \in Spots : \A o, c, q : InPipe(i, o, c, q)' <=> InPipe(i, o, c, q)
         /\ \A i, o, c, q :
              i = Len(commands) + 1 =>
                (InPipe(i, o, c, q)' <=> Has(Head(lists[g]), o, c, q))
         /\ UNCHANGED <<requests, accurate, sync, history>>
<1>1. /\ lists[g] # <<>> /\ commands' = Append(commands, Head(lists[g]))
      /\ UNCHANGED <<work, requests, accurate, sync, history>>
  BY DEF Submit
<1>2. commands \in Seq(Lists) /\ Head(lists[g]) \in Lists
  BY <1>1, GuestFields DEF DisplayInv, Typed, RendererTyped
<1>3. /\ Len(commands) \in Nat /\ Len(commands') = Len(commands) + 1
      /\ \A i \in 1..Len(commands) : commands'[i] = commands[i]
      /\ commands'[Len(commands) + 1] = Head(lists[g])
  BY <1>1, <1>2
<1>4. /\ Spots' = Spots \cup {Len(commands) + 1} /\ Len(commands) + 1 \notin Spots
      /\ \A i \in Spots : i < Len(commands) + 1
  BY <1>3 DEF Spots
<1>5. ASSUME NEW i \in Spots, NEW o, NEW c, NEW q
      PROVE  InPipe(i, o, c, q)' <=> InPipe(i, o, c, q)
  <2>1. i = 0 \/ i \in 1..Len(commands)
    BY <1>3 DEF Spots
  <2> QED
    BY <1>1, <1>3, <2>1 DEF InPipe, Pipe, Has
<1>6. ASSUME NEW i, i = Len(commands) + 1, NEW o, NEW c, NEW q
      PROVE  InPipe(i, o, c, q)' <=> Has(Head(lists[g]), o, c, q)
  <2>1. i # 0
    BY <1>3, <1>6
  <2> QED
    BY <1>3, <1>6, <2>1 DEF InPipe, Pipe, Has
<1> QED
  BY <1>1, <1>3, <1>4, <1>5, <1>6

-----------------------------------------------------------------------------
(* The pipe: what each step makes of PipeInv.                               *)

LEMMA PipeSame ==
  ASSUME UNCHANGED renderer
  PROVE  /\ Spots' = Spots /\ DOMAIN requests' = DOMAIN requests
         /\ \A i, o, b, p : InPipe(i, o, b, p)' <=> InPipe(i, o, b, p)
         /\ \A i, b, p : Requested(i, b, p)' <=> Requested(i, b, p)
         /\ Len(commands') = Len(commands) /\ commands' = commands
BY DEF renderer, Spots, InPipe, Pipe, Requested

LEMMA RequestsKeep ==
  ASSUME DisplayInv, RequestsRight, [Next]_vars
  PROVE  RequestsRight'
<1> USE DEF RequestsRight
<1>1. CASE UNCHANGED <<requests, accurate>>
  BY <1>1
<1>2. ASSUME NEW g \in Guests, Submit(g) PROVE UNCHANGED <<requests, accurate>>
  BY <1>2 DEF Submit
<1>3. CASE TakeList \/ DoDraw
  BY <1>1, <1>3 DEF TakeList, DoDraw
<1>4. CASE DoSignal
  <2>1. PICK b, p : \/ accurate /\ requests' = Append(requests, Command("signal", b, p))
                    \/ UNCHANGED requests
    BY <1>4, SignalStep
  <2>2. UNCHANGED accurate /\ requests \in Seq(Commands)
    BY <1>4 DEF DoSignal, DisplayInv, Typed, RendererTyped
  <2>3. CASE accurate /\ requests' = Append(requests, Command("signal", b, p))
    BY <2>2, <2>3, SameCommand
  <2> QED
    BY <1>1, <2>1, <2>2, <2>3
<1>5. CASE FencePassed
  <2>1. /\ UNCHANGED accurate /\ requests # <<>>
        /\ \A i \in DOMAIN requests' : requests'[i] = requests[i + 1]
        /\ \A i : i \in DOMAIN requests' <=> i \in Nat /\ i + 1 \in DOMAIN requests /\ i # 0
    BY <1>5, FenceStep
  <2> QED
    BY <2>1
<1> QED
  BY <1>1, <1>2, <1>3, <1>4, <1>5, RendererSteps DEF renderer

(* Steps of others, which neither draw nor submit.                          *)
LEMMA PipeStays ==
  ASSUME DisplayInv, FramesInv, [Next]_vars, UNCHANGED renderer,
         \A b \in Buffers, p \in Stamps : IsDraw(b, p)' => IsDraw(b, p),
         \A b \in Buffers, p \in Stamps :
           IsDraw(b, p) => /\ p \in begun'[b] <=> p \in begun[b]
                           /\ p \in finished'[b] <=> p \in finished[b],
         \A g \in Guests, b \in Buffers :
           /\ Submitting(g, b)' <=> Submitting(g, b)
           /\ Submitting(g, b) => /\ ahead'[b] = ahead[b]
                                  /\ SignalOnly(g, b)' <=> SignalOnly(g, b)
                                  /\ DrawFirst(g, b)' <=> DrawFirst(g, b),
         \A g \in Guests, b \in Buffers :
           Transferring(g, b)' => Transferring(g, b) /\ ahead'[b] = ahead[b]
  PROVE  PipeInv'
<1>0. /\ HistoryRight /\ EntryRight
      /\ PipeOrdered /\ DrawsRight /\ SignalsRight /\ SubmissionsRight /\ RequestsRight
  BY DEF FramesInv, PipeInv
<1>1. PipeOrdered'
  BY <1>0, PipeSame DEF PipeOrdered
<1>2. ASSUME NEW b \in Buffers, NEW p \in Stamps, p <= ahead[b] + 1, NEW k, Behind(k, b, p)
      PROVE  Behind(k, b, p)'
  BY <1>0, <1>2, PipeSame, BehindStays
<1>3. ASSUME NEW b \in Buffers, NEW p \in Stamps, IsDraw(b, p)
      PROVE  p <= ahead[b] + 1 /\ IsDraw(b, p)'
  BY <1>0, <1>3, BufferFields, KindsStay DEF IsDraw
<1>4. ASSUME NEW b \in Buffers, NEW p \in Stamps, Awaited(b, p), p <= ahead[b] + 1
      PROVE  Awaited(b, p)'
  BY <1>2, <1>4, PipeSame DEF Awaited, Behind
<1>5. DrawsRight'
  <2> SUFFICES ASSUME NEW b \in Buffers, NEW p \in Stamps
               PROVE  /\ \A i \in Spots : InPipe(i, "draw", b, p) =>
                           IsDraw(b, p)' /\ p \notin begun'[b] /\ Behind(i, b, p)'
                      /\ IsDraw(b, p)' /\ p \notin begun'[b] =>
                           \/ \E i \in Spots : InPipe(i, "draw", b, p)
                           \/ /\ p = ahead'[b]
                              /\ \E g \in Guests : Submitting(g, b)' /\ ~SignalOnly(g, b)'
                      /\ IsDraw(b, p)' /\ p \in begun'[b] => Cleared(b, p)'
    BY PipeSame DEF DrawsRight
  <2>1. ASSUME NEW i \in Spots, InPipe(i, "draw", b, p)
        PROVE  IsDraw(b, p)' /\ p \notin begun'[b] /\ Behind(i, b, p)'
    BY <1>0, <1>2, <1>3, <2>1 DEF DrawsRight
  <2>2. ASSUME IsDraw(b, p)', p \notin begun'[b]
        PROVE  \/ \E i \in Spots : InPipe(i, "draw", b, p)
               \/ p = ahead'[b] /\ \E g \in Guests : Submitting(g, b)' /\ ~SignalOnly(g, b)'
    BY <1>0, <2>2 DEF DrawsRight
  <2>3. ASSUME IsDraw(b, p)', p \in begun'[b] PROVE Cleared(b, p)'
    BY <1>0, <1>3, <2>3, ClearedStays DEF DrawsRight
  <2> QED
    BY <2>1, <2>2, <2>3
<1>6. SignalsRight'
  <2> SUFFICES ASSUME NEW b \in Buffers, NEW p \in Stamps
               PROVE  /\ \A i \in Spots : InPipe(i, "signal", b, p) =>
                           /\ IsDraw(b, p)' /\ p \notin finished'[b]
                           /\ p \in begun'[b] \/ \E j \in 0..i : InPipe(j, "draw", b, p)
                      /\ \A i \in DOMAIN requests : Requested(i, b, p) =>
                           IsDraw(b, p)' /\ p \in begun'[b] \ finished'[b]
                      /\ IsDraw(b, p)' /\ p \notin finished'[b] =>
                           \/ \E i \in Spots : InPipe(i, "signal", b, p)
                           \/ \E i \in DOMAIN requests : Requested(i, b, p)
                           \/ p = ahead'[b] /\ \E g \in Guests : Submitting(g, b)'
    BY PipeSame DEF SignalsRight
  <2>1. \A i \in Spots : InPipe(i, "signal", b, p) =>
                           /\ IsDraw(b, p)' /\ p \notin finished'[b]
                           /\ p \in begun'[b] \/ \E j \in 0..i : InPipe(j, "draw", b, p)
    BY <1>0, <1>3 DEF SignalsRight
  <2>2. \A i \in DOMAIN requests : Requested(i, b, p) =>
                           IsDraw(b, p)' /\ p \in begun'[b] \ finished'[b]
    BY <1>0, <1>3 DEF SignalsRight
  <2>3. IsDraw(b, p)' /\ p \notin finished'[b] =>
                           \/ \E i \in Spots : InPipe(i, "signal", b, p)
                           \/ \E i \in DOMAIN requests : Requested(i, b, p)
                           \/ p = ahead'[b] /\ \E g \in Guests : Submitting(g, b)'
    BY <1>0 DEF SignalsRight
  <2> QED
    BY <2>1, <2>2, <2>3
<1>7. SubmissionsRight'
  <2> SUFFICES ASSUME NEW g \in Guests, NEW b \in Buffers, NEW p \in Stamps
               PROVE  SubmissionRight(g, b, p)'
    BY DEF SubmissionsRight
  <2>1. SubmissionRight(g, b, p)
    BY <1>0 DEF SubmissionsRight
  <2>2. ASSUME Transferring(g, b)', p = ahead'[b] + 1 PROVE Awaited(b, p)'
    BY <1>4, <2>1, <2>2, BufferFields DEF SubmissionRight, Stamps
  <2>3. ASSUME Submitting(g, b)', p = ahead'[b]
        PROVE  /\ IsDraw(b, p)' /\ p \notin finished'[b]
               /\ \A i \in Spots : ~InPipe(i, "signal", b, p)
               /\ \A i \in DOMAIN requests : ~Requested(i, b, p)
               /\ ~SignalOnly(g, b)' =>
                    p \notin begun'[b] /\ \A i \in Spots : ~InPipe(i, "draw", b, p)
               /\ DrawFirst(g, b)' => Awaited(b, p)'
               /\ SignalOnly(g, b)' =>
                    p \in begun'[b] \/ \E i \in Spots : InPipe(i, "draw", b, p)
    BY <1>3, <1>4, <2>1, <2>3 DEF SubmissionRight
  <2> QED
    BY <2>2, <2>3, PipeSame DEF SubmissionRight
<1> QED
  BY <1>0, <1>1, <1>5, <1>6, <1>7, RequestsKeep DEF PipeInv

LEMMA OthersKeepPipe ==
  ASSUME DisplayInv, FramesInv, [Next]_vars,
         ~TakeList, ~DoDraw, ~DoSignal, ~FencePassed,
         \A g \in Guests : ~Submit(g) /\ ~EndScene(g) /\ ~TransferStamp(g)
  PROVE  PipeInv'
<1>0. /\ HistoryRight /\ EntryRight /\ UsedApart /\ CallsRight /\ RequestsRight
      /\ GuestTyped /\ HistoryTyped
  BY DEF FramesInv, PipeInv, DisplayInv, Typed
<1>1. UNCHANGED renderer
  BY RendererSteps
<1>2. \A b \in Buffers, p \in Stamps : IsDraw(b, p)' => IsDraw(b, p)
  BY <1>0, KindsStay
<1>3. ASSUME NEW b \in Buffers, NEW p \in Stamps, IsDraw(b, p)
      PROVE  /\ p \in begun'[b] <=> p \in begun[b]
             /\ p \in finished'[b] <=> p \in finished[b]
  <2>1. CASE UNCHANGED <<begun, finished>>
    BY <2>1
  <2>2. CASE HostStart
    <3>1. /\ OneStampEach(entry) /\ begun' = Flip(begun) /\ UNCHANGED finished
          /\ FlipAt(entry, b, p) => IsFlip(b, p)
      BY <1>0, <2>2 DEF HostStart, EntryRight
    <3> QED
      BY <1>0, <1>3, <3>1, FlipMarks DEF IsDraw, IsFlip, HistoryTyped
  <2>3. CASE HostCallbackOver
    <3>1. /\ OneStampEach(entry) /\ finished' = Flip(finished) /\ UNCHANGED begun
          /\ FlipAt(entry, b, p) => IsFlip(b, p)
      BY <1>0, <2>3 DEF HostCallbackOver, EntryRight
    <3> QED
      BY <1>0, <1>3, <3>1, FlipMarks DEF IsDraw, IsFlip, HistoryTyped
  <2>4. ASSUME NEW g \in Guests, StampEntry(g) PROVE UNCHANGED <<begun, finished>>
    BY <2>4 DEF StampEntry
  <2> QED
    BY <2>1, <2>2, <2>3, <2>4, HistorySteps DEF history
<1>4. CASE UNCHANGED guest /\ UNCHANGED ahead
  BY <1>1, <1>2, <1>3, <1>4, PipeStays
     DEF guest, Submitting, Transferring, SignalOnly, DrawFirst
<1>5. ASSUME NEW g \in Guests,
             \A h \in Guests \ {g} : pc'[h] = pc[h] /\ call'[h] = call[h] /\ lists'[h] = lists[h],
             pc[g] # "submit", pc'[g] # "submit",
             pc'[g] = "transfer" => lists'[g] # <<>>,
             UNCHANGED ahead \/ StampEntry(g)
      PROVE  PipeInv'
  <2>1. ASSUME NEW h \in Guests, NEW b \in Buffers, b \in Using(h), h # g
        PROVE  ahead'[b] = ahead[b]
    <3>1. CASE StampEntry(g)
      <4>1. Using(g) = {call[g].old, call[g].new}
        BY <3>1 DEF StampEntry, Using
      <4> QED
        BY <1>0, <2>1, <3>1, <4>1, FlipAsked DEF UsedApart
    <3> QED
      BY <1>5, <3>1
  <2>2. ASSUME NEW h \in Guests, NEW b \in Buffers
        PROVE  /\ Submitting(h, b)' <=> Submitting(h, b)
               /\ Submitting(h, b) => /\ ahead'[b] = ahead[b]
                                      /\ SignalOnly(h, b)' <=> SignalOnly(h, b)
                                      /\ DrawFirst(h, b)' <=> DrawFirst(h, b)
    <3>1. CASE h = g
      BY <1>5, <3>1 DEF Submitting
    <3>2. CASE h # g
      <4>1. Submitting(h, b) => ahead'[b] = ahead[b]
        BY <2>1, <3>2 DEF Submitting, Using
      <4> QED
        BY <1>5, <3>2, <4>1 DEF Submitting, SignalOnly, DrawFirst
    <3> QED
      BY <3>1, <3>2
  <2>3. ASSUME NEW h \in Guests, NEW b \in Buffers, Transferring(h, b)'
        PROVE  Transferring(h, b) /\ ahead'[b] = ahead[b]
    <3>1. h # g
      BY <1>5, <2>3 DEF Transferring
    <3>2. Transferring(h, b)
      BY <1>5, <2>3, <3>1 DEF Transferring
    <3> QED
      BY <2>1, <3>1, <3>2 DEF Transferring, Using
  <2> QED
    BY <1>1, <1>2, <1>3, <2>2, <2>3, PipeStays
<1>6. ASSUME NEW g \in Guests, StampEntry(g) PROVE PipeInv'
  <2>1. /\ \A h \in Guests \ {g} : pc'[h] = pc[h] /\ call'[h] = call[h] /\ lists'[h] = lists[h]
        /\ pc[g] = "stamp" /\ pc'[g] = "enqueue"
    BY <1>0, <1>6 DEF StampEntry, Goto, GuestTyped
  <2> QED
    BY <1>5, <1>6, <2>1
<1>7. CASE UNCHANGED ahead /\ ~ UNCHANGED guest
  <2>1. PICK g \in Guests :
             \/ \E b \in Buffers : BeginScene(g, b) \/ Transfer(g, b)
             \/ Finish(g) \/ Terminate(g) \/ \E old, new \in Buffers : AddEntry(g, old, new)
             \/ Enqueue(g) \/ Drain(g) \/ AbortQueue(g) \/ KillVita(g) \/ StampEntry(g)
    BY <1>7, GuestSteps
  <2>2. \A h \in Guests \ {g} : pc'[h] = pc[h] /\ call'[h] = call[h] /\ lists'[h] = lists[h]
    BY <1>0, <2>1 DEF GuestTyped, BeginScene, Transfer, Finish, Terminate, AddEntry, Enqueue,
                      Drain, AbortQueue, KillVita, StampEntry, Goto, Return
  <2>3. pc[g] # "submit" /\ pc'[g] # "submit"
    BY <1>0, <2>1 DEF GuestTyped, BeginScene, Transfer, Finish, Terminate, AddEntry, Enqueue,
                      Drain, AbortQueue, KillVita, StampEntry, Goto, Return, Starts
  <2>4. pc'[g] = "transfer" => lists'[g] # <<>>
    <3>1. ASSUME NEW b \in Buffers, Transfer(g, b) PROVE lists'[g] # <<>>
      BY <1>0, <3>1 DEF Transfer, GuestTyped
    <3>2. \/ \E b \in Buffers : Transfer(g, b)
          \/ pc'[g] # "transfer"
      BY <1>0, <2>1 DEF GuestTyped, BeginScene, Finish, Terminate, AddEntry, Enqueue,
                        Drain, AbortQueue, KillVita, StampEntry, Goto, Return, Starts
    <3> QED
      BY <3>1, <3>2
  <2> QED
    BY <1>5, <1>7, <2>2, <2>3, <2>4
<1> QED
  BY <1>4, <1>6, <1>7, AskSteps

(* A scene ends, or a transfer takes its stamp: the new draw is nowhere but *)
(* with its call, and a transfer's wait is ahead of it.                     *)
LEMMA DrawAskKeepsPipe ==
  ASSUME DisplayInv, FramesInv, [Next]_vars, NEW g \in Guests, EndScene(g) \/ TransferStamp(g)
  PROVE  PipeInv'
<1>a. PICK b0 \in Buffers, n \in Stamps : b0 = call[g].old /\ n = ahead[b0] + 1
  BY GuestFields, BufferFields DEF Stamps
<1>0. /\ HistoryRight /\ EntryRight /\ UsedApart /\ CallsRight /\ RequestsRight
      /\ PipeOrdered /\ DrawsRight /\ SignalsRight /\ SubmissionsRight
      /\ GuestTyped /\ HistoryTyped
  BY DEF FramesInv, PipeInv, DisplayInv, Typed
<1>1. /\ ahead'[b0] = n /\ \A c \in Buffers \ {b0} : ahead'[c] = ahead[c]
      /\ asked'[b0] = Append(asked[b0], "draw")
      /\ UNCHANGED <<renderer, begun, finished>>
  BY <1>a, DrawAsked
<1>2. /\ pc[g] \in {"scene", "transfer"} /\ pc'[g] = "submit" /\ UNCHANGED call
      /\ \A h \in Guests \ {g} : pc'[h] = pc[h] /\ lists'[h] = lists[h]
      /\ call[g].old = b0 /\ call[g].oldStamp = lastDisplay[b0]
  BY <1>0, <1>a DEF GuestTyped, EndScene, TransferStamp, Goto, CallsRight, CallRight, AboutOne
<1>3. /\ ahead[b0] \in Nat /\ n = ahead[b0] + 1
      /\ begun[b0] \subseteq 1..ahead[b0] /\ finished[b0] \subseteq begun[b0]
      /\ Len(asked[b0]) = ahead[b0] /\ asked[b0] \in Seq({"draw", "flip"})
  BY <1>0, <1>a, BufferFields DEF HistoryRight
<1>4. n \notin begun[b0] /\ n \notin finished[b0] /\ ~IsDraw(b0, n) /\ IsDraw(b0, n)'
  BY <1>1, <1>3 DEF IsDraw
<1>5. \A h \in Guests \ {g} : ~Submitting(h, b0) /\ ~Transferring(h, b0)
  <2>1. b0 \in Using(g)
    BY <1>2 DEF Using
  <2> QED
    BY <1>0, <2>1 DEF UsedApart, Using, Submitting, Transferring
<1>6. ASSUME NEW b \in Buffers, NEW p \in Stamps, IsDraw(b, p)'
      PROVE  IsDraw(b, p) \/ (b = b0 /\ p = n)
  <2>1. IsDraw(b, p) \/ (p = ahead'[b] /\ p = ahead[b] + 1)
    BY <1>0, <1>6, KindsStay
  <2> QED
    BY <1>1, <2>1, BufferFields
<1>7. ~SignalOnly(g, b0)' /\ Submitting(g, b0)' /\ (DrawFirst(g, b0)' => TransferStamp(g))
  <2>1. Submitting(g, b0)'
    BY <1>2 DEF Submitting
  <2>2. CASE EndScene(g)
    <3>1. lists'[g] = <<Scene(b0, call[g].oldStamp, n)>>
      BY <1>0, <1>a, <2>2 DEF EndScene, GuestTyped, Scene
    <3>2. Len(lists'[g]) = 1 /\ Len(lists'[g][1]) = 3
      BY <3>1 DEF Scene
    <3>3. ~SignalOnly(g, b0)' /\ ~DrawFirst(g, b0)'
      BY <3>2, <1>2 DEF SignalOnly, DrawFirst
    <3> QED
      BY <2>1, <3>3
  <2>3. CASE TransferStamp(g)
    <3>1. lists'[g] = << <<Command("draw", b0, n)>>, <<Command("signal", b0, n)>> >>
      BY <1>0, <1>a, <2>3 DEF TransferStamp, GuestTyped
    <3>2. Len(lists'[g]) = 2
      BY <3>1
    <3> QED
      BY <1>2, <2>1, <2>3, <3>2 DEF SignalOnly
  <2> QED
    BY <2>2, <2>3
<1>8. ASSUME NEW b \in Buffers, NEW p \in Stamps, Awaited(b, p), p <= ahead[b] + 1
      PROVE  Awaited(b, p)'
  BY <1>0, <1>1, <1>8, PipeSame, BehindStays DEF Awaited, Behind
<1>9. ASSUME NEW b \in Buffers, NEW p \in Stamps, IsDraw(b, p)
      PROVE  p <= ahead[b] + 1 /\ IsDraw(b, p)'
  BY <1>0, <1>9, BufferFields, KindsStay DEF IsDraw
<1>10. PipeOrdered'
  BY <1>0, <1>1, PipeSame DEF PipeOrdered
<1>11. DrawsRight'
  <2> SUFFICES ASSUME NEW b \in Buffers, NEW p \in Stamps
               PROVE  /\ \A i \in Spots : InPipe(i, "draw", b, p) =>
                           IsDraw(b, p)' /\ p \notin begun[b] /\ Behind(i, b, p)'
                      /\ IsDraw(b, p)' /\ p \notin begun[b] =>
                           \/ \E i \in Spots : InPipe(i, "draw", b, p)
                           \/ /\ p = ahead'[b]
                              /\ \E h \in Guests : Submitting(h, b)' /\ ~SignalOnly(h, b)'
                      /\ IsDraw(b, p)' /\ p \in begun[b] => Cleared(b, p)'
    BY <1>1, PipeSame DEF DrawsRight
  <2>1. ASSUME NEW i \in Spots, InPipe(i, "draw", b, p)
        PROVE  IsDraw(b, p)' /\ p \notin begun[b] /\ Behind(i, b, p)'
    <3>1. IsDraw(b, p) /\ p \notin begun[b] /\ Behind(i, b, p)
      BY <1>0, <2>1 DEF DrawsRight
    <3> QED
      BY <1>0, <1>1, <1>9, <3>1, BehindStays, PipeSame
  <2>2. ASSUME IsDraw(b, p), p \notin begun[b]
        PROVE  \/ \E i \in Spots : InPipe(i, "draw", b, p)
               \/ /\ p = ahead'[b]
                  /\ \E h \in Guests : Submitting(h, b)' /\ ~SignalOnly(h, b)'
    <3> SUFFICES ASSUME ~ \E i \in Spots : InPipe(i, "draw", b, p)
                 PROVE  /\ p = ahead'[b]
                        /\ \E h \in Guests : Submitting(h, b)' /\ ~SignalOnly(h, b)'
      OBVIOUS
    <3>1. PICK h \in Guests : Submitting(h, b) /\ ~SignalOnly(h, b) /\ p = ahead[b]
      BY <1>0, <2>2 DEF DrawsRight
    <3>2. h # g /\ b # b0
      BY <1>2, <1>5, <3>1 DEF Submitting
    <3> QED
      BY <1>1, <1>2, <3>1, <3>2 DEF Submitting, SignalOnly
  <2>3. ASSUME IsDraw(b, p), p \in begun[b] PROVE Cleared(b, p)'
    BY <1>0, <1>9, <2>3, ClearedStays DEF DrawsRight
  <2> QED
    BY <1>1, <1>4, <1>6, <1>7, <2>1, <2>2, <2>3
<1>12. SignalsRight'
  <2> SUFFICES ASSUME NEW b \in Buffers, NEW p \in Stamps
               PROVE  /\ \A i \in Spots : InPipe(i, "signal", b, p) =>
                           /\ IsDraw(b, p)' /\ p \notin finished[b]
                           /\ p \in begun[b] \/ \E j \in 0..i : InPipe(j, "draw", b, p)
                      /\ \A i \in DOMAIN requests : Requested(i, b, p) =>
                           IsDraw(b, p)' /\ p \in begun[b] \ finished[b]
                      /\ IsDraw(b, p)' /\ p \notin finished[b] =>
                           \/ \E i \in Spots : InPipe(i, "signal", b, p)
                           \/ \E i \in DOMAIN requests : Requested(i, b, p)
                           \/ p = ahead'[b] /\ \E h \in Guests : Submitting(h, b)'
    BY <1>1, PipeSame DEF SignalsRight
  <2>1. /\ \A i \in Spots : InPipe(i, "signal", b, p) =>
             /\ IsDraw(b, p)' /\ p \notin finished[b]
             /\ p \in begun[b] \/ \E j \in 0..i : InPipe(j, "draw", b, p)
        /\ \A i \in DOMAIN requests : Requested(i, b, p) =>
             IsDraw(b, p)' /\ p \in begun[b] \ finished[b]
    BY <1>0, <1>9 DEF SignalsRight
  <2>2. ASSUME IsDraw(b, p), p \notin finished[b]
        PROVE  \/ \E i \in Spots : InPipe(i, "signal", b, p)
               \/ \E i \in DOMAIN requests : Requested(i, b, p)
               \/ p = ahead'[b] /\ \E h \in Guests : Submitting(h, b)'
    <3> SUFFICES ASSUME ~ \E i \in Spots : InPipe(i, "signal", b, p),
                        ~ \E i \in DOMAIN requests : Requested(i, b, p)
                 PROVE  p = ahead'[b] /\ \E h \in Guests : Submitting(h, b)'
      OBVIOUS
    <3>1. PICK h \in Guests : Submitting(h, b) /\ p = ahead[b]
      BY <1>0, <2>2 DEF SignalsRight
    <3>2. h # g /\ b # b0
      BY <1>2, <1>5, <3>1 DEF Submitting
    <3> QED
      BY <1>1, <1>2, <3>1, <3>2 DEF Submitting
  <2> QED
    BY <1>1, <1>4, <1>6, <1>7, <2>1, <2>2
<1>13. SubmissionsRight'
  <2> SUFFICES ASSUME NEW h \in Guests, NEW b \in Buffers, NEW p \in Stamps
               PROVE  SubmissionRight(h, b, p)'
    BY DEF SubmissionsRight
  <2>1. CASE h = g /\ Submitting(g, b)' /\ p = ahead'[b]
    <3>1. b = b0 /\ p = n
      BY <1>1, <1>2, <2>1 DEF Submitting
    <3>2. /\ \A i \in Spots : ~InPipe(i, "signal", b0, n) /\ ~InPipe(i, "draw", b0, n)
          /\ \A i \in DOMAIN requests : ~Requested(i, b0, n)
      BY <1>0, <1>3, <1>4 DEF DrawsRight, SignalsRight
    <3>3. DrawFirst(g, b0)' => Awaited(b0, n)'
      <4>1. SUFFICES ASSUME TransferStamp(g) PROVE Awaited(b0, n)'
        BY <1>7
      <4>2. Transferring(g, b0)
        BY <1>2, <4>1 DEF TransferStamp, Transferring
      <4>3. Awaited(b0, n)
        BY <1>0, <1>3, <4>2 DEF SubmissionsRight, SubmissionRight
      <4> QED
        BY <1>3, <1>8, <4>3
    <3>4. /\ IsDraw(b, p)' /\ p \notin finished'[b] /\ p \notin begun'[b]
          /\ \A i \in Spots' : ~InPipe(i, "signal", b, p)' /\ ~InPipe(i, "draw", b, p)'
          /\ \A i \in DOMAIN requests' : ~Requested(i, b, p)'
      BY <1>1, <1>4, <3>1, <3>2, PipeSame
    <3>5. /\ ~SignalOnly(g, b)' /\ (DrawFirst(g, b)' => Awaited(b, p)')
          /\ ~Transferring(g, b)'
      BY <1>2, <1>7, <3>1, <3>3 DEF Transferring
    <3> QED
      BY <2>1, <3>4, <3>5 DEF SubmissionRight
  <2>2. CASE h = g /\ ~(Submitting(g, b)' /\ p = ahead'[b])
    BY <1>2, <2>2 DEF SubmissionRight, Transferring
  <2>3. CASE h # g
    <3>1. /\ Submitting(h, b)' <=> Submitting(h, b)
          /\ Transferring(h, b)' <=> Transferring(h, b)
      BY <1>2, <2>3 DEF Submitting, Transferring
    <3>2. Submitting(h, b)' \/ Transferring(h, b)' => ahead'[b] = ahead[b]
      BY <1>1, <1>5, <2>3, <3>1
    <3>3. Submitting(h, b)' => /\ SignalOnly(h, b)' <=> SignalOnly(h, b)
                               /\ DrawFirst(h, b)' <=> DrawFirst(h, b)
      BY <1>2, <2>3, <3>2 DEF SignalOnly, DrawFirst
    <3>4. SubmissionRight(h, b, p)
      BY <1>0 DEF SubmissionsRight
    <3>5. Transferring(h, b)' /\ p = ahead'[b] + 1 => Awaited(b, p)'
      BY <1>8, <3>1, <3>2, <3>4, BufferFields DEF SubmissionRight
    <3>6. ASSUME Submitting(h, b)', p = ahead'[b]
          PROVE  /\ IsDraw(b, p)' /\ p \notin finished[b]
                 /\ \A i \in Spots : ~InPipe(i, "signal", b, p)
                 /\ \A i \in DOMAIN requests : ~Requested(i, b, p)
                 /\ ~SignalOnly(h, b)' =>
                      p \notin begun[b] /\ \A i \in Spots : ~InPipe(i, "draw", b, p)
                 /\ DrawFirst(h, b)' => Awaited(b, p)'
                 /\ SignalOnly(h, b)' =>
                      p \in begun[b] \/ \E i \in Spots : InPipe(i, "draw", b, p)
      BY <1>8, <1>9, <3>1, <3>2, <3>3, <3>4, <3>6 DEF SubmissionRight
    <3> QED
      BY <1>1, <3>5, <3>6, PipeSame DEF SubmissionRight
  <2> QED
    BY <2>1, <2>2, <2>3
<1> QED
  BY <1>0, <1>10, <1>11, <1>12, <1>13, RequestsKeep DEF PipeInv

(* A list of one command, and a scene, as the pipe shows them.              *)
LEMMA OneInList ==
  ASSUME NEW o1, NEW b1, NEW p1, NEW o, NEW c, NEW q
  PROVE  Has(<<Command(o1, b1, p1)>>, o, c, q) <=> o = o1 /\ c = b1 /\ q = p1
<1>1. DOMAIN <<Command(o1, b1, p1)>> = {1} /\ <<Command(o1, b1, p1)>>[1] = Command(o1, b1, p1)
  OBVIOUS
<1> QED
  BY <1>1, SameCommand DEF Has

LEMMA SceneHas ==
  ASSUME NEW b, NEW w, NEW p, NEW o, NEW c, NEW q
  PROVE  Has(Scene(b, w, p), o, c, q) <=>
           \/ o = "wait" /\ c = b /\ q = w
           \/ o \in {"draw", "signal"} /\ c = b /\ q = p
<1>1. /\ DOMAIN Scene(b, w, p) = {1, 2, 3} /\ Scene(b, w, p)[1] = Command("wait", b, w)
      /\ Scene(b, w, p)[2] = Command("draw", b, p)
      /\ Scene(b, w, p)[3] = Command("signal", b, p)
  BY DEF Scene
<1>2. Has(Scene(b, w, p), o, c, q) <=>
        \/ Command("wait", b, w) = Command(o, c, q)
        \/ Command("draw", b, p) = Command(o, c, q)
        \/ Command("signal", b, p) = Command(o, c, q)
  BY <1>1 DEF Has
<1> QED
  BY <1>2, SameCommand

(* A wait for the last flip of a buffer is a wait for all of them.          *)
LEMMA WaitAdded ==
  ASSUME DisplayInv, HistoryRight, [Next]_vars, NEW b \in Buffers, NEW p \in Stamps,
         p <= ahead[b] + 1, UNCHANGED <<ahead, asked>>, NEW k \in Nat \ {0},
         Head(commands'[k]) = Command("wait", b, lastDisplay[b])
  PROVE  Behind(k, b, p)'
<1>1. \A q \in 1..(p - 1) : asked[b][q] = "flip" => q <= lastDisplay[b]
  BY BufferFields DEF HistoryRight, Stamps
<1>2. lastDisplay[b] \in Stamps
  BY BufferFields DEF Stamps
<1>3. WaitsFor(k, b, p)'
  BY <1>1, <1>2 DEF WaitsFor, FlipsUpTo
<1>4. k \in 1..k
  OBVIOUS
<1> QED
  BY <1>3, <1>4 DEF Behind

(* What a list that is submitted holds: the draw of its call, or the signal,*)
(* or both, behind the wait; or neither.                                    *)
LEMMA SubmitHolds ==
  ASSUME DisplayInv, FramesInv, [Next]_vars, NEW g \in Guests, Submit(g),
         NEW b0 \in Buffers, NEW n0 \in Stamps, NEW k0 \in Nat \ {0},
         b0 = call[g].old, n0 = ahead[b0], k0 = Len(commands) + 1
  PROVE  /\ \A o \in {"draw", "signal"} : \A c, q : InPipe(k0, o, c, q)' => c = b0 /\ q = n0
         /\ InPipe(k0, "draw", b0, n0)' =>
              Submitting(g, b0) /\ ~SignalOnly(g, b0) /\ Behind(k0, b0, n0)'
         /\ InPipe(k0, "signal", b0, n0)' =>
              Submitting(g, b0) /\ (InPipe(k0, "draw", b0, n0)' \/ SignalOnly(g, b0))
         /\ Submitting(g, b0) =>
              /\ InPipe(k0, "draw", b0, n0)' <=> ~SignalOnly(g, b0)
              /\ InPipe(k0, "signal", b0, n0)' \/ Submitting(g, b0)'
         /\ \A b \in Buffers : Submitting(g, b)' =>
              /\ b = b0 /\ InPipe(k0, "draw", b0, n0)' /\ ~InPipe(k0, "signal", b0, n0)'
              /\ SignalOnly(g, b)' /\ ~DrawFirst(g, b)'
         /\ \A b \in Buffers, p \in Stamps :
              Transferring(g, b)' /\ p = ahead'[b] + 1 => Awaited(b, p)'
<1>0. HistoryRight /\ CallsRight /\ SubmissionsRight /\ EntryRight /\ RequestsRight
  BY DEF FramesInv, PipeInv
<1>1. b0 = call[g].old /\ n0 = ahead[b0] /\ k0 = Len(commands) + 1
  OBVIOUS
<1>2. /\ commands'[k0] = Head(lists[g]) /\ UNCHANGED <<ahead, asked, lastDisplay>>
      /\ \A o, c, q : InPipe(k0, o, c, q)' <=> Has(Head(lists[g]), o, c, q)
      /\ Len(commands') = k0
  BY <1>1, SubmitStep DEF sync, history
<1>3. n0 <= ahead[b0] + 1
  BY <1>1 DEF Stamps
<1>4. CASE /\ pc[g] = "transfer" /\ lists[g] = << <<Command("wait", b0, lastDisplay[b0])>> >>
           /\ UNCHANGED <<pc, call>> /\ lists'[g] = <<>>
  <2>1. Head(lists[g]) = <<Command("wait", b0, lastDisplay[b0])>>
    BY <1>4
  <2>2. \A o \in {"draw", "signal"} : \A c, q : ~InPipe(k0, o, c, q)'
    <3>1. \A o, c, q : InPipe(k0, o, c, q)' <=> Has(<<Command("wait", b0, lastDisplay[b0])>>, o, c, q)
      BY <1>2, <2>1
    <3> QED
      BY <3>1, OneInList
  <2>3. ~Submitting(g, b0) /\ \A b \in Buffers : ~Submitting(g, b)'
    BY <1>4 DEF Submitting
  <2>4. Head(commands'[k0]) = Command("wait", b0, lastDisplay[b0])
    BY <1>2, <2>1
  <2>5. ASSUME NEW b \in Buffers, NEW p \in Stamps, Transferring(g, b)', p = ahead'[b] + 1
        PROVE  Awaited(b, p)'
    <3>1. b = b0 /\ p <= ahead[b0] + 1
      BY <1>1, <1>2, <1>4, <2>5, BufferFields DEF Transferring
    <3>2. Behind(k0, b, p)'
      BY <1>0, <1>2, <2>4, <3>1, WaitAdded
    <3> QED
      BY <1>2, <3>2 DEF Awaited, Behind
  <2> QED
    BY <1>1, <2>2, <2>3, <2>5
<1>5. CASE /\ pc[g] = "newFrame" /\ lists[g] = << <<Command("other", call[g].new, 0)>> >>
           /\ pc'[g] \in {"idle", "drain"}
  <2>1. Head(lists[g]) = <<Command("other", call[g].new, 0)>>
    BY <1>5
  <2>2. \A o \in {"draw", "signal"} : \A c, q : ~InPipe(k0, o, c, q)'
    <3>1. \A o, c, q : InPipe(k0, o, c, q)' <=> Has(<<Command("other", call[g].new, 0)>>, o, c, q)
      BY <1>2, <2>1
    <3> QED
      BY <3>1, OneInList
  <2>3. ~Submitting(g, b0) /\ \A b \in Buffers : ~Submitting(g, b)' /\ ~Transferring(g, b)'
    BY <1>5 DEF Submitting, Transferring
  <2> QED
    BY <1>1, <2>2, <2>3
<1>6. CASE /\ pc[g] = "submit" /\ lists[g] = <<Scene(b0, lastDisplay[b0], ahead[b0])>>
           /\ pc'[g] = "idle"
  <2>1. Head(lists[g]) = Scene(b0, lastDisplay[b0], n0)
    BY <1>1, <1>6
  <2>2. \A o \in {"draw", "signal"} : \A c, q : InPipe(k0, o, c, q)' <=> c = b0 /\ q = n0
    <3>1. \A o, c, q : InPipe(k0, o, c, q)' <=> Has(Scene(b0, lastDisplay[b0], n0), o, c, q)
      BY <1>2, <2>1
    <3> QED
      BY <3>1, SceneHas
  <2>3. /\ Submitting(g, b0)
        /\ \A b \in Buffers : ~Submitting(g, b)' /\ ~Transferring(g, b)'
    BY <1>1, <1>6 DEF Submitting, Transferring
  <2>4. ~SignalOnly(g, b0)
    <3>1. Len(lists[g]) = 1 /\ Len(lists[g][1]) = 3
      BY <1>6 DEF Scene
    <3>2. SignalOnly(g, b0) => Len(lists[g][1]) = 1
      BY DEF SignalOnly
    <3> QED
      BY <3>1, <3>2
  <2>5. Head(commands'[k0]) = Command("wait", b0, lastDisplay[b0])
    BY <1>1, <1>2, <2>1, SceneFields, BufferFields DEF Stamps
  <2>6. Behind(k0, b0, n0)'
    BY <1>0, <1>2, <1>3, <2>5, WaitAdded
  <2> QED
    BY <1>1, <2>2, <2>3, <2>4, <2>6
<1>7. CASE pc[g] = "submit" /\ DrawFirst(g, b0) /\ UNCHANGED <<pc, call>> /\ SignalOnly(g, b0)'
  <2>1. Head(lists[g]) = <<Command("draw", b0, n0)>> /\ Len(lists[g]) = 2
    BY <1>1, <1>7 DEF DrawFirst
  <2>2. \A o \in {"draw", "signal"} : \A c, q :
          InPipe(k0, o, c, q)' <=> c = b0 /\ q = n0 /\ o = "draw"
    <3>1. \A o, c, q : InPipe(k0, o, c, q)' <=> Has(<<Command("draw", b0, n0)>>, o, c, q)
      BY <1>2, <2>1
    <3> QED
      BY <3>1, OneInList
  <2>3. /\ Submitting(g, b0) /\ Submitting(g, b0)'
        /\ \A b \in Buffers : ~Transferring(g, b)' /\ (Submitting(g, b)' => b = b0)
    BY <1>1, <1>7 DEF Submitting, Transferring
  <2>4. ~SignalOnly(g, b0) /\ ~DrawFirst(g, b0)'
    BY <1>7, <2>1 DEF SignalOnly, DrawFirst
  <2>5. Awaited(b0, n0)
    BY <1>0, <1>1, <1>7, <2>3 DEF SubmissionsRight, SubmissionRight
  <2>6. Behind(k0, b0, n0)'
    <3>1. PICK k \in Nat : k = Len(commands)
      BY SubmitStep
    <3>2. Behind(k, b0, n0)'
      BY <1>0, <1>3, <2>5, <3>1, SubmitStep, BehindStays DEF Awaited
    <3>3. \A i \in 1..k : i \in 1..k0
      BY <1>1, <3>1
    <3> QED
      BY <3>2, <3>3 DEF Behind
  <2> QED
    BY <1>1, <1>7, <2>2, <2>3, <2>4, <2>6
<1>8. CASE pc[g] = "submit" /\ SignalOnly(g, b0) /\ pc'[g] = "idle"
  <2>1. Head(lists[g]) = <<Command("signal", b0, n0)>>
    BY <1>1, <1>8 DEF SignalOnly
  <2>2. \A o \in {"draw", "signal"} : \A c, q :
          InPipe(k0, o, c, q)' <=> c = b0 /\ q = n0 /\ o = "signal"
    <3>1. \A o, c, q : InPipe(k0, o, c, q)' <=> Has(<<Command("signal", b0, n0)>>, o, c, q)
      BY <1>2, <2>1
    <3> QED
      BY <3>1, OneInList
  <2>3. /\ Submitting(g, b0)
        /\ \A b \in Buffers : ~Submitting(g, b)' /\ ~Transferring(g, b)'
    BY <1>1, <1>8 DEF Submitting, Transferring
  <2> QED
    BY <1>1, <1>8, <2>2, <2>3
<1> QED
  BY <1>0, <1>1, <1>4, <1>5, <1>6, <1>7, <1>8, Submissions

LEMMA SubmitKeepsPipe ==
  ASSUME DisplayInv, FramesInv, [Next]_vars, NEW g \in Guests, Submit(g)
  PROVE  PipeInv'
<1>0. /\ HistoryRight /\ EntryRight /\ UsedApart /\ CallsRight /\ RequestsRight
      /\ PipeOrdered /\ DrawsRight /\ SignalsRight /\ SubmissionsRight
      /\ GuestTyped /\ HistoryTyped
  BY DEF FramesInv, PipeInv, DisplayInv, Typed
<1>1. PICK b0 \in Buffers, n0 \in Stamps, k0 \in Nat \ {0} :
        b0 = call[g].old /\ n0 = ahead[b0] /\ k0 = Len(commands) + 1
  BY GuestFields, BufferFields, SubmitStep DEF Stamps
<1>2. /\ Spots' = Spots \cup {k0} /\ k0 \notin Spots
      /\ \A i \in Spots : i \in Nat /\ i < k0 /\ \A j \in 0..i : j \in Spots
      /\ \A i \in Spots : \A o, c, q : InPipe(i, o, c, q)' <=> InPipe(i, o, c, q)
      /\ UNCHANGED <<requests, ahead, asked, begun, finished>>
  BY <1>1, SubmitStep DEF sync, history, Spots
<1>3. \A h \in Guests \ {g} : pc'[h] = pc[h] /\ call'[h] = call[h] /\ lists'[h] = lists[h]
  BY <1>0 DEF GuestTyped, Submit, Return, Goto
<1>4. /\ \A b, p : IsDraw(b, p)' <=> IsDraw(b, p)
      /\ \A i, b, p : Requested(i, b, p)' <=> Requested(i, b, p)
      /\ \A h \in Guests \ {g}, b \in Buffers :
           /\ Submitting(h, b)' <=> Submitting(h, b)
           /\ Transferring(h, b)' <=> Transferring(h, b)
           /\ SignalOnly(h, b)' <=> SignalOnly(h, b)
           /\ DrawFirst(h, b)' <=> DrawFirst(h, b)
  BY <1>2, <1>3 DEF IsDraw, Requested, Submitting, Transferring, SignalOnly, DrawFirst
(* What the new list holds.                                                 *)
<1>5. \A o \in {"draw", "signal"} : \A c, q : InPipe(k0, o, c, q)' => c = b0 /\ q = n0
  BY <1>1, SubmitHolds
<1>6. InPipe(k0, "draw", b0, n0)' =>
        Submitting(g, b0) /\ ~SignalOnly(g, b0) /\ Behind(k0, b0, n0)'
  BY <1>1, SubmitHolds
<1>7. InPipe(k0, "signal", b0, n0)' =>
        Submitting(g, b0) /\ (InPipe(k0, "draw", b0, n0)' \/ SignalOnly(g, b0))
  BY <1>1, SubmitHolds
<1>8. Submitting(g, b0) => /\ InPipe(k0, "draw", b0, n0)' <=> ~SignalOnly(g, b0)
                           /\ InPipe(k0, "signal", b0, n0)' \/ Submitting(g, b0)'
  BY <1>1, SubmitHolds
<1>9. /\ \A b \in Buffers : Submitting(g, b)' =>
           /\ b = b0 /\ InPipe(k0, "draw", b0, n0)' /\ ~InPipe(k0, "signal", b0, n0)'
           /\ SignalOnly(g, b)' /\ ~DrawFirst(g, b)'
      /\ \A b \in Buffers, p \in Stamps :
           Transferring(g, b)' /\ p = ahead'[b] + 1 => Awaited(b, p)'
  BY <1>1, SubmitHolds
(* Its call's work is nowhere else.                                         *)
<1>10. Submitting(g, b0) =>
         /\ IsDraw(b0, n0) /\ n0 \notin finished[b0]
         /\ \A i \in Spots : ~InPipe(i, "signal", b0, n0)
         /\ \A i \in DOMAIN requests : ~Requested(i, b0, n0)
         /\ ~SignalOnly(g, b0) =>
              n0 \notin begun[b0] /\ \A i \in Spots : ~InPipe(i, "draw", b0, n0)
         /\ SignalOnly(g, b0) =>
              n0 \in begun[b0] \/ \E i \in Spots : InPipe(i, "draw", b0, n0)
  BY <1>0, <1>1 DEF SubmissionsRight, SubmissionRight
<1>11. \A h \in Guests \ {g} : Submitting(g, b0) => ~Submitting(h, b0)
  BY <1>0 DEF UsedApart, Using, Submitting
<1>12. ASSUME NEW b \in Buffers, NEW p \in Stamps, IsDraw(b, p)
       PROVE  p <= ahead[b] + 1 /\ (b = b0 /\ p # n0 => p < n0)
  BY <1>1, <1>12, BufferFields DEF IsDraw
<1>13. ASSUME NEW b \in Buffers, NEW p \in Stamps, p <= ahead[b] + 1,
              NEW k \in Spots, Behind(k, b, p)
       PROVE  Behind(k, b, p)'
  <2>1. \A i \in 1..k : commands'[i] = commands[i]
    BY SubmitStep DEF Spots
  <2> QED
    BY <1>0, <1>13, <2>1, BehindStays
<1>14. ASSUME NEW b \in Buffers, NEW p \in Stamps, p <= ahead[b] + 1, Awaited(b, p)
       PROVE  Awaited(b, p)'
  <2>1. PICK k \in Spots : k = Len(commands)
    BY SubmitStep DEF Spots
  <2>2. Behind(k, b, p)'
    BY <1>13, <1>14, <2>1 DEF Awaited
  <2>3. Len(commands') = k + 1 /\ k \in Nat
    BY <2>1, SubmitStep
  <2> QED
    BY <2>2, <2>3 DEF Awaited, Behind
<1>15. PipeOrdered'
  <2> SUFFICES ASSUME NEW b \in Buffers, NEW p \in Stamps, NEW q \in Stamps
               PROVE  /\ \A op \in {"draw", "signal"}, i, j \in Spots' :
                           i < j /\ InPipe(i, op, b, p)' /\ InPipe(j, op, b, q)' => p < q
                      /\ \A i \in DOMAIN requests : Requested(i, b, p) =>
                           /\ \A j \in DOMAIN requests : i < j /\ Requested(j, b, q) => p < q
                           /\ \A j \in Spots' : InPipe(j, "signal", b, q)' => p < q
    BY <1>2, <1>4 DEF PipeOrdered
  <2>1. ASSUME NEW op \in {"draw", "signal"}, NEW i \in Spots', NEW j \in Spots',
               i < j, InPipe(i, op, b, p)', InPipe(j, op, b, q)'
        PROVE  p < q
    <3>1. i \in Spots /\ InPipe(i, op, b, p)
      BY <1>2, <2>1
    <3>2. CASE j \in Spots
      BY <1>0, <1>2, <2>1, <3>1, <3>2 DEF PipeOrdered
    <3>3. CASE j = k0
      <4>1. b = b0 /\ q = n0 /\ InPipe(k0, op, b0, n0)'
        BY <1>5, <2>1, <3>3
      <4>2. p # n0
        BY <1>6, <1>7, <1>10, <3>1, <4>1
      <4>3. IsDraw(b, p)
        BY <1>0, <3>1 DEF DrawsRight, SignalsRight
      <4> QED
        BY <1>12, <4>1, <4>2, <4>3
    <3> QED
      BY <1>2, <3>2, <3>3
  <2>2. ASSUME NEW i \in DOMAIN requests, Requested(i, b, p)
        PROVE  /\ \A j \in DOMAIN requests : i < j /\ Requested(j, b, q) => p < q
               /\ \A j \in Spots' : InPipe(j, "signal", b, q)' => p < q
    <3>1. \A j \in DOMAIN requests : i < j /\ Requested(j, b, q) => p < q
      BY <1>0, <2>2 DEF PipeOrdered
    <3>2. \A j \in Spots : InPipe(j, "signal", b, q)' => p < q
      BY <1>0, <1>2, <2>2 DEF PipeOrdered
    <3>3. InPipe(k0, "signal", b, q)' => p < q
      <4>1. SUFFICES ASSUME InPipe(k0, "signal", b, q)' PROVE p < q
        OBVIOUS
      <4>2. b = b0 /\ q = n0 /\ p # n0
        BY <1>5, <1>7, <1>10, <2>2, <4>1
      <4>3. IsDraw(b, p)
        BY <1>0, <2>2 DEF SignalsRight
      <4> QED
        BY <1>12, <4>2, <4>3
    <3> QED
      BY <1>2, <3>1, <3>2, <3>3
  <2> QED
    BY <2>1, <2>2
<1>16. DrawsRight'
  <2> SUFFICES ASSUME NEW b \in Buffers, NEW p \in Stamps
               PROVE  /\ \A i \in Spots' : InPipe(i, "draw", b, p)' =>
                           IsDraw(b, p) /\ p \notin begun[b] /\ Behind(i, b, p)'
                      /\ IsDraw(b, p) /\ p \notin begun[b] =>
                           \/ \E i \in Spots' : InPipe(i, "draw", b, p)'
                           \/ /\ p = ahead[b]
                              /\ \E h \in Guests : Submitting(h, b)' /\ ~SignalOnly(h, b)'
                      /\ IsDraw(b, p) /\ p \in begun[b] => Cleared(b, p)'
    BY <1>2, <1>4 DEF DrawsRight
  <2>1. ASSUME NEW i \in Spots', InPipe(i, "draw", b, p)'
        PROVE  IsDraw(b, p) /\ p \notin begun[b] /\ Behind(i, b, p)'
    <3>1. CASE i \in Spots
      <4>1. IsDraw(b, p) /\ p \notin begun[b] /\ Behind(i, b, p)
        BY <1>0, <1>2, <2>1, <3>1 DEF DrawsRight
      <4> QED
        BY <1>12, <1>13, <3>1, <4>1
    <3>2. CASE i = k0
      BY <1>5, <1>6, <1>10, <2>1, <3>2
    <3> QED
      BY <1>2, <3>1, <3>2
  <2>2. ASSUME IsDraw(b, p), p \notin begun[b]
        PROVE  \/ \E i \in Spots' : InPipe(i, "draw", b, p)'
               \/ p = ahead[b] /\ \E h \in Guests : Submitting(h, b)' /\ ~SignalOnly(h, b)'
    <3>1. CASE \E i \in Spots : InPipe(i, "draw", b, p)
      BY <1>2, <3>1
    <3>2. ASSUME NEW h \in Guests, Submitting(h, b), ~SignalOnly(h, b), p = ahead[b]
          PROVE  \/ \E i \in Spots' : InPipe(i, "draw", b, p)'
                 \/ p = ahead[b] /\ \E d \in Guests : Submitting(d, b)' /\ ~SignalOnly(d, b)'
      <4>1. CASE h = g
        <5>1. b = b0 /\ p = n0
          BY <1>1, <3>2, <4>1 DEF Submitting
        <5> QED
          BY <1>2, <1>8, <3>2, <4>1, <5>1
      <4>2. CASE h # g
        BY <1>4, <3>2, <4>2
      <4> QED
        BY <4>1, <4>2
    <3> QED
      BY <1>0, <2>2, <3>1, <3>2 DEF DrawsRight
  <2>3. ASSUME IsDraw(b, p), p \in begun[b] PROVE Cleared(b, p)'
    BY <1>0, <1>12, <2>3, ClearedStays DEF DrawsRight
  <2> QED
    BY <2>1, <2>2, <2>3
<1>17. SignalsRight'
  <2> SUFFICES ASSUME NEW b \in Buffers, NEW p \in Stamps
               PROVE  /\ \A i \in Spots' : InPipe(i, "signal", b, p)' =>
                           /\ IsDraw(b, p) /\ p \notin finished[b]
                           /\ p \in begun[b] \/ \E j \in 0..i : InPipe(j, "draw", b, p)'
                      /\ \A i \in DOMAIN requests : Requested(i, b, p) =>
                           IsDraw(b, p) /\ p \in begun[b] \ finished[b]
                      /\ IsDraw(b, p) /\ p \notin finished[b] =>
                           \/ \E i \in Spots' : InPipe(i, "signal", b, p)'
                           \/ \E i \in DOMAIN requests : Requested(i, b, p)
                           \/ p = ahead[b] /\ \E h \in Guests : Submitting(h, b)'
    BY <1>2, <1>4 DEF SignalsRight
  <2>1. ASSUME NEW i \in Spots', InPipe(i, "signal", b, p)'
        PROVE  /\ IsDraw(b, p) /\ p \notin finished[b]
               /\ p \in begun[b] \/ \E j \in 0..i : InPipe(j, "draw", b, p)'
    <3>1. CASE i \in Spots
      <4>1. /\ IsDraw(b, p) /\ p \notin finished[b]
            /\ p \in begun[b] \/ \E j \in 0..i : InPipe(j, "draw", b, p)
        BY <1>0, <1>2, <2>1, <3>1 DEF SignalsRight
      <4> QED
        BY <1>2, <3>1, <4>1
    <3>2. CASE i = k0
      <4>1. b = b0 /\ p = n0 /\ Submitting(g, b0)
        BY <1>5, <1>7, <2>1, <3>2
      <4>2. InPipe(k0, "draw", b0, n0)' \/ SignalOnly(g, b0)
        BY <1>7, <2>1, <3>2, <4>1
      <4>3. k0 \in 0..i /\ \A j \in Spots : j \in 0..i
        BY <1>2, <3>2
      <4> QED
        BY <1>2, <1>10, <4>1, <4>2, <4>3
    <3> QED
      BY <1>2, <3>1, <3>2
  <2>2. \A i \in DOMAIN requests : Requested(i, b, p) =>
                           IsDraw(b, p) /\ p \in begun[b] \ finished[b]
    BY <1>0 DEF SignalsRight
  <2>3. ASSUME IsDraw(b, p), p \notin finished[b]
        PROVE  \/ \E i \in Spots' : InPipe(i, "signal", b, p)'
               \/ \E i \in DOMAIN requests : Requested(i, b, p)
               \/ p = ahead[b] /\ \E h \in Guests : Submitting(h, b)'
    <3>1. CASE \E i \in Spots : InPipe(i, "signal", b, p)
      BY <1>2, <3>1
    <3>2. ASSUME NEW h \in Guests, Submitting(h, b), p = ahead[b]
          PROVE  \/ \E i \in Spots' : InPipe(i, "signal", b, p)'
                 \/ p = ahead[b] /\ \E d \in Guests : Submitting(d, b)'
      <4>1. CASE h = g
        <5>1. b = b0 /\ p = n0
          BY <1>1, <3>2, <4>1 DEF Submitting
        <5> QED
          BY <1>2, <1>8, <3>2, <4>1, <5>1
      <4>2. CASE h # g
        BY <1>4, <3>2, <4>2
      <4> QED
        BY <4>1, <4>2
    <3> QED
      BY <1>0, <2>3, <3>1, <3>2 DEF SignalsRight
  <2> QED
    BY <2>1, <2>2, <2>3
<1>18. SubmissionsRight'
  <2> SUFFICES ASSUME NEW h \in Guests, NEW b \in Buffers, NEW p \in Stamps
               PROVE  SubmissionRight(h, b, p)'
    BY DEF SubmissionsRight
  <2>1. CASE h = g
    <3>1. Transferring(g, b)' /\ p = ahead'[b] + 1 => Awaited(b, p)'
      BY <1>9
    <3>2. ASSUME Submitting(g, b)', p = ahead'[b]
          PROVE  /\ IsDraw(b, p) /\ p \notin finished[b]
                 /\ \A i \in Spots' : ~InPipe(i, "signal", b, p)'
                 /\ \A i \in DOMAIN requests : ~Requested(i, b, p)
                 /\ SignalOnly(g, b)' /\ ~DrawFirst(g, b)'
                 /\ \E i \in Spots' : InPipe(i, "draw", b, p)'
      <4>1. /\ b = b0 /\ InPipe(k0, "draw", b0, n0)' /\ ~InPipe(k0, "signal", b0, n0)'
            /\ SignalOnly(g, b)' /\ ~DrawFirst(g, b)'
        BY <1>9, <3>2
      <4>2. p = n0
        BY <1>1, <1>2, <3>2, <4>1
      <4>3. Submitting(g, b0)
        BY <1>6, <4>1
      <4> QED
        BY <1>2, <1>10, <4>1, <4>2, <4>3
    <3> QED
      BY <1>2, <1>4, <2>1, <3>1, <3>2 DEF SubmissionRight
  <2>2. CASE h # g
    <3>1. SubmissionRight(h, b, p)
      BY <1>0 DEF SubmissionsRight
    <3>2. Transferring(h, b)' /\ p = ahead'[b] + 1 => Awaited(b, p)'
      BY <1>2, <1>4, <1>14, <2>2, <3>1, BufferFields DEF SubmissionRight
    <3>3. ASSUME Submitting(h, b)', p = ahead'[b]
          PROVE  /\ IsDraw(b, p) /\ p \notin finished[b]
                 /\ \A i \in Spots' : ~InPipe(i, "signal", b, p)'
                 /\ \A i \in DOMAIN requests : ~Requested(i, b, p)
                 /\ ~SignalOnly(h, b) =>
                      p \notin begun[b] /\ \A i \in Spots' : ~InPipe(i, "draw", b, p)'
                 /\ DrawFirst(h, b) => Awaited(b, p)'
                 /\ SignalOnly(h, b) =>
                      p \in begun[b] \/ \E i \in Spots' : InPipe(i, "draw", b, p)'
      <4>1. Submitting(h, b) /\ p = ahead[b]
        BY <1>2, <1>4, <2>2, <3>3
      <4>2. ~InPipe(k0, "signal", b, p)' /\ ~InPipe(k0, "draw", b, p)'
        BY <1>5, <1>6, <1>7, <1>11, <2>2, <4>1
      <4>3. /\ IsDraw(b, p) /\ p \notin finished[b]
            /\ \A i \in Spots : ~InPipe(i, "signal", b, p)
            /\ \A i \in DOMAIN requests : ~Requested(i, b, p)
            /\ ~SignalOnly(h, b) =>
                 p \notin begun[b] /\ \A i \in Spots : ~InPipe(i, "draw", b, p)
            /\ DrawFirst(h, b) => Awaited(b, p)
            /\ SignalOnly(h, b) => p \in begun[b] \/ \E i \in Spots : InPipe(i, "draw", b, p)
        BY <3>1, <4>1 DEF SubmissionRight
      <4> QED
        BY <1>2, <1>12, <1>14, <4>2, <4>3
    <3> QED
      BY <1>2, <1>4, <2>2, <3>2, <3>3 DEF SubmissionRight
  <2> QED
    BY <2>1, <2>2
<1> QED
  BY <1>0, <1>15, <1>16, <1>17, <1>18, RequestsKeep DEF PipeInv

LEMMA TakeKeepsPipe ==
  ASSUME DisplayInv, FramesInv, [Next]_vars, TakeList
  PROVE  PipeInv'
<1>0. /\ HistoryRight /\ EntryRight /\ RequestsRight
      /\ PipeOrdered /\ DrawsRight /\ SignalsRight /\ SubmissionsRight
  BY DEF FramesInv, PipeInv
<1>1. /\ \A i \in Spots' : i \in Nat /\ i + 1 \in Spots /\ i < Len(commands)
      /\ \A i \in Spots : i # 0 => i \in Nat /\ i - 1 \in Spots'
      /\ \A o, c, q : ~InPipe(0, o, c, q)
      /\ \A i \in Spots', o \in {"draw", "signal"} : \A c, q :
           InPipe(i, o, c, q)' <=> InPipe(i + 1, o, c, q)
      /\ UNCHANGED <<requests, ahead, asked, lastDisplay, begun, finished, pc, call, lists>>
  BY TakeStep DEF sync, guest, history, Spots
<1>2. ASSUME NEW o \in {"draw", "signal"}, NEW b, NEW p
      PROVE  (\E i \in Spots : InPipe(i, o, b, p)) <=> (\E i \in Spots' : InPipe(i, o, b, p)')
  <2>1. ASSUME NEW i \in Spots, InPipe(i, o, b, p) PROVE \E j \in Spots' : InPipe(j, o, b, p)'
    <3>1. i # 0 /\ i - 1 \in Spots' /\ (i - 1) + 1 = i
      BY <1>1, <2>1
    <3> QED
      BY <1>1, <2>1, <3>1
  <2> QED
    BY <1>1, <2>1
<1>3. ASSUME NEW b \in Buffers, NEW p \in Stamps, IsDraw(b, p) PROVE p <= ahead[b] + 1
  BY <1>3, BufferFields DEF IsDraw
<1>4. /\ \A b, p : IsDraw(b, p)' <=> IsDraw(b, p)
      /\ \A i, b, p : Requested(i, b, p)' <=> Requested(i, b, p)
      /\ \A g, b : /\ Submitting(g, b)' <=> Submitting(g, b)
                   /\ Transferring(g, b)' <=> Transferring(g, b)
                   /\ SignalOnly(g, b)' <=> SignalOnly(g, b)
                   /\ DrawFirst(g, b)' <=> DrawFirst(g, b)
  BY <1>1 DEF IsDraw, Requested, Submitting, Transferring, SignalOnly, DrawFirst
<1>5. ASSUME NEW b \in Buffers, NEW p \in Stamps, p <= ahead[b] + 1, Awaited(b, p)
      PROVE  Awaited(b, p)'
  <2>1. PICK k \in Nat : Len(commands) = k + 1 /\ Len(commands') = k
    BY TakeStep
  <2>2. Behind(k, b, p)'
    BY <1>0, <1>5, <2>1, BehindTaken DEF Awaited
  <2> QED
    BY <2>1, <2>2 DEF Awaited
<1>6. PipeOrdered'
  BY <1>0, <1>1, <1>4 DEF PipeOrdered
<1>7. DrawsRight'
  <2> SUFFICES ASSUME NEW b \in Buffers, NEW p \in Stamps
               PROVE  /\ \A i \in Spots' : InPipe(i, "draw", b, p)' =>
                           IsDraw(b, p) /\ p \notin begun[b] /\ Behind(i, b, p)'
                      /\ IsDraw(b, p) /\ p \notin begun[b] =>
                           \/ \E i \in Spots' : InPipe(i, "draw", b, p)'
                           \/ /\ p = ahead[b]
                              /\ \E g \in Guests : Submitting(g, b) /\ ~SignalOnly(g, b)
                      /\ IsDraw(b, p) /\ p \in begun[b] => Cleared(b, p)'
    BY <1>1, <1>4 DEF DrawsRight
  <2>1. ASSUME NEW i \in Spots', InPipe(i, "draw", b, p)'
        PROVE  IsDraw(b, p) /\ p \notin begun[b] /\ Behind(i, b, p)'
    <3>1. IsDraw(b, p) /\ p \notin begun[b] /\ Behind(i + 1, b, p)
      BY <1>0, <1>1, <2>1 DEF DrawsRight
    <3> QED
      BY <1>0, <1>1, <1>3, <3>1, BehindTaken
  <2>2. IsDraw(b, p) /\ p \notin begun[b] =>
          \/ \E i \in Spots' : InPipe(i, "draw", b, p)'
          \/ p = ahead[b] /\ \E g \in Guests : Submitting(g, b) /\ ~SignalOnly(g, b)
    BY <1>0, <1>2 DEF DrawsRight
  <2>3. IsDraw(b, p) /\ p \in begun[b] => Cleared(b, p)'
    BY <1>0, <1>3, ClearedStays DEF DrawsRight
  <2> QED
    BY <2>1, <2>2, <2>3
<1>8. SignalsRight'
  <2> SUFFICES ASSUME NEW b \in Buffers, NEW p \in Stamps
               PROVE  /\ \A i \in Spots' : InPipe(i, "signal", b, p)' =>
                           /\ IsDraw(b, p) /\ p \notin finished[b]
                           /\ p \in begun[b] \/ \E j \in 0..i : InPipe(j, "draw", b, p)'
                      /\ \A i \in DOMAIN requests : Requested(i, b, p) =>
                           IsDraw(b, p) /\ p \in begun[b] \ finished[b]
                      /\ IsDraw(b, p) /\ p \notin finished[b] =>
                           \/ \E i \in Spots' : InPipe(i, "signal", b, p)'
                           \/ \E i \in DOMAIN requests : Requested(i, b, p)
                           \/ p = ahead[b] /\ \E g \in Guests : Submitting(g, b)
    BY <1>1, <1>4 DEF SignalsRight
  <2>1. ASSUME NEW i \in Spots', InPipe(i, "signal", b, p)'
        PROVE  /\ IsDraw(b, p) /\ p \notin finished[b]
               /\ p \in begun[b] \/ \E j \in 0..i : InPipe(j, "draw", b, p)'
    <3>1. /\ IsDraw(b, p) /\ p \notin finished[b]
          /\ p \in begun[b] \/ \E j \in 0..(i + 1) : InPipe(j, "draw", b, p)
      BY <1>0, <1>1, <2>1 DEF SignalsRight
    <3>2. ASSUME NEW j \in 0..(i + 1), InPipe(j, "draw", b, p)
          PROVE  \E k \in 0..i : InPipe(k, "draw", b, p)'
      <4>1. j # 0 /\ j - 1 \in 0..i /\ (j - 1) + 1 = j
        BY <1>1, <3>2
      <4>2. \A k \in 0..i : k \in Spots'
        BY <1>1, TakeStep DEF Spots
      <4> QED
        BY <1>1, <3>2, <4>1, <4>2
    <3> QED
      BY <3>1, <3>2
  <2>2. /\ \A i \in DOMAIN requests : Requested(i, b, p) =>
             IsDraw(b, p) /\ p \in begun[b] \ finished[b]
        /\ IsDraw(b, p) /\ p \notin finished[b] =>
             \/ \E i \in Spots' : InPipe(i, "signal", b, p)'
             \/ \E i \in DOMAIN requests : Requested(i, b, p)
             \/ p = ahead[b] /\ \E g \in Guests : Submitting(g, b)
    BY <1>0, <1>2 DEF SignalsRight
  <2> QED
    BY <2>1, <2>2
<1>9. SubmissionsRight'
  <2> SUFFICES ASSUME NEW g \in Guests, NEW b \in Buffers, NEW p \in Stamps
               PROVE  SubmissionRight(g, b, p)'
    BY DEF SubmissionsRight
  <2>1. SubmissionRight(g, b, p)
    BY <1>0 DEF SubmissionsRight
  <2>2. Transferring(g, b) /\ p = ahead[b] + 1 => Awaited(b, p)'
    BY <1>5, <2>1, BufferFields DEF SubmissionRight
  <2>3. ASSUME Submitting(g, b), p = ahead[b]
        PROVE  /\ IsDraw(b, p) /\ p \notin finished[b]
               /\ \A i \in Spots' : ~InPipe(i, "signal", b, p)'
               /\ \A i \in DOMAIN requests : ~Requested(i, b, p)
               /\ ~SignalOnly(g, b) =>
                    p \notin begun[b] /\ \A i \in Spots' : ~InPipe(i, "draw", b, p)'
               /\ DrawFirst(g, b) => Awaited(b, p)'
               /\ SignalOnly(g, b) =>
                    p \in begun[b] \/ \E i \in Spots' : InPipe(i, "draw", b, p)'
    BY <1>2, <1>3, <1>5, <2>1, <2>3 DEF SubmissionRight
  <2> QED
    BY <1>1, <1>4, <2>2, <2>3 DEF SubmissionRight
<1> QED
  BY <1>0, <1>6, <1>7, <1>8, <1>9, RequestsKeep DEF PipeInv

LEMMA DrawKeepsPipe ==
  ASSUME DisplayInv, FramesInv, [Next]_vars, DoDraw
  PROVE  PipeInv' /\ \E b \in Buffers, p \in Stamps :
                       /\ InPipe(0, "draw", b, p) /\ IsDraw(b, p) /\ p \notin begun[b]
                       /\ Cleared(b, p) /\ begun'[b] = begun[b] \cup {p}
                       /\ \A c \in Buffers \ {b} : begun'[c] = begun[c]
<1>0. /\ HistoryRight /\ EntryRight /\ RequestsRight
      /\ PipeOrdered /\ DrawsRight /\ SignalsRight /\ SubmissionsRight
  BY DEF FramesInv, PipeInv
<1>1. PICK b0 \in Buffers, n0 \in Stamps :
        /\ \A c, q : /\ InPipe(0, "draw", c, q) <=> c = b0 /\ q = n0
                     /\ ~InPipe(0, "draw", c, q)'
                     /\ InPipe(0, "signal", c, q)' <=> InPipe(0, "signal", c, q)
        /\ begun'[b0] = begun[b0] \cup {n0} /\ \A c \in Buffers \ {b0} : begun'[c] = begun[c]
        /\ UNCHANGED <<commands, requests, accurate, finished, current, asked>>
  BY DrawStep
<1>2. UNCHANGED <<ahead, lastDisplay, pc, call, lists>>
  BY DEF DoDraw, sync, guest
<1>3. /\ Spots' = Spots /\ 0 \in Spots /\ \A i \in Spots : i \in Nat
      /\ \A i, o, c, q : i # 0 => (InPipe(i, o, c, q)' <=> InPipe(i, o, c, q))
  BY <1>1 DEF Spots, InPipe, Pipe, DisplayInv, Typed, RendererTyped
<1>4. IsDraw(b0, n0) /\ n0 \notin begun[b0] /\ Cleared(b0, n0)
  <2>1. IsDraw(b0, n0) /\ n0 \notin begun[b0] /\ Behind(0, b0, n0)
    BY <1>0, <1>1, <1>3 DEF DrawsRight
  <2>2. 1..0 = {}
    OBVIOUS
  <2> QED
    BY <2>1, <2>2 DEF Behind
<1>5. \A i \in Spots : i # 0 => ~InPipe(i, "draw", b0, n0)
  <2>1. ASSUME NEW i \in Spots, i # 0, InPipe(i, "draw", b0, n0) PROVE n0 < n0
    BY <1>0, <1>1, <1>3, <2>1 DEF PipeOrdered
  <2> QED
    BY <2>1 DEF Stamps
<1>6. /\ \A b, p : IsDraw(b, p)' <=> IsDraw(b, p)
      /\ \A i, b, p : Requested(i, b, p)' <=> Requested(i, b, p)
      /\ \A g, b : /\ Submitting(g, b)' <=> Submitting(g, b)
                   /\ Transferring(g, b)' <=> Transferring(g, b)
                   /\ SignalOnly(g, b)' <=> SignalOnly(g, b)
                   /\ DrawFirst(g, b)' <=> DrawFirst(g, b)
  BY <1>1, <1>2 DEF IsDraw, Requested, Submitting, Transferring, SignalOnly, DrawFirst
<1>7. ASSUME NEW b \in Buffers, NEW p \in Stamps, IsDraw(b, p) PROVE p <= ahead[b] + 1
  BY <1>7, BufferFields DEF IsDraw
<1>8. ASSUME NEW b \in Buffers, NEW p \in Stamps, p <= ahead[b] + 1, Awaited(b, p)
      PROVE  Awaited(b, p)'
  BY <1>0, <1>1, <1>8, BehindStays DEF Awaited, Behind
<1>9. \A b \in Buffers : \A p : p \in begun'[b] <=> p \in begun[b] \/ (b = b0 /\ p = n0)
  BY <1>1
<1>10. PipeOrdered'
  BY <1>0, <1>1, <1>3, <1>6 DEF PipeOrdered
<1>11. DrawsRight'
  <2> SUFFICES ASSUME NEW b \in Buffers, NEW p \in Stamps
               PROVE  /\ \A i \in Spots : InPipe(i, "draw", b, p)' =>
                           IsDraw(b, p) /\ p \notin begun'[b] /\ Behind(i, b, p)'
                      /\ IsDraw(b, p) /\ p \notin begun'[b] =>
                           \/ \E i \in Spots : InPipe(i, "draw", b, p)'
                           \/ /\ p = ahead[b]
                              /\ \E g \in Guests : Submitting(g, b) /\ ~SignalOnly(g, b)
                      /\ IsDraw(b, p) /\ p \in begun'[b] => Cleared(b, p)'
    BY <1>2, <1>3, <1>6 DEF DrawsRight
  <2>1. ASSUME NEW i \in Spots, InPipe(i, "draw", b, p)'
        PROVE  IsDraw(b, p) /\ p \notin begun'[b] /\ Behind(i, b, p)'
    <3>1. i # 0 /\ InPipe(i, "draw", b, p)
      BY <1>1, <1>3, <2>1
    <3>2. IsDraw(b, p) /\ p \notin begun[b] /\ Behind(i, b, p)
      BY <1>0, <3>1 DEF DrawsRight
    <3> QED
      BY <1>0, <1>1, <1>5, <1>7, <1>9, <3>1, <3>2, BehindStays
  <2>2. IsDraw(b, p) /\ p \notin begun'[b] =>
          \/ \E i \in Spots : InPipe(i, "draw", b, p)'
          \/ p = ahead[b] /\ \E g \in Guests : Submitting(g, b) /\ ~SignalOnly(g, b)
    BY <1>0, <1>1, <1>3, <1>9 DEF DrawsRight
  <2>3. IsDraw(b, p) /\ p \in begun'[b] => Cleared(b, p)'
    BY <1>0, <1>4, <1>7, <1>9, ClearedStays DEF DrawsRight
  <2> QED
    BY <2>1, <2>2, <2>3
<1>12. SignalsRight'
  <2> SUFFICES ASSUME NEW b \in Buffers, NEW p \in Stamps
               PROVE  /\ \A i \in Spots : InPipe(i, "signal", b, p) =>
                           /\ IsDraw(b, p) /\ p \notin finished[b]
                           /\ p \in begun'[b] \/ \E j \in 0..i : InPipe(j, "draw", b, p)'
                      /\ \A i \in DOMAIN requests : Requested(i, b, p) =>
                           IsDraw(b, p) /\ p \in begun'[b] \ finished[b]
                      /\ IsDraw(b, p) /\ p \notin finished[b] =>
                           \/ \E i \in Spots : InPipe(i, "signal", b, p)
                           \/ \E i \in DOMAIN requests : Requested(i, b, p)
                           \/ p = ahead[b] /\ \E g \in Guests : Submitting(g, b)
    <3>1. \A i \in Spots : \A c, q : InPipe(i, "signal", c, q)' <=> InPipe(i, "signal", c, q)
      BY <1>1, <1>3
    <3> QED
      BY <1>1, <1>2, <1>3, <1>6, <3>1 DEF SignalsRight
  <2>1. ASSUME NEW i \in Spots, InPipe(i, "signal", b, p)
        PROVE  /\ IsDraw(b, p) /\ p \notin finished[b]
               /\ p \in begun'[b] \/ \E j \in 0..i : InPipe(j, "draw", b, p)'
    <3>1. /\ IsDraw(b, p) /\ p \notin finished[b]
          /\ p \in begun[b] \/ \E j \in 0..i : InPipe(j, "draw", b, p)
      BY <1>0, <2>1 DEF SignalsRight
    <3> QED
      BY <1>1, <1>3, <1>9, <3>1
  <2>2. /\ \A i \in DOMAIN requests : Requested(i, b, p) =>
             IsDraw(b, p) /\ p \in begun'[b] \ finished[b]
        /\ IsDraw(b, p) /\ p \notin finished[b] =>
             \/ \E i \in Spots : InPipe(i, "signal", b, p)
             \/ \E i \in DOMAIN requests : Requested(i, b, p)
             \/ p = ahead[b] /\ \E g \in Guests : Submitting(g, b)
    BY <1>0, <1>9 DEF SignalsRight
  <2> QED
    BY <2>1, <2>2
<1>13. SubmissionsRight'
  <2> SUFFICES ASSUME NEW g \in Guests, NEW b \in Buffers, NEW p \in Stamps
               PROVE  SubmissionRight(g, b, p)'
    BY DEF SubmissionsRight
  <2>1. SubmissionRight(g, b, p)
    BY <1>0 DEF SubmissionsRight
  <2>2. Transferring(g, b) /\ p = ahead[b] + 1 => Awaited(b, p)'
    BY <1>8, <2>1, BufferFields DEF SubmissionRight
  <2>3. ASSUME Submitting(g, b), p = ahead[b]
        PROVE  /\ IsDraw(b, p) /\ p \notin finished[b]
               /\ \A i \in Spots : ~InPipe(i, "signal", b, p)'
               /\ \A i \in DOMAIN requests : ~Requested(i, b, p)
               /\ ~SignalOnly(g, b) =>
                    p \notin begun'[b] /\ \A i \in Spots : ~InPipe(i, "draw", b, p)'
               /\ DrawFirst(g, b) => Awaited(b, p)'
               /\ SignalOnly(g, b) =>
                    p \in begun'[b] \/ \E i \in Spots : InPipe(i, "draw", b, p)'
    <3>1. /\ IsDraw(b, p) /\ p \notin finished[b]
          /\ \A i \in Spots : ~InPipe(i, "signal", b, p)
          /\ \A i \in DOMAIN requests : ~Requested(i, b, p)
          /\ ~SignalOnly(g, b) =>
               p \notin begun[b] /\ \A i \in Spots : ~InPipe(i, "draw", b, p)
          /\ DrawFirst(g, b) => Awaited(b, p)
          /\ SignalOnly(g, b) => p \in begun[b] \/ \E i \in Spots : InPipe(i, "draw", b, p)
      BY <2>1, <2>3 DEF SubmissionRight
    <3> QED
      BY <1>1, <1>3, <1>7, <1>8, <1>9, <3>1
  <2> QED
    BY <1>1, <1>2, <1>3, <1>6, <2>2, <2>3 DEF SubmissionRight
<1>14. PipeInv'
  BY <1>0, <1>10, <1>11, <1>12, <1>13, RequestsKeep DEF PipeInv
<1> QED
  BY <1>1, <1>4, <1>14

(* A draw that no signal is ahead of is the first that is not over.         *)
LEMMA NothingBefore ==
  ASSUME DisplayInv, FramesInv, NEW b \in Buffers, NEW n \in Stamps, IsDraw(b, n), n \in begun[b],
         \A q \in Stamps, i \in Spots : InPipe(i, "signal", b, q) => n <= q,
         \A q \in Stamps, i \in DOMAIN requests : Requested(i, b, q) => n <= q
  PROVE  1..(n - 1) \subseteq finished[b]
<1>1. /\ ahead[b] \in Nat /\ Len(asked[b]) = ahead[b] /\ n \in Nat /\ n <= ahead[b]
      /\ asked[b] \in Seq({"draw", "flip"})
  BY BufferFields DEF FramesInv, HistoryRight, IsDraw, Stamps
<1>2. Cleared(b, n)
  BY DEF FramesInv, PipeInv, DrawsRight
<1>3. ASSUME NEW q \in 1..(n - 1), asked[b][q] = "draw" PROVE q \in finished[b]
  <2>1. IsDraw(b, q) /\ q \in Stamps /\ ~(n <= q) /\ q # ahead[b]
    BY <1>1, <1>3 DEF IsDraw, Stamps
  <2> QED
    BY <2>1 DEF FramesInv, PipeInv, SignalsRight
<1>4. \A q \in 1..(n - 1) : asked[b][q] \in {"draw", "flip"}
  BY <1>1
<1> QED
  BY <1>2, <1>3, <1>4 DEF Cleared

LEMMA SignalKeepsPipe ==
  ASSUME DisplayInv, FramesInv, [Next]_vars, DoSignal
  PROVE  /\ PipeInv'
         /\ \/ UNCHANGED <<current, finished>>
            \/ \E b \in Buffers, p \in Stamps :
                 /\ p \in begun[b] \ finished[b] /\ 1..(p - 1) \subseteq finished[b]
                 /\ IsDraw(b, p) /\ current'[b] = Later(b, p) /\ finished'[b] = finished[b] \cup {p}
                 /\ \A c \in Buffers \ {b} : current'[c] = current[c] /\ finished'[c] = finished[c]
<1>0. /\ HistoryRight /\ EntryRight /\ RequestsRight
      /\ PipeOrdered /\ DrawsRight /\ SignalsRight /\ SubmissionsRight
  BY DEF FramesInv, PipeInv
<1>1. PICK b0 \in Buffers, n0 \in Stamps :
        /\ \A o, c, q : InPipe(0, o, c, q) <=> o = "signal" /\ c = b0 /\ q = n0
        /\ \A o, c, q : ~InPipe(0, o, c, q)'
        /\ UNCHANGED <<commands, accurate, asked, begun>>
        /\ \/ /\ accurate /\ requests' = Append(requests, Command("signal", b0, n0))
              /\ UNCHANGED <<current, finished>>
           \/ /\ ~accurate /\ UNCHANGED requests /\ current'[b0] = Later(b0, n0)
              /\ finished'[b0] = finished[b0] \cup {n0}
              /\ \A c \in Buffers \ {b0} : current'[c] = current[c] /\ finished'[c] = finished[c]
  BY SignalStep
<1>2. UNCHANGED <<ahead, lastDisplay, pc, call, lists>>
  BY DEF DoSignal, sync, guest
<1>3. /\ Spots' = Spots /\ 0 \in Spots /\ \A i \in Spots : i \in Nat
      /\ \A i, o, c, q : i # 0 => (InPipe(i, o, c, q)' <=> InPipe(i, o, c, q))
  BY <1>1 DEF Spots, InPipe, Pipe, DisplayInv, Typed, RendererTyped
<1>4. IsDraw(b0, n0) /\ n0 \in begun[b0] /\ n0 \notin finished[b0]
  <2>1. /\ IsDraw(b0, n0) /\ n0 \notin finished[b0]
        /\ n0 \in begun[b0] \/ \E j \in 0..0 : InPipe(j, "draw", b0, n0)
    BY <1>0, <1>1, <1>3 DEF SignalsRight
  <2>2. \A j \in 0..0 : j = 0
    OBVIOUS
  <2> QED
    BY <1>1, <2>1, <2>2
<1>5. \A i \in Spots, q \in Stamps : i # 0 /\ InPipe(i, "signal", b0, q) => n0 < q
  BY <1>0, <1>1, <1>3 DEF PipeOrdered
<1>6. \A i \in DOMAIN requests, q \in Stamps : Requested(i, b0, q) => q < n0
  BY <1>0, <1>1, <1>3 DEF PipeOrdered
<1>7. /\ \A b, p : IsDraw(b, p)' <=> IsDraw(b, p)
      /\ \A g, b : /\ Submitting(g, b)' <=> Submitting(g, b)
                   /\ Transferring(g, b)' <=> Transferring(g, b)
                   /\ SignalOnly(g, b)' <=> SignalOnly(g, b)
                   /\ DrawFirst(g, b)' <=> DrawFirst(g, b)
  BY <1>1, <1>2 DEF IsDraw, Submitting, Transferring, SignalOnly, DrawFirst
<1>8. ASSUME NEW b \in Buffers, NEW p \in Stamps, IsDraw(b, p) PROVE p <= ahead[b] + 1
  BY <1>8, BufferFields DEF IsDraw
<1>9. ASSUME NEW b \in Buffers, NEW p \in Stamps, p <= ahead[b] + 1, NEW k, Behind(k, b, p)
      PROVE  Behind(k, b, p)'
  BY <1>0, <1>1, <1>9, BehindStays
<1>10. ASSUME NEW b \in Buffers, NEW p \in Stamps, p <= ahead[b] + 1, Awaited(b, p)
       PROVE  Awaited(b, p)'
  BY <1>0, <1>1, <1>10, BehindStays DEF Awaited, Behind
(* The signal has gone to the thread that waits for fences, or was given.   *)
<1>11. \/ /\ UNCHANGED finished
          /\ \A i \in DOMAIN requests : i \in DOMAIN requests' /\ i \in Nat
          /\ \E k \in Nat : /\ k \in DOMAIN requests' /\ \A i \in DOMAIN requests : i < k
                            /\ \A i \in DOMAIN requests' : i = k \/ i \in DOMAIN requests
                            /\ \A b, p : Requested(k, b, p)' <=> b = b0 /\ p = n0
          /\ \A i \in DOMAIN requests : \A b, p : Requested(i, b, p)' <=> Requested(i, b, p)
       \/ /\ \A b \in Buffers : \A p : p \in finished'[b] <=> p \in finished[b] \/ (b = b0 /\ p = n0)
          /\ DOMAIN requests' = {} /\ DOMAIN requests = {}
  <2>1. requests \in Seq(Commands)
    BY DEF DisplayInv, Typed, RendererTyped
  <2>2. CASE accurate
    <3>1. requests' = Append(requests, Command("signal", b0, n0)) /\ UNCHANGED finished
      BY <1>1, <2>2
    <3>2. /\ \A i \in DOMAIN requests : /\ i \in DOMAIN requests' /\ i \in Nat
                                        /\ i < Len(requests) + 1 /\ requests'[i] = requests[i]
          /\ Len(requests) + 1 \in Nat /\ Len(requests) + 1 \in DOMAIN requests'
          /\ \A i \in DOMAIN requests' : i = Len(requests) + 1 \/ i \in DOMAIN requests
          /\ requests'[Len(requests) + 1] = Command("signal", b0, n0)
      BY <2>1, <3>1
    <3>3. \A i \in DOMAIN requests : \A b, p : Requested(i, b, p)' <=> Requested(i, b, p)
      BY <3>2 DEF Requested
    <3>4. PICK k \in Nat : k = Len(requests) + 1
      BY <3>2
    <3>5. \A b, p : Requested(k, b, p)' <=> b = b0 /\ p = n0
      BY <3>2, <3>4, SameCommand DEF Requested
    <3> QED
      BY <3>1, <3>2, <3>3, <3>4, <3>5
  <2>3. CASE ~accurate
    BY <1>0, <1>1, <2>3, EmptySeq DEF RequestsRight
  <2> QED
    BY <2>2, <2>3
<1>12. PipeOrdered'
  <2> SUFFICES ASSUME NEW b \in Buffers, NEW p \in Stamps, NEW q \in Stamps
               PROVE  /\ \A op \in {"draw", "signal"}, i, j \in Spots :
                           i < j /\ InPipe(i, op, b, p)' /\ InPipe(j, op, b, q)' => p < q
                      /\ \A i \in DOMAIN requests' : Requested(i, b, p)' =>
                           /\ \A j \in DOMAIN requests' : i < j /\ Requested(j, b, q)' => p < q
                           /\ \A j \in Spots : InPipe(j, "signal", b, q)' => p < q
    BY <1>3 DEF PipeOrdered
  <2>1. \A op \in {"draw", "signal"}, i, j \in Spots :
          i < j /\ InPipe(i, op, b, p)' /\ InPipe(j, op, b, q)' => p < q
    BY <1>0, <1>1, <1>3 DEF PipeOrdered
  <2>2. ASSUME NEW i \in DOMAIN requests', Requested(i, b, p)',
               NEW j \in DOMAIN requests', i < j, Requested(j, b, q)'
        PROVE  p < q
    <3>1. i \in DOMAIN requests /\ Requested(i, b, p)
      BY <1>11, <2>2
    <3>2. CASE j \in DOMAIN requests
      BY <1>0, <1>11, <2>2, <3>1, <3>2 DEF PipeOrdered
    <3>3. CASE j \notin DOMAIN requests
      <4>1. b = b0 /\ q = n0
        BY <1>11, <2>2, <3>3
      <4> QED
        BY <1>6, <3>1, <4>1
    <3> QED
      BY <3>2, <3>3
  <2>3. ASSUME NEW i \in DOMAIN requests', Requested(i, b, p)',
               NEW j \in Spots, InPipe(j, "signal", b, q)'
        PROVE  p < q
    <3>1. j # 0 /\ InPipe(j, "signal", b, q)
      BY <1>1, <1>3, <2>3
    <3>2. CASE i \in DOMAIN requests
      BY <1>0, <1>11, <2>3, <3>1, <3>2 DEF PipeOrdered
    <3>3. CASE i \notin DOMAIN requests
      <4>1. b = b0 /\ p = n0
        BY <1>11, <2>3, <3>3
      <4> QED
        BY <1>5, <3>1, <4>1
    <3> QED
      BY <3>2, <3>3
  <2> QED
    BY <2>1, <2>2, <2>3
<1>13. DrawsRight'
  <2> SUFFICES ASSUME NEW b \in Buffers, NEW p \in Stamps
               PROVE  /\ \A i \in Spots : InPipe(i, "draw", b, p)' =>
                           IsDraw(b, p) /\ p \notin begun[b] /\ Behind(i, b, p)'
                      /\ IsDraw(b, p) /\ p \notin begun[b] =>
                           \/ \E i \in Spots : InPipe(i, "draw", b, p)'
                           \/ /\ p = ahead[b]
                              /\ \E g \in Guests : Submitting(g, b) /\ ~SignalOnly(g, b)
                      /\ IsDraw(b, p) /\ p \in begun[b] => Cleared(b, p)'
    BY <1>1, <1>2, <1>3, <1>7 DEF DrawsRight
  <2>1. \A i \in Spots : InPipe(i, "draw", b, p)' <=> InPipe(i, "draw", b, p)
    BY <1>1, <1>3
  <2>2. \A i \in Spots : InPipe(i, "draw", b, p)' =>
          IsDraw(b, p) /\ p \notin begun[b] /\ Behind(i, b, p)'
    BY <1>0, <1>8, <1>9, <2>1 DEF DrawsRight
  <2>3. IsDraw(b, p) /\ p \notin begun[b] =>
          \/ \E i \in Spots : InPipe(i, "draw", b, p)'
          \/ p = ahead[b] /\ \E g \in Guests : Submitting(g, b) /\ ~SignalOnly(g, b)
    BY <1>0, <2>1 DEF DrawsRight
  <2>4. IsDraw(b, p) /\ p \in begun[b] => Cleared(b, p)'
    BY <1>0, <1>8, ClearedStays DEF DrawsRight
  <2> QED
    BY <2>2, <2>3, <2>4
<1>14. SignalsRight'
  <2> SUFFICES ASSUME NEW b \in Buffers, NEW p \in Stamps
               PROVE  /\ \A i \in Spots : InPipe(i, "signal", b, p)' =>
                           /\ IsDraw(b, p) /\ p \notin finished'[b]
                           /\ p \in begun[b] \/ \E j \in 0..i : InPipe(j, "draw", b, p)'
                      /\ \A i \in DOMAIN requests' : Requested(i, b, p)' =>
                           IsDraw(b, p) /\ p \in begun[b] \ finished'[b]
                      /\ IsDraw(b, p) /\ p \notin finished'[b] =>
                           \/ \E i \in Spots : InPipe(i, "signal", b, p)'
                           \/ \E i \in DOMAIN requests' : Requested(i, b, p)'
                           \/ p = ahead[b] /\ \E g \in Guests : Submitting(g, b)
    BY <1>1, <1>2, <1>3, <1>7 DEF SignalsRight
  <2>1. ASSUME NEW i \in Spots, InPipe(i, "signal", b, p)'
        PROVE  /\ IsDraw(b, p) /\ p \notin finished'[b]
               /\ p \in begun[b] \/ \E j \in 0..i : InPipe(j, "draw", b, p)'
    <3>1. i # 0 /\ InPipe(i, "signal", b, p)
      BY <1>1, <1>3, <2>1
    <3>2. /\ IsDraw(b, p) /\ p \notin finished[b]
          /\ p \in begun[b] \/ \E j \in 0..i : InPipe(j, "draw", b, p)
      BY <1>0, <3>1 DEF SignalsRight
    <3>3. b = b0 => p # n0
      BY <1>5, <3>1 DEF Stamps
    <3>4. p \notin finished'[b]
      BY <1>11, <3>2, <3>3
    <3>5. \A j \in 0..i : InPipe(j, "draw", b, p) => InPipe(j, "draw", b, p)'
      BY <1>1, <1>3
    <3> QED
      BY <3>2, <3>4, <3>5
  <2>2. ASSUME NEW i \in DOMAIN requests', Requested(i, b, p)'
        PROVE  IsDraw(b, p) /\ p \in begun[b] \ finished'[b]
    <3>1. UNCHANGED finished
      BY <1>11, <2>2
    <3>2. CASE i \in DOMAIN requests
      BY <1>0, <1>11, <2>2, <3>1, <3>2 DEF SignalsRight
    <3>3. CASE i \notin DOMAIN requests
      <4>1. b = b0 /\ p = n0
        BY <1>11, <2>2, <3>3
      <4> QED
        BY <1>4, <3>1, <4>1
    <3> QED
      BY <3>2, <3>3
  <2>3. ASSUME IsDraw(b, p), p \notin finished'[b]
        PROVE  \/ \E i \in Spots : InPipe(i, "signal", b, p)'
               \/ \E i \in DOMAIN requests' : Requested(i, b, p)'
               \/ p = ahead[b] /\ \E g \in Guests : Submitting(g, b)
    <3>1. p \notin finished[b]
      BY <2>3, <1>11
    <3>2. CASE b = b0 /\ p = n0
      BY <1>11, <2>3, <3>2
    <3>3. ASSUME NEW i \in Spots, InPipe(i, "signal", b, p), ~(b = b0 /\ p = n0)
          PROVE  \E j \in Spots : InPipe(j, "signal", b, p)'
      BY <1>1, <1>3, <3>3
    <3>4. ASSUME NEW i \in DOMAIN requests, Requested(i, b, p)
          PROVE  \E j \in DOMAIN requests' : Requested(j, b, p)'
      BY <1>11, <3>4
    <3> QED
      BY <1>0, <2>3, <3>1, <3>2, <3>3, <3>4 DEF SignalsRight
  <2> QED
    BY <2>1, <2>2, <2>3
<1>15. SubmissionsRight'
  <2> SUFFICES ASSUME NEW g \in Guests, NEW b \in Buffers, NEW p \in Stamps
               PROVE  SubmissionRight(g, b, p)'
    BY DEF SubmissionsRight
  <2>1. SubmissionRight(g, b, p)
    BY <1>0 DEF SubmissionsRight
  <2>2. Transferring(g, b) /\ p = ahead[b] + 1 => Awaited(b, p)'
    BY <1>10, <2>1, BufferFields DEF SubmissionRight
  <2>3. ASSUME Submitting(g, b), p = ahead[b]
        PROVE  /\ IsDraw(b, p) /\ p \notin finished'[b]
               /\ \A i \in Spots : ~InPipe(i, "signal", b, p)'
               /\ \A i \in DOMAIN requests' : ~Requested(i, b, p)'
               /\ ~SignalOnly(g, b) =>
                    p \notin begun[b] /\ \A i \in Spots : ~InPipe(i, "draw", b, p)'
               /\ DrawFirst(g, b) => Awaited(b, p)'
               /\ SignalOnly(g, b) =>
                    p \in begun[b] \/ \E i \in Spots : InPipe(i, "draw", b, p)'
    <3>1. /\ IsDraw(b, p) /\ p \notin finished[b]
          /\ \A i \in Spots : ~InPipe(i, "signal", b, p)
          /\ \A i \in DOMAIN requests : ~Requested(i, b, p)
          /\ ~SignalOnly(g, b) =>
               p \notin begun[b] /\ \A i \in Spots : ~InPipe(i, "draw", b, p)
          /\ DrawFirst(g, b) => Awaited(b, p)
          /\ SignalOnly(g, b) => p \in begun[b] \/ \E i \in Spots : InPipe(i, "draw", b, p)
      BY <2>1, <2>3 DEF SubmissionRight
    <3>2. ~(b = b0 /\ p = n0)
      BY <1>1, <1>3, <3>1
    <3>3. p \notin finished'[b] /\ \A i \in DOMAIN requests' : ~Requested(i, b, p)'
      BY <1>11, <3>1, <3>2
    <3>4. /\ \A i \in Spots : ~InPipe(i, "signal", b, p)'
          /\ \A i \in Spots : InPipe(i, "draw", b, p)' <=> InPipe(i, "draw", b, p)
      BY <1>1, <1>3, <3>1
    <3> QED
      BY <1>8, <1>10, <3>1, <3>3, <3>4
  <2> QED
    BY <1>1, <1>2, <1>3, <1>7, <2>2, <2>3 DEF SubmissionRight
<1>16. PipeInv'
  BY <1>0, <1>12, <1>13, <1>14, <1>15, RequestsKeep DEF PipeInv
<1>17. CASE ~accurate
  <2>1. \A q \in Stamps, i \in Spots : InPipe(i, "signal", b0, q) => n0 <= q
    BY <1>1, <1>5 DEF Stamps
  <2>2. requests = <<>>
    BY <1>0, <1>17 DEF RequestsRight
  <2>3. 1..(n0 - 1) \subseteq finished[b0]
    BY <1>4, <2>1, <2>2, NothingBefore
  <2> QED
    BY <1>1, <1>4, <1>16, <1>17, <2>3
<1> QED
  BY <1>1, <1>16, <1>17

LEMMA FenceKeepsPipe ==
  ASSUME DisplayInv, FramesInv, [Next]_vars, FencePassed
  PROVE  /\ PipeInv'
         /\ \E b \in Buffers, p \in Stamps :
              /\ p \in begun[b] \ finished[b] /\ 1..(p - 1) \subseteq finished[b]
              /\ IsDraw(b, p) /\ current'[b] = Later(b, p) /\ finished'[b] = finished[b] \cup {p}
              /\ \A c \in Buffers \ {b} : current'[c] = current[c] /\ finished'[c] = finished[c]
<1>0. /\ HistoryRight /\ EntryRight /\ RequestsRight
      /\ PipeOrdered /\ DrawsRight /\ SignalsRight /\ SubmissionsRight
  BY DEF FramesInv, PipeInv
<1>1. PICK b0 \in Buffers, n0 \in Stamps :
        /\ Requested(1, b0, n0) /\ 1 \in DOMAIN requests
        /\ \A i : i \in DOMAIN requests' <=> i \in Nat /\ i + 1 \in DOMAIN requests /\ i # 0
        /\ \A i, c, q : i \in DOMAIN requests' => (Requested(i, c, q)' <=> Requested(i + 1, c, q))
        /\ UNCHANGED <<work, commands, accurate, asked, begun>>
        /\ current'[b0] = Later(b0, n0) /\ finished'[b0] = finished[b0] \cup {n0}
        /\ \A c \in Buffers \ {b0} : current'[c] = current[c] /\ finished'[c] = finished[c]
  BY <1>0, FenceStep
<1>2. UNCHANGED <<ahead, lastDisplay, pc, call, lists>>
  BY DEF FencePassed, sync, guest
<1>3. /\ Spots' = Spots /\ \A i, o, c, q : InPipe(i, o, c, q)' <=> InPipe(i, o, c, q)
  BY <1>1 DEF Spots, InPipe, Pipe
<1>4. IsDraw(b0, n0) /\ n0 \in begun[b0] /\ n0 \notin finished[b0]
  BY <1>0, <1>1 DEF SignalsRight
<1>5. \A i \in DOMAIN requests : i \in Nat /\ (i = 1 \/ 1 < i)
  BY DEF DisplayInv, Typed, RendererTyped
<1>6. /\ \A i \in DOMAIN requests, q \in Stamps : i # 1 /\ Requested(i, b0, q) => n0 < q
      /\ \A i \in Spots, q \in Stamps : InPipe(i, "signal", b0, q) => n0 < q
  BY <1>0, <1>1, <1>5 DEF PipeOrdered
<1>7. /\ \A b, p : IsDraw(b, p)' <=> IsDraw(b, p)
      /\ \A g, b : /\ Submitting(g, b)' <=> Submitting(g, b)
                   /\ Transferring(g, b)' <=> Transferring(g, b)
                   /\ SignalOnly(g, b)' <=> SignalOnly(g, b)
                   /\ DrawFirst(g, b)' <=> DrawFirst(g, b)
  BY <1>1, <1>2 DEF IsDraw, Submitting, Transferring, SignalOnly, DrawFirst
<1>8. ASSUME NEW b \in Buffers, NEW p \in Stamps, IsDraw(b, p) PROVE p <= ahead[b] + 1
  BY <1>8, BufferFields DEF IsDraw
<1>9. ASSUME NEW b \in Buffers, NEW p \in Stamps, p <= ahead[b] + 1, NEW k, Behind(k, b, p)
      PROVE  Behind(k, b, p)'
  BY <1>0, <1>1, <1>9, BehindStays
<1>10. ASSUME NEW b \in Buffers, NEW p \in Stamps, p <= ahead[b] + 1, Awaited(b, p)
       PROVE  Awaited(b, p)'
  BY <1>0, <1>1, <1>10, BehindStays DEF Awaited, Behind
<1>11. /\ \A b \in Buffers : \A p : p \in finished'[b] <=> p \in finished[b] \/ (b = b0 /\ p = n0)
       /\ \A b, p : Requested(1, b, p) => b = b0 /\ p = n0
  BY <1>1, SameCommand DEF Requested
<1>12. /\ \A i \in DOMAIN requests' : /\ i + 1 \in DOMAIN requests /\ i + 1 # 1 /\ i \in Nat
       /\ \A i \in DOMAIN requests : i # 1 => i - 1 \in DOMAIN requests' /\ (i - 1) + 1 = i
  BY <1>1, <1>5
<1>13. PipeOrdered'
  <2> SUFFICES ASSUME NEW b \in Buffers, NEW p \in Stamps, NEW q \in Stamps
               PROVE  /\ \A op \in {"draw", "signal"}, i, j \in Spots :
                           i < j /\ InPipe(i, op, b, p) /\ InPipe(j, op, b, q) => p < q
                      /\ \A i \in DOMAIN requests' : Requested(i, b, p)' =>
                           /\ \A j \in DOMAIN requests' : i < j /\ Requested(j, b, q)' => p < q
                           /\ \A j \in Spots : InPipe(j, "signal", b, q) => p < q
    BY <1>3 DEF PipeOrdered
  <2>1. ASSUME NEW i \in DOMAIN requests', Requested(i, b, p)',
               NEW j \in DOMAIN requests', i < j, Requested(j, b, q)'
        PROVE  p < q
    <3>1. i + 1 < j + 1 /\ Requested(i + 1, b, p) /\ Requested(j + 1, b, q)
      BY <1>1, <1>12, <2>1
    <3> QED
      BY <1>0, <1>12, <3>1 DEF PipeOrdered
  <2>2. ASSUME NEW i \in DOMAIN requests', Requested(i, b, p)',
               NEW j \in Spots, InPipe(j, "signal", b, q)
        PROVE  p < q
    <3>1. Requested(i + 1, b, p)
      BY <1>1, <2>2
    <3> QED
      BY <1>0, <1>12, <2>2, <3>1 DEF PipeOrdered
  <2>3. \A op \in {"draw", "signal"}, i, j \in Spots :
          i < j /\ InPipe(i, op, b, p) /\ InPipe(j, op, b, q) => p < q
    BY <1>0 DEF PipeOrdered
  <2> QED
    BY <2>1, <2>2, <2>3
<1>14. DrawsRight'
  <2> SUFFICES ASSUME NEW b \in Buffers, NEW p \in Stamps
               PROVE  /\ \A i \in Spots : InPipe(i, "draw", b, p) =>
                           IsDraw(b, p) /\ p \notin begun[b] /\ Behind(i, b, p)'
                      /\ IsDraw(b, p) /\ p \notin begun[b] =>
                           \/ \E i \in Spots : InPipe(i, "draw", b, p)
                           \/ /\ p = ahead[b]
                              /\ \E g \in Guests : Submitting(g, b) /\ ~SignalOnly(g, b)
                      /\ IsDraw(b, p) /\ p \in begun[b] => Cleared(b, p)'
    BY <1>1, <1>2, <1>3, <1>7 DEF DrawsRight
  <2>1. \A i \in Spots : InPipe(i, "draw", b, p) =>
          IsDraw(b, p) /\ p \notin begun[b] /\ Behind(i, b, p)'
    BY <1>0, <1>8, <1>9 DEF DrawsRight
  <2>2. IsDraw(b, p) /\ p \notin begun[b] =>
          \/ \E i \in Spots : InPipe(i, "draw", b, p)
          \/ p = ahead[b] /\ \E g \in Guests : Submitting(g, b) /\ ~SignalOnly(g, b)
    BY <1>0 DEF DrawsRight
  <2>3. IsDraw(b, p) /\ p \in begun[b] => Cleared(b, p)'
    BY <1>0, <1>8, ClearedStays DEF DrawsRight
  <2> QED
    BY <2>1, <2>2, <2>3
<1>15. SignalsRight'
  <2> SUFFICES ASSUME NEW b \in Buffers, NEW p \in Stamps
               PROVE  /\ \A i \in Spots : InPipe(i, "signal", b, p) =>
                           /\ IsDraw(b, p) /\ p \notin finished'[b]
                           /\ p \in begun[b] \/ \E j \in 0..i : InPipe(j, "draw", b, p)
                      /\ \A i \in DOMAIN requests' : Requested(i, b, p)' =>
                           IsDraw(b, p) /\ p \in begun[b] \ finished'[b]
                      /\ IsDraw(b, p) /\ p \notin finished'[b] =>
                           \/ \E i \in Spots : InPipe(i, "signal", b, p)
                           \/ \E i \in DOMAIN requests' : Requested(i, b, p)'
                           \/ p = ahead[b] /\ \E g \in Guests : Submitting(g, b)
    BY <1>1, <1>2, <1>3, <1>7 DEF SignalsRight
  <2>1. ASSUME NEW i \in Spots, InPipe(i, "signal", b, p)
        PROVE  /\ IsDraw(b, p) /\ p \notin finished'[b]
               /\ p \in begun[b] \/ \E j \in 0..i : InPipe(j, "draw", b, p)
    <3>1. /\ IsDraw(b, p) /\ p \notin finished[b]
          /\ p \in begun[b] \/ \E j \in 0..i : InPipe(j, "draw", b, p)
      BY <1>0, <2>1 DEF SignalsRight
    <3>2. b = b0 => p # n0
      BY <1>6, <2>1 DEF Stamps
    <3> QED
      BY <1>11, <3>1, <3>2
  <2>2. ASSUME NEW i \in DOMAIN requests', Requested(i, b, p)'
        PROVE  IsDraw(b, p) /\ p \in begun[b] \ finished'[b]
    <3>1. i + 1 \in DOMAIN requests /\ Requested(i + 1, b, p) /\ i + 1 # 1
      BY <1>1, <1>12, <2>2
    <3>2. IsDraw(b, p) /\ p \in begun[b] \ finished[b]
      BY <1>0, <3>1 DEF SignalsRight
    <3>3. b = b0 => p # n0
      BY <1>6, <3>1 DEF Stamps
    <3> QED
      BY <1>11, <3>2, <3>3
  <2>3. ASSUME IsDraw(b, p), p \notin finished'[b]
        PROVE  \/ \E i \in Spots : InPipe(i, "signal", b, p)
               \/ \E i \in DOMAIN requests' : Requested(i, b, p)'
               \/ p = ahead[b] /\ \E g \in Guests : Submitting(g, b)
    <3>1. p \notin finished[b] /\ ~(b = b0 /\ p = n0)
      BY <2>3, <1>11
    <3>2. ASSUME NEW i \in DOMAIN requests, Requested(i, b, p)
          PROVE  \E j \in DOMAIN requests' : Requested(j, b, p)'
      <4>1. i # 1
        BY <1>11, <3>1, <3>2
      <4>2. i - 1 \in DOMAIN requests' /\ (i - 1) + 1 = i
        BY <1>12, <4>1
      <4> QED
        BY <1>1, <3>2, <4>2
    <3> QED
      BY <1>0, <2>3, <3>1, <3>2 DEF SignalsRight
  <2> QED
    BY <2>1, <2>2, <2>3
<1>16. SubmissionsRight'
  <2> SUFFICES ASSUME NEW g \in Guests, NEW b \in Buffers, NEW p \in Stamps
               PROVE  SubmissionRight(g, b, p)'
    BY DEF SubmissionsRight
  <2>1. SubmissionRight(g, b, p)
    BY <1>0 DEF SubmissionsRight
  <2>2. Transferring(g, b) /\ p = ahead[b] + 1 => Awaited(b, p)'
    BY <1>10, <2>1, BufferFields DEF SubmissionRight
  <2>3. ASSUME Submitting(g, b), p = ahead[b]
        PROVE  /\ IsDraw(b, p) /\ p \notin finished'[b]
               /\ \A i \in Spots : ~InPipe(i, "signal", b, p)
               /\ \A i \in DOMAIN requests' : ~Requested(i, b, p)'
               /\ ~SignalOnly(g, b) =>
                    p \notin begun[b] /\ \A i \in Spots : ~InPipe(i, "draw", b, p)
               /\ DrawFirst(g, b) => Awaited(b, p)'
               /\ SignalOnly(g, b) =>
                    p \in begun[b] \/ \E i \in Spots : InPipe(i, "draw", b, p)
    <3>1. /\ IsDraw(b, p) /\ p \notin finished[b]
          /\ \A i \in Spots : ~InPipe(i, "signal", b, p)
          /\ \A i \in DOMAIN requests : ~Requested(i, b, p)
          /\ ~SignalOnly(g, b) =>
               p \notin begun[b] /\ \A i \in Spots : ~InPipe(i, "draw", b, p)
          /\ DrawFirst(g, b) => Awaited(b, p)
          /\ SignalOnly(g, b) => p \in begun[b] \/ \E i \in Spots : InPipe(i, "draw", b, p)
      BY <2>1, <2>3 DEF SubmissionRight
    <3>2. ~(b = b0 /\ p = n0)
      BY <1>1, <3>1
    <3>3. p \notin finished'[b] /\ \A i \in DOMAIN requests' : ~Requested(i, b, p)'
      BY <1>1, <1>11, <1>12, <3>1, <3>2
    <3> QED
      BY <1>8, <1>10, <3>1, <3>3
  <2> QED
    BY <1>1, <1>2, <1>3, <1>7, <2>2, <2>3 DEF SubmissionRight
<1>17. PipeInv'
  BY <1>0, <1>13, <1>14, <1>15, <1>16, RequestsKeep DEF PipeInv
<1>18. 1..(n0 - 1) \subseteq finished[b0]
  <2>1. \A q \in Stamps, i \in Spots : InPipe(i, "signal", b0, q) => n0 <= q
    BY <1>6 DEF Stamps
  <2>2. \A q \in Stamps, i \in DOMAIN requests : Requested(i, b0, q) => n0 <= q
    BY <1>6, <1>11 DEF Stamps
  <2> QED
    BY <1>4, <2>1, <2>2, NothingBefore
<1> QED
  BY <1>1, <1>4, <1>17, <1>18

LEMMA PipeKeeps ==
  ASSUME DisplayInv, FramesInv, [Next]_vars
  PROVE  PipeInv'
BY OthersKeepPipe, DrawAskKeepsPipe, SubmitKeepsPipe, TakeKeepsPipe, DrawKeepsPipe,
   SignalKeepsPipe, FenceKeepsPipe

-----------------------------------------------------------------------------
(* The histories stay right.                                                *)

(* A step leaves current and the logs alone, or is one of these.            *)
LEMMA LogSteps ==
  ASSUME [Next]_vars
  PROVE  \/ UNCHANGED <<current, begun, finished>>
         \/ DoDraw \/ DoSignal \/ FencePassed \/ HostStart \/ HostCallbackOver \/ HostSignal
<1> SUFFICES ASSUME ~DoDraw, ~DoSignal, ~FencePassed, ~HostStart, ~HostCallbackOver, ~HostSignal
             PROVE  UNCHANGED <<current, begun, finished>>
  OBVIOUS
<1>1. UNCHANGED current
  BY SyncSteps DEF sync, EndScene, TransferStamp, StampEntry
<1>2. UNCHANGED <<begun, finished>>
  BY HistorySteps DEF history, EndScene, TransferStamp, StampEntry
<1> QED
  BY <1>1, <1>2

LEMMA EntryFields ==
  ASSUME DisplayInv
  PROVE  /\ entry.old \in Buffers /\ entry.new \in Buffers
         /\ entry.oldStamp \in Nat /\ entry.newStamp \in Nat
BY DEF DisplayInv, Typed, HostTyped, Entries, Stamps

(* What is signalled of a piece of work is its own stamp.                   *)
LEMMA SignalledIsOver ==
  ASSUME DisplayInv, HistoryRight, NEW b \in Buffers, NEW p \in Stamps,
         p \in finished[b], 1..(p - 1) \subseteq finished[b]
  PROVE  1..Later(b, p) \subseteq finished[b]
<1>1. current[b] \in Nat /\ p \in Nat /\ 1..current[b] \subseteq finished[b]
  BY BufferFields DEF HistoryRight, Stamps
<1>2. \A q \in 1..p : q = p \/ q \in 1..(p - 1)
  BY <1>1
<1> QED
  BY <1>1, <1>2 DEF Later

LEMMA HostLogs ==
  ASSUME DisplayInv, FramesInv, [Next]_vars, HostStart \/ HostCallbackOver \/ HostSignal,
         NEW b \in Buffers
  PROVE  /\ finished'[b] \subseteq begun'[b] /\ begun'[b] \subseteq 1..ahead'[b]
         /\ 1..current'[b] \subseteq finished'[b]
<1>0. /\ EntryRight /\ HistoryRight /\ RequestsRight
      /\ finished[b] \subseteq begun[b] /\ begun[b] \subseteq 1..ahead[b]
      /\ 1..current[b] \subseteq finished[b]
      /\ begun \in [Buffers -> SUBSET Stamps] /\ finished \in [Buffers -> SUBSET Stamps]
  BY DEF FramesInv, HistoryRight, PipeInv, DisplayInv, Typed, HistoryTyped
<1>1. OneStampEach(entry)
  BY <1>0 DEF EntryRight, HostStart, HostCallbackOver, HostSignal
<1>2. CASE HostStart
  <2>1. begun'[b] = begun[b] \cup {p \in Stamps : FlipAt(entry, b, p)}
        /\ UNCHANGED <<current, ahead, finished>>
    BY <1>0, <1>1, <1>2, FlipMarks DEF HostStart, sync
  <2>2. \A p \in Stamps : FlipAt(entry, b, p) => p \in 1..ahead[b]
    BY <1>0, <1>2 DEF EntryRight, IsFlip, HostStart
  <2> QED
    BY <1>0, <2>1, <2>2
<1>3. CASE HostCallbackOver
  <2>1. finished'[b] = finished[b] \cup {p \in Stamps : FlipAt(entry, b, p)}
        /\ UNCHANGED <<current, ahead, begun>>
    BY <1>0, <1>1, <1>3, FlipMarks DEF HostCallbackOver, sync
  <2>2. \A p \in Stamps : FlipAt(entry, b, p) => p \in begun[b]
    BY <1>0, <1>3 DEF EntryRight, HostCallbackOver
  <2> QED
    BY <1>0, <2>1, <2>2
<1>4. CASE HostSignal
  <2>1. UNCHANGED <<ahead, begun, finished>>
    BY <1>4 DEF HostSignal, history
  <2>2. \A p \in Stamps : FlipAt(entry, b, p) => p \in finished[b] /\ p <= current[b] + 1
    BY <1>0, <1>4 DEF EntryRight, HostSignal
  <2>3. ASSUME NEW p \in Stamps, FlipAt(entry, b, p)
        PROVE  1..Later(b, p) \subseteq finished[b]
    <3>1. 1..(p - 1) \subseteq finished[b]
      BY <1>0, <2>2, <2>3, BufferFields DEF Stamps
    <3> QED
      BY <1>0, <2>2, <2>3, <3>1, SignalledIsOver
  <2>4. \/ current'[b] = current[b]
        \/ \E p \in Stamps : FlipAt(entry, b, p) /\ current'[b] = Later(b, p)
    <3>1. entry.oldStamp + 1 \in Stamps /\ entry.newStamp + 1 \in Stamps
      BY EntryFields DEF Stamps
    <3> QED
      BY <1>4, <3>1 DEF HostSignal, FlipAt
  <2> QED
    BY <1>0, <2>1, <2>3, <2>4
<1> QED
  BY <1>2, <1>3, <1>4

LEMMA HistoryKeeps ==
  ASSUME DisplayInv, FramesInv, [Next]_vars
  PROVE  HistoryRight'
<1>0. HistoryRight
  BY DEF FramesInv
<1> SUFFICES ASSUME NEW b \in Buffers
             PROVE  /\ Len(asked'[b]) = ahead'[b]
                    /\ \A q \in 1..ahead'[b] : asked'[b][q] = "flip" => q <= lastDisplay'[b]
                    /\ lastDisplay'[b] <= ahead'[b]
                    /\ finished'[b] \subseteq begun'[b] /\ begun'[b] \subseteq 1..ahead'[b]
                    /\ 1..current'[b] \subseteq finished'[b]
  BY DEF HistoryRight
<1>1. finished[b] \subseteq begun[b] /\ begun[b] \subseteq 1..ahead[b]
      /\ 1..current[b] \subseteq finished[b] /\ begun[b] \subseteq 1..ahead'[b]
  <2>1. finished[b] \subseteq begun[b] /\ begun[b] \subseteq 1..ahead[b]
        /\ 1..current[b] \subseteq finished[b]
    BY <1>0 DEF HistoryRight
  <2> QED
    BY <1>0, <2>1, AskedGrows
<1>2. CASE UNCHANGED <<current, begun, finished>>
  BY <1>0, <1>1, <1>2, StampsStay
<1>3. CASE DoDraw
  <2>1. UNCHANGED <<current, finished, ahead>>
    BY <1>3 DEF DoDraw, sync
  <2>2. PICK c \in Buffers, p \in Stamps :
          /\ IsDraw(c, p) /\ begun'[c] = begun[c] \cup {p}
          /\ \A d \in Buffers \ {c} : begun'[d] = begun[d]
    BY <1>3, DrawKeepsPipe
  <2>3. finished'[b] \subseteq begun'[b] /\ begun'[b] \subseteq 1..ahead'[b]
    BY <1>1, <2>1, <2>2 DEF IsDraw
  <2> QED
    BY <1>0, <1>1, <2>1, <2>3, StampsStay
<1>4. ASSUME NEW c \in Buffers, NEW p \in Stamps,
             p \in begun[c] \ finished[c], 1..(p - 1) \subseteq finished[c],
             current'[c] = Later(c, p), finished'[c] = finished[c] \cup {p},
             \A d \in Buffers \ {c} : current'[d] = current[d] /\ finished'[d] = finished[d],
             UNCHANGED begun
      PROVE  finished'[b] \subseteq begun'[b] /\ 1..current'[b] \subseteq finished'[b]
  <2>1. CASE b = c
    <3>1. current[b] \in Nat /\ p \in Nat
      BY BufferFields DEF Stamps
    <3>2. \A q \in 1..p : q = p \/ q \in 1..(p - 1)
      BY <3>1
    <3>3. 1..Later(b, p) \subseteq finished[b] \cup {p}
      BY <1>1, <1>4, <2>1, <3>1, <3>2 DEF Later
    <3> QED
      BY <1>1, <1>4, <2>1, <3>3
  <2> QED
    BY <1>1, <1>4, <2>1
<1>5. CASE DoSignal
  <2>1. UNCHANGED begun
    BY <1>5 DEF DoSignal
  <2>2. CASE UNCHANGED <<current, finished>>
    BY <1>2, <2>1, <2>2
  <2>3. CASE ~UNCHANGED <<current, finished>>
    <3>1. PICK c \in Buffers, p \in Stamps :
            /\ p \in begun[c] \ finished[c] /\ 1..(p - 1) \subseteq finished[c]
            /\ current'[c] = Later(c, p) /\ finished'[c] = finished[c] \cup {p}
            /\ \A d \in Buffers \ {c} : current'[d] = current[d] /\ finished'[d] = finished[d]
      BY <1>5, <2>3, SignalKeepsPipe
    <3>2. finished'[b] \subseteq begun'[b] /\ 1..current'[b] \subseteq finished'[b]
      BY <1>4, <2>1, <3>1
    <3> QED
      BY <1>0, <1>1, <2>1, <3>2, StampsStay
  <2> QED
    BY <2>2, <2>3
<1>6. CASE FencePassed
  <2>1. UNCHANGED begun
    BY <1>6 DEF FencePassed
  <2>2. PICK c \in Buffers, p \in Stamps :
          /\ p \in begun[c] \ finished[c] /\ 1..(p - 1) \subseteq finished[c]
          /\ current'[c] = Later(c, p) /\ finished'[c] = finished[c] \cup {p}
          /\ \A d \in Buffers \ {c} : current'[d] = current[d] /\ finished'[d] = finished[d]
    BY <1>6, FenceKeepsPipe
  <2>3. finished'[b] \subseteq begun'[b] /\ 1..current'[b] \subseteq finished'[b]
    BY <1>4, <2>1, <2>2
  <2> QED
    BY <1>0, <1>1, <2>1, <2>3, StampsStay
<1>7. CASE HostStart \/ HostCallbackOver \/ HostSignal
  BY <1>0, <1>7, HostLogs, StampsStay
<1> QED
  BY <1>2, <1>3, <1>5, <1>6, <1>7, LogSteps

-----------------------------------------------------------------------------
(* Every entry is shown once, and signalled once.                           *)

LEMMA HistoryFacts ==
  ASSUME DisplayInv, FramesInv, NEW b \in Buffers
  PROVE  /\ finished[b] \subseteq begun[b] /\ begun[b] \subseteq 1..ahead[b]
         /\ 1..current[b] \subseteq finished[b] /\ ahead[b] \in Nat
         /\ Len(asked[b]) = ahead[b] /\ asked[b] \in Seq({"draw", "flip"})
BY BufferFields DEF FramesInv, HistoryRight

(* Only the display thread begins flips and ends them.                      *)
LEMMA FlipLogs ==
  ASSUME DisplayInv, FramesInv, [Next]_vars, NEW b \in Buffers, NEW p \in Stamps, IsFlip(b, p)
  PROVE  /\ p \notin begun[b] /\ ~(HostStart /\ FlipAt(entry, b, p)) => p \notin begun'[b]
         /\ p \notin finished[b] /\ ~HostCallbackOver => p \notin finished'[b]
<1>0. /\ OneStampEach(entry) \/ ~HostStart
      /\ begun \in [Buffers -> SUBSET Stamps] /\ finished \in [Buffers -> SUBSET Stamps]
  BY DEF FramesInv, EntryRight, HostStart, DisplayInv, Typed, HistoryTyped
<1>1. ~IsDraw(b, p)
  BY DEF IsDraw, IsFlip
<1>2. CASE UNCHANGED <<current, begun, finished>>
  BY <1>2
<1>3. CASE DoDraw
  <2>1. UNCHANGED finished
    BY <1>3 DEF DoDraw
  <2> QED
    BY <1>1, <1>3, <2>1, DrawKeepsPipe
<1>4. CASE DoSignal
  <2>1. UNCHANGED begun
    BY <1>4 DEF DoSignal
  <2> QED
    BY <1>1, <1>4, <2>1, SignalKeepsPipe
<1>5. CASE FencePassed
  <2>1. UNCHANGED begun
    BY <1>5 DEF FencePassed
  <2> QED
    BY <1>1, <1>5, <2>1, FenceKeepsPipe
<1>6. CASE HostStart
  <2>1. begun'[b] = begun[b] \cup {q \in Stamps : FlipAt(entry, b, q)} /\ UNCHANGED finished
    BY <1>0, <1>6, FlipMarks DEF HostStart
  <2> QED
    BY <1>6, <2>1
<1>7. CASE HostCallbackOver
  BY <1>7 DEF HostCallbackOver, HostStart
<1>8. CASE HostSignal
  BY <1>8 DEF HostSignal, history
<1> QED
  BY <1>2, <1>3, <1>4, <1>5, <1>6, <1>7, <1>8, LogSteps

(* How a call comes to hold an entry with stamps.                           *)
LEMMA EntryCalls ==
  ASSUME [Next]_vars, DisplayInv, NEW g \in Guests
  PROVE  /\ pc'[g] = "enqueue" => StampEntry(g) \/ (pc[g] = "enqueue" /\ call'[g] = call[g])
         /\ pc'[g] = "stamp" => \/ pc[g] = "stamp" /\ call'[g] = call[g]
                                \/ \E old, new \in Buffers : AddEntry(g, old, new)
<1>0. GuestTyped
  BY DEF DisplayInv, Typed
<1>1. CASE UNCHANGED guest
  BY <1>1 DEF guest
<1>2. ASSUME NEW h \in Guests,
             \/ \E b \in Buffers : BeginScene(h, b) \/ Transfer(h, b)
             \/ Finish(h) \/ Terminate(h) \/ Drain(h) \/ AbortQueue(h) \/ KillVita(h)
      PROVE  pc'[g] \in {"enqueue", "stamp"} => pc[g] = pc'[g] /\ call'[g] = call[g]
  BY <1>0, <1>2 DEF GuestTyped, BeginScene, Transfer, Finish, Terminate, Drain, AbortQueue,
                    KillVita, Goto, Return
<1>3. ASSUME NEW h \in Guests, EndScene(h) \/ TransferStamp(h) \/ Submit(h) \/ Enqueue(h)
      PROVE  pc'[g] \in {"enqueue", "stamp"} => pc[g] = pc'[g] /\ call'[g] = call[g]
  BY <1>0, <1>3 DEF GuestTyped, EndScene, TransferStamp, Submit, Enqueue, Goto, Return
<1>4. ASSUME NEW h \in Guests, StampEntry(h)
      PROVE  pc'[g] \in {"enqueue", "stamp"} =>
               (StampEntry(g) /\ pc'[g] = "enqueue") \/ (pc[g] = pc'[g] /\ call'[g] = call[g])
  BY <1>0, <1>4 DEF GuestTyped, StampEntry, Goto
<1>5. ASSUME NEW h \in Guests, NEW old \in Buffers, NEW new \in Buffers, AddEntry(h, old, new)
      PROVE  pc'[g] \in {"enqueue", "stamp"} =>
               (g = h /\ pc'[g] = "stamp") \/ (pc[g] = pc'[g] /\ call'[g] = call[g])
  BY <1>0, <1>5 DEF GuestTyped, AddEntry, Goto
<1> QED
  BY <1>1, <1>2, <1>3, <1>4, <1>5, GuestSteps

(* A call that stamps its entry takes stamps that no entry has.             *)
LEMMA NewStamps ==
  ASSUME DisplayInv, FramesInv, NEW g \in Guests, StampEntry(g), NEW b \in Buffers,
         NEW p \in Stamps, FlipAt(call'[g], b, p)
  PROVE  /\ p = ahead[b] + 1 /\ IsFlip(b, p)' /\ p \notin begun'[b] /\ ~IsFlip(b, p)
         /\ call'[g] = call[g]
<1>1. pc[g] = "stamp" /\ UNCHANGED <<call, begun>>
  BY DEF StampEntry
<1>2. p = ahead[b] + 1 /\ b \in {call[g].old, call[g].new}
  BY <1>1 DEF FramesInv, CallsRight, CallRight, FlipAt
<1>3. ahead'[b] = ahead[b] + 1 /\ asked'[b] = Append(asked[b], "flip")
  BY <1>2, FlipAsked
<1>4. /\ ahead[b] \in Nat /\ Len(asked[b]) = ahead[b] /\ asked[b] \in Seq({"draw", "flip"})
      /\ begun[b] \subseteq 1..ahead[b]
  BY HistoryFacts
<1>5. asked'[b][p] = "flip" /\ p \in 1..ahead'[b]
  BY <1>2, <1>3, <1>4
<1> QED
  BY <1>1, <1>2, <1>4, <1>5 DEF IsFlip

LEMMA ApartFromCalls ==
  ASSUME DisplayInv, FramesInv, [Next]_vars, NEW b \in Buffers, NEW p \in Stamps, IsFlip(b, p),
         \A g \in Guests : pc[g] = "enqueue" => ~FlipAt(call[g], b, p)
  PROVE  \A g \in Guests : pc'[g] = "enqueue" => ~FlipAt(call'[g], b, p)
BY EntryCalls, NewStamps

(* The entries that calls are about to queue.                               *)
LEMMA CallsKeepFlips ==
  ASSUME DisplayInv, FramesInv, [Next]_vars, NEW g \in Guests
  PROVE  /\ pc'[g] \in {"stamp", "enqueue"} => OneStampEach(call'[g])
         /\ \A b \in Buffers, p \in Stamps :
              pc'[g] = "enqueue" /\ FlipAt(call'[g], b, p) =>
                IsFlip(b, p)' /\ p \notin begun'[b]
<1>0. HistoryRight /\ FlipsRight /\ EntryRight
  BY DEF FramesInv
<1>1. ASSUME NEW old \in Buffers, NEW new \in Buffers, AddEntry(g, old, new)
      PROVE  OneStampEach(call'[g])
  BY <1>1 DEF AddEntry, OneStampEach, DisplayInv, Typed, GuestTyped
<1>2. ASSUME StampEntry(g) PROVE pc[g] = "stamp" /\ call'[g] = call[g]
  BY <1>2 DEF StampEntry
<1>3. pc'[g] \in {"stamp", "enqueue"} => OneStampEach(call'[g])
  BY <1>0, <1>1, <1>2, EntryCalls DEF FlipsRight
<1>4. ASSUME NEW b \in Buffers, NEW p \in Stamps, pc'[g] = "enqueue", FlipAt(call'[g], b, p)
      PROVE  IsFlip(b, p)' /\ p \notin begun'[b]
  <2>1. CASE StampEntry(g)
    BY <1>4, <2>1, NewStamps
  <2>2. CASE pc[g] = "enqueue" /\ call'[g] = call[g]
    <3>1. IsFlip(b, p) /\ p \notin begun[b]
      BY <1>0, <1>4, <2>2 DEF FlipsRight
    <3>2. ~(HostStart /\ FlipAt(entry, b, p))
      BY <1>0, <1>4, <2>2 DEF EntryRight, HostStart
    <3> QED
      BY <1>0, <3>1, <3>2, FlipLogs, KindsStay
  <2> QED
    BY <1>4, <2>1, <2>2, EntryCalls
<1> QED
  BY <1>3, <1>4

LEMMA ItemSteps ==
  ASSUME [Next]_vars, DisplayInv
  PROVE  \/ aborted'
         \/ UNCHANGED <<items, aborted>> /\ ~HostPop
         \/ items' = <<>> /\ host' = "top"
         \/ \E g \in Guests :
              /\ pc[g] = "enqueue" /\ pc' = [pc EXCEPT ![g] = "newFrame"]
              /\ items' = Append(items, call[g]) /\ ~aborted
              /\ UNCHANGED <<call, sync, display, history>>
         \/ HostPop /\ items # <<>> /\ items' = Tail(items) /\ ~aborted
<1>1. CASE UNCHANGED queue
  <2>1. CASE ~HostPop
    BY <1>1, <2>1 DEF queue
  <2>2. CASE HostPop
    <3>1. DisplayQueue!Pop(Display) => Len(items') = Len(items) - 1 /\ Len(items) \in Nat
      BY DEF DisplayQueue!Pop, DisplayInv, Typed, QueueTyped
    <3> QED
      BY <1>1, <2>2, <3>1 DEF HostPop, queue, DisplayQueue!TakeRefused
  <2> QED
    BY <2>1, <2>2
<1>2. ASSUME NEW g \in Guests, Initialize(g) PROVE items' = <<>> /\ host' = "top"
  BY <1>2 DEF Initialize, DisplayQueue!Reset
<1>3. ASSUME NEW g \in Guests, Enqueue(g), DisplayQueue!Push(g, call[g])
      PROVE  /\ pc[g] = "enqueue" /\ pc' = [pc EXCEPT ![g] = "newFrame"]
             /\ items' = Append(items, call[g]) /\ ~aborted
             /\ UNCHANGED <<call, sync, display, history>>
  <2>1. items # items'
    <3>1. Len(items') = Len(items) + 1 /\ Len(items) \in Nat
      BY <1>3 DEF DisplayQueue!Push, DisplayInv, Typed, QueueTyped, GuestTyped
    <3> QED
      BY <3>1
  <2> QED
    BY <1>3, <2>1 DEF Enqueue, Goto, DisplayQueue!Push, DisplayQueue!PushWaits,
                      DisplayQueue!PushRefused, DisplayQueue!Wait
<1>4. ASSUME NEW g \in Guests, Enqueue(g), ~DisplayQueue!Push(g, call[g])
      PROVE  UNCHANGED <<items, aborted, display>>
  BY <1>4 DEF Enqueue, DisplayQueue!PushWaits, DisplayQueue!PushRefused, DisplayQueue!Wait
<1>5. ASSUME NEW g \in Guests, Drain(g) PROVE UNCHANGED <<items, aborted, display>>
  BY <1>5 DEF Drain, DisplayQueue!EmptyWaits, DisplayQueue!EmptySeen, DisplayQueue!Wait
<1>6. ASSUME NEW g \in Guests, AbortQueue(g) PROVE aborted'
  BY <1>6 DEF AbortQueue, DisplayQueue!Abort
<1>7. ASSUME NEW t \in Callers, Sleep(t) PROVE UNCHANGED <<items, aborted, display>>
  BY <1>7 DEF Sleep, DisplayQueue!FallAsleep
<1>8. CASE HostTop
  <2>1. UNCHANGED <<items, aborted>> /\ host = "top"
    BY <1>8 DEF HostTop, DisplayQueue!TakeWaits, DisplayQueue!TakeRefused, DisplayQueue!Top,
                DisplayQueue!Wait
  <2> QED
    BY <2>1 DEF HostPop
<1>9. CASE HostPop
  BY <1>9 DEF HostPop, DisplayQueue!Pop, DisplayQueue!TakeRefused, DisplayInv, Typed, QueueTyped
<1>10. HostPop => ~UNCHANGED display
  BY DEF HostPop, display
<1> QED
  BY <1>1, <1>2, <1>3, <1>4, <1>5, <1>6, <1>7, <1>8, <1>9, <1>10, QueueSteps DEF Callers

(* When the display thread is about to start a callback.                    *)
LEMMA StartSteps ==
  ASSUME [Next]_vars, host' = "start"
  PROVE  HostPop \/ (host = "start" /\ entry' = entry /\ ~HostStart)
BY HostSteps DEF display, Initialize, KillVita, HostTop, HostStart, VitaReturns, VitaRemoved,
                 HostCallbackOver, HostSignal

(* An entry that is in the queue after the step as before it.               *)
LEMMA ItemStays ==
  ASSUME DisplayInv, FramesInv, [Next]_vars, ~aborted, ~HostPop,
         NEW i \in DOMAIN items, NEW b \in Buffers, NEW p \in Stamps, FlipAt(items[i], b, p)
  PROVE  /\ IsFlip(b, p)' /\ p \notin begun'[b]
         /\ host' = "start" => ~FlipAt(entry', b, p)
         /\ \A g \in Guests : pc'[g] = "enqueue" => ~FlipAt(call'[g], b, p)
<1>1. /\ IsFlip(b, p) /\ p \notin begun[b]
      /\ host = "start" => ~FlipAt(entry, b, p)
      /\ \A g \in Guests : pc[g] = "enqueue" => ~FlipAt(call[g], b, p)
  BY DEF FramesInv, FlipsRight
<1>2. IsFlip(b, p)' /\ p \notin begun'[b]
  BY <1>1, FlipLogs, KindsStay DEF HostStart, FramesInv
<1>3. host' = "start" => ~FlipAt(entry', b, p)
  BY <1>1, StartSteps
<1> QED
  BY <1>1, <1>2, <1>3, ApartFromCalls

LEMMA FlipsKeep ==
  ASSUME DisplayInv, FramesInv, [Next]_vars
  PROVE  FlipsRight'
<1>0. FlipsRight /\ EntryRight /\ CallsRight /\ UsedApart /\ HistoryRight
      /\ items \in Seq(Entries) /\ call \in [Guests -> Entries]
  BY DEF FramesInv, DisplayInv, Typed, QueueTyped, GuestTyped
<1> DEFINE Good(i, b, p) ==
      /\ IsFlip(b, p)' /\ p \notin begun'[b]
      /\ \A j \in DOMAIN items' : FlipAt(items'[j], b, p) => i = j
      /\ host' = "start" => ~FlipAt(entry', b, p)
      /\ \A g \in Guests : pc'[g] = "enqueue" => ~FlipAt(call'[g], b, p)
    Keeps == ~aborted' => /\ \A i \in DOMAIN items' : OneStampEach(items'[i])
                          /\ \A i \in DOMAIN items', b \in Buffers, p \in Stamps :
                               FlipAt(items'[i], b, p) => Good(i, b, p)
<1> SUFFICES Keeps
  BY CallsKeepFlips DEF FlipsRight
<1>1. CASE aborted'
  BY <1>1
<1>2. CASE UNCHANGED <<items, aborted>> /\ ~HostPop
  <2> SUFFICES ASSUME ~aborted PROVE Keeps
    BY <1>2
  <2>1. \A i \in DOMAIN items : OneStampEach(items[i])
    BY <1>0 DEF FlipsRight
  <2>2. ASSUME NEW i \in DOMAIN items, NEW b \in Buffers, NEW p \in Stamps, FlipAt(items[i], b, p)
        PROVE  Good(i, b, p)
    <3>1. \A j \in DOMAIN items : FlipAt(items[j], b, p) => i = j
      BY <1>0, <2>2 DEF FlipsRight
    <3> QED
      BY <1>2, <2>2, <3>1, ItemStays
  <2> QED
    BY <1>2, <2>1, <2>2
<1>3. CASE items' = <<>> /\ host' = "top"
  BY <1>3
<1>4. ASSUME NEW h \in Guests, pc[h] = "enqueue", pc' = [pc EXCEPT ![h] = "newFrame"],
             items' = Append(items, call[h]), ~aborted, UNCHANGED <<call, sync, display, history>>
      PROVE  Keeps
  <2>0. /\ call[h] \in Entries /\ Len(items) \in Nat /\ Len(items) + 1 \in DOMAIN items'
        /\ \A i \in DOMAIN items : i \in DOMAIN items' /\ items'[i] = items[i]
        /\ \A i \in DOMAIN items' : i \in DOMAIN items \/ i = Len(items) + 1
        /\ items'[Len(items) + 1] = call[h]
        /\ DisplayInv /\ GuestTyped
    BY <1>0, <1>4 DEF DisplayInv, Typed
  <2>1. ~HostPop
    BY <1>4 DEF HostPop, display
  <2>2. OneStampEach(call[h]) /\ \A i \in DOMAIN items : OneStampEach(items[i])
    BY <1>0, <1>4 DEF FlipsRight
  <2>3. ASSUME NEW i \in DOMAIN items, NEW b \in Buffers, NEW p \in Stamps, FlipAt(items[i], b, p)
        PROVE  Good(i, b, p)
    <3>1. \A j \in DOMAIN items : FlipAt(items[j], b, p) => i = j
      BY <1>0, <1>4, <2>3 DEF FlipsRight
    <3>2. ~FlipAt(call[h], b, p)
      BY <1>0, <1>4, <2>3 DEF FlipsRight
    <3> QED
      BY <1>4, <2>0, <2>1, <2>3, <3>1, <3>2, ItemStays
  <2>4. ASSUME NEW b \in Buffers, NEW p \in Stamps, FlipAt(call[h], b, p)
        PROVE  Good(Len(items) + 1, b, p)
    <3>1. IsFlip(b, p)' /\ p \notin begun'[b]
      <4>1. IsFlip(b, p) /\ p \notin begun[b]
        BY <1>0, <1>4, <2>4 DEF FlipsRight
      <4> QED
        BY <1>4, <4>1 DEF IsFlip, sync, history
    <3>2. \A j \in DOMAIN items' : FlipAt(items'[j], b, p) => j = Len(items) + 1
      BY <1>0, <1>4, <2>0, <2>4 DEF FlipsRight
    <3>3. host' = "start" => ~FlipAt(entry', b, p)
      BY <1>0, <1>4, <2>4 DEF EntryRight, display
    <3>4. ASSUME NEW g \in Guests, pc'[g] = "enqueue", FlipAt(call[g], b, p) PROVE FALSE
      <4>1. g # h /\ pc[g] = "enqueue"
        BY <1>4, <2>0, <3>4 DEF GuestTyped
      <4>2. b \in Using(g) /\ b \in Using(h)
        BY <1>4, <2>4, <3>4, <4>1 DEF Using, FlipAt
      <4> QED
        BY <1>0, <4>1, <4>2 DEF UsedApart
    <3> QED
      BY <1>4, <3>1, <3>2, <3>3, <3>4
  <2> QED
    BY <2>0, <2>2, <2>3, <2>4
<1>5. CASE HostPop /\ items # <<>> /\ items' = Tail(items) /\ ~aborted
  <2>0. /\ \A i \in DOMAIN items' : i \in Nat /\ i + 1 \in DOMAIN items /\ items'[i] = items[i + 1]
                                    /\ i + 1 # 1
        /\ 1 \in DOMAIN items /\ Head(items) = items[1]
    BY <1>0, <1>5
  <2>1. /\ host = "pop" /\ entry' = entry /\ entry = items[1]
        /\ UNCHANGED <<pc, call, asked, ahead, begun>> /\ ~aborted
    BY <1>0, <1>5, <2>0 DEF HostPop, EntryRight, guest, history, sync
  <2>2. ASSUME NEW i \in DOMAIN items', NEW b \in Buffers, NEW p \in Stamps,
               FlipAt(items'[i], b, p)
        PROVE  Good(i, b, p)
    <3>1. /\ IsFlip(b, p) /\ p \notin begun[b]
          /\ \A j \in DOMAIN items : FlipAt(items[j], b, p) => i + 1 = j
          /\ \A g \in Guests : pc[g] = "enqueue" => ~FlipAt(call[g], b, p)
      BY <1>0, <2>0, <2>1, <2>2 DEF FlipsRight
    <3>2. \A j \in DOMAIN items' : FlipAt(items'[j], b, p) => i = j
      BY <2>0, <3>1
    <3>3. ~FlipAt(entry, b, p)
      BY <2>0, <2>1, <2>2, <3>1
    <3> QED
      BY <2>1, <3>1, <3>2, <3>3 DEF IsFlip
  <2> QED
    BY <1>0, <2>0, <2>1, <2>2 DEF FlipsRight
<1> QED
  BY <1>1, <1>2, <1>3, <1>4, <1>5, ItemSteps

(* The display thread stays with its entry, or does one of these.           *)
LEMMA EntrySteps ==
  ASSUME [Next]_vars
  PROVE  \/ host' = host /\ entry' = entry /\ ~HostPop /\ ~HostStart /\ ~HostCallbackOver
         \/ host' \in {"top", "ended"}
         \/ (HostTop /\ host' = "pop") \/ HostPop \/ HostStart \/ HostCallbackOver
<1>1. CASE UNCHANGED display
  BY <1>1 DEF display, HostPop, HostStart, HostCallbackOver
<1>2. ASSUME NEW g \in Guests, Initialize(g) \/ KillVita(g)
      PROVE  \/ host' = host /\ entry' = entry
             \/ host' \in {"top", "ended"}
  BY <1>2 DEF Initialize, KillVita
<1>3. CASE HostTop
  BY <1>3 DEF HostTop, HostPop, HostStart, HostCallbackOver
<1>4. CASE VitaReturns \/ VitaRemoved
  BY <1>4 DEF VitaReturns, VitaRemoved
<1>5. host' = host => ~HostPop /\ ~HostStart /\ ~HostCallbackOver
  BY DEF HostPop, HostStart, HostCallbackOver
<1> QED
  BY <1>1, <1>2, <1>3, <1>4, <1>5, HostSteps DEF HostSignal

LEMMA EntryStays ==
  ASSUME DisplayInv, FramesInv, [Next]_vars, host' = host, entry' = entry,
         host \in {"pop", "start", "callback", "signal"},
         ~HostPop, ~HostStart, ~HostCallbackOver
  PROVE  EntryRight'
<1>0. EntryRight /\ RequestsRight /\ HistoryRight
  BY DEF FramesInv, PipeInv
<1>1. ~aborted' /\ host = "pop" => items' # <<>> /\ entry = Head(items')
  <2> SUFFICES ASSUME ~aborted', host = "pop" PROVE items' # <<>> /\ entry = Head(items')
    OBVIOUS
  <2>1. ASSUME ~aborted PROVE items # <<>> /\ entry = Head(items)
    BY <1>0, <2>1 DEF EntryRight
  <2>2. CASE UNCHANGED <<items, aborted>>
    BY <2>1, <2>2
  <2>3. ASSUME NEW g \in Guests, items' = Append(items, call[g]), ~aborted
        PROVE  items' # <<>> /\ entry = Head(items')
    BY <2>1, <2>3 DEF DisplayInv, Typed, QueueTyped, GuestTyped
  <2> QED
    BY <2>2, <2>3, ItemSteps
<1>2. ASSUME NEW b \in Buffers, NEW p \in Stamps, FlipAt(entry, b, p)
      PROVE  /\ IsFlip(b, p)'
             /\ host \in {"pop", "start"} =>
                  /\ p \notin begun'[b]
                  /\ \A g \in Guests : pc'[g] = "enqueue" => ~FlipAt(call'[g], b, p)
             /\ host = "callback" => p \in begun'[b] \ finished'[b]
             /\ host = "signal" => p \in finished'[b]
             /\ host # "pop" => p <= current'[b] + 1
  <2>1. /\ IsFlip(b, p)
        /\ host \in {"pop", "start"} =>
             /\ p \notin begun[b]
             /\ \A g \in Guests : pc[g] = "enqueue" => ~FlipAt(call[g], b, p)
        /\ host = "callback" => p \in begun[b] \ finished[b]
        /\ host = "signal" => p \in finished[b]
        /\ host # "pop" => p <= current[b] + 1
    BY <1>0, <1>2 DEF EntryRight
  <2>2. IsFlip(b, p)'
    BY <1>0, <2>1, KindsStay
  <2>3. /\ begun[b] \subseteq begun'[b] /\ finished[b] \subseteq finished'[b]
        /\ current[b] <= current'[b] /\ current[b] \in Nat /\ current'[b] \in Nat
    BY <1>0, LogsGrow, NextKeepsDisplayInv, BufferFields DEF DisplayInv, Typed, SyncTyped, Stamps
  <2>4. p <= current[b] + 1 => p <= current'[b] + 1
    BY <2>3 DEF Stamps
  <2> QED
    BY <2>1, <2>2, <2>3, <2>4, FlipLogs, ApartFromCalls
<1>3. OneStampEach(entry)
  BY <1>0 DEF EntryRight
<1> QED
  BY <1>1, <1>2, <1>3 DEF EntryRight

LEMMA TopKeepsEntry ==
  ASSUME DisplayInv, FramesInv, HostTop, host' = "pop"
  PROVE  EntryRight'
<1>0. FlipsRight /\ items \in Seq(Entries)
  BY DEF FramesInv, DisplayInv, Typed, QueueTyped
<1>1. /\ ~aborted /\ items # <<>> /\ entry' = Head(items)
      /\ UNCHANGED <<items, aborted, ahead, asked, pc, call, begun, finished>>
  BY DEF HostTop, DisplayQueue!Top, DisplayQueue!TakeWaits, sync, guest, history
<1>2. 1 \in DOMAIN items /\ entry' = items[1]
  BY <1>0, <1>1
<1>3. OneStampEach(items[1])
  BY <1>0, <1>1, <1>2 DEF FlipsRight
<1>4. ASSUME NEW b \in Buffers, NEW p \in Stamps, FlipAt(items[1], b, p)
      PROVE  /\ IsFlip(b, p) /\ p \notin begun[b]
             /\ \A g \in Guests : pc[g] = "enqueue" => ~FlipAt(call[g], b, p)
  BY <1>0, <1>1, <1>2, <1>4 DEF FlipsRight
<1> QED
  BY <1>1, <1>2, <1>3, <1>4 DEF EntryRight, IsFlip

LEMMA PopKeepsEntry ==
  ASSUME DisplayInv, FramesInv, HostPop
  PROVE  EntryRight'
<1>0. EntryRight
  BY DEF FramesInv
<1>1. /\ host = "pop" /\ host' = "start" /\ entry' = entry
      /\ UNCHANGED <<ahead, current, asked, pc, call, begun, finished>>
      /\ current[entry.old] >= entry.oldStamp /\ current[entry.new] >= entry.newStamp
  BY DEF HostPop, Wished, sync, guest, history
<1>2. ASSUME NEW b \in Buffers, NEW p \in Stamps, FlipAt(entry, b, p)
      PROVE  /\ IsFlip(b, p) /\ p \notin begun[b]
             /\ \A g \in Guests : pc[g] = "enqueue" => ~FlipAt(call[g], b, p)
             /\ p <= current[b] + 1
  <2>1. p <= current[b] + 1
    BY <1>1, <1>2, EntryFields, BufferFields DEF FlipAt
  <2> QED
    BY <1>0, <1>1, <1>2, <2>1 DEF EntryRight
<1>3. OneStampEach(entry)
  BY <1>0, <1>1 DEF EntryRight
<1> QED
  BY <1>1, <1>2, <1>3 DEF EntryRight, IsFlip

LEMMA CallbackKeepsEntry ==
  ASSUME DisplayInv, FramesInv, HostStart \/ HostCallbackOver
  PROVE  EntryRight'
<1>0. EntryRight /\ begun \in [Buffers -> SUBSET Stamps] /\ finished \in [Buffers -> SUBSET Stamps]
  BY DEF FramesInv, DisplayInv, Typed, HistoryTyped
<1>1. OneStampEach(entry) /\ entry' = entry /\ UNCHANGED <<ahead, current, asked>>
  BY <1>0 DEF EntryRight, HostStart, HostCallbackOver, sync
<1>2. ASSUME NEW b \in Buffers, NEW p \in Stamps, FlipAt(entry, b, p), HostStart
      PROVE  /\ IsFlip(b, p) /\ p \in begun'[b] \ finished'[b] /\ p <= current[b] + 1
             /\ host' = "callback"
  <2>1. IsFlip(b, p) /\ p \notin begun[b] /\ p <= current[b] + 1
    BY <1>0, <1>2 DEF EntryRight, HostStart
  <2>2. begun'[b] = begun[b] \cup {q \in Stamps : FlipAt(entry, b, q)}
        /\ finished' = finished /\ host' = "callback"
    BY <1>0, <1>1, <1>2, FlipMarks DEF HostStart
  <2> QED
    BY <1>2, <2>1, <2>2, HistoryFacts
<1>3. ASSUME NEW b \in Buffers, NEW p \in Stamps, FlipAt(entry, b, p), HostCallbackOver
      PROVE  /\ IsFlip(b, p) /\ p \in finished'[b] /\ p <= current[b] + 1
             /\ host' = "signal"
  <2>1. IsFlip(b, p) /\ p <= current[b] + 1
    BY <1>0, <1>3 DEF EntryRight, HostCallbackOver
  <2>2. finished'[b] = finished[b] \cup {q \in Stamps : FlipAt(entry, b, q)}
        /\ host' = "signal"
    BY <1>0, <1>1, <1>3, FlipMarks DEF HostCallbackOver
  <2> QED
    BY <1>3, <2>1, <2>2
<1>4. (HostStart /\ host' = "callback") \/ (HostCallbackOver /\ host' = "signal")
  BY DEF HostStart, HostCallbackOver
<1>5. \A b, p : IsFlip(b, p)' <=> IsFlip(b, p)
  BY <1>1 DEF IsFlip
<1>6. CASE HostStart /\ host' = "callback"
  BY <1>1, <1>2, <1>5, <1>6 DEF EntryRight
<1>7. CASE HostCallbackOver /\ host' = "signal"
  BY <1>1, <1>3, <1>5, <1>7 DEF EntryRight
<1> QED
  BY <1>4, <1>6, <1>7

LEMMA EntryKeeps ==
  ASSUME DisplayInv, FramesInv, [Next]_vars
  PROVE  EntryRight'
<1>1. CASE host' \in {"top", "ended"}
  BY <1>1 DEF EntryRight
<1>2. CASE host' = host /\ entry' = entry /\ ~HostPop /\ ~HostStart /\ ~HostCallbackOver
  <2>1. CASE host \in {"pop", "start", "callback", "signal"}
    BY <1>2, <2>1, EntryStays
  <2>2. CASE host \notin {"pop", "start", "callback", "signal"}
    BY <1>2, <2>2 DEF EntryRight
  <2> QED
    BY <2>1, <2>2
<1> QED
  BY <1>1, <1>2, EntrySteps, TopKeepsEntry, PopKeepsEntry, CallbackKeepsEntry

-----------------------------------------------------------------------------
(* The invariant and what follows from it.                                  *)

LEMMA InitFramesInv == Init => FramesInv
<1> SUFFICES ASSUME Init PROVE FramesInv
  OBVIOUS
<1>1. /\ commands = <<>> /\ work = <<>> /\ requests = <<>> /\ items = <<>> /\ host = "none"
      /\ \A b \in Buffers : /\ ahead[b] = 0 /\ current[b] = 0 /\ lastDisplay[b] = 0
                            /\ asked[b] = <<>> /\ begun[b] = {} /\ finished[b] = {}
      /\ \A g \in Guests : pc[g] = "idle" /\ lists[g] = <<>>
  BY DEF Init, DisplayQueue!Create
<1>2. \A b \in Buffers : \A p : ~IsDraw(b, p) /\ ~IsFlip(b, p)
  BY <1>1 DEF IsDraw, IsFlip
<1>3. UsedApart /\ CallsRight
  BY <1>1 DEF UsedApart, Using, CallsRight, CallRight
<1>4. HistoryRight
  BY <1>1 DEF HistoryRight
<1>5. Spots = {0} /\ DOMAIN requests = {} /\ DOMAIN items = {}
  BY <1>1 DEF Spots
<1>6. \A i \in Spots : \A o, b, p : ~InPipe(i, o, b, p)
  BY <1>1, <1>5 DEF InPipe, Pipe, Has
<1>7. PipeOrdered /\ DrawsRight /\ SignalsRight /\ RequestsRight
  BY <1>1, <1>2, <1>5, <1>6 DEF PipeOrdered, DrawsRight, SignalsRight, RequestsRight
<1>8. SubmissionsRight
  BY <1>1 DEF SubmissionsRight, SubmissionRight, Transferring, Submitting
<1>9. FlipsRight /\ EntryRight
  BY <1>1, <1>5 DEF FlipsRight, EntryRight
<1> QED
  BY <1>3, <1>4, <1>7, <1>8, <1>9 DEF FramesInv, PipeInv

LEMMA NextKeepsFramesInv == DisplayInv /\ FramesInv /\ [Next]_vars => FramesInv'
<1> SUFFICES ASSUME DisplayInv, FramesInv, [Next]_vars PROVE FramesInv'
  OBVIOUS
<1>1. UsedApart' /\ CallsRight'
  BY CallsStay DEF FramesInv
<1> QED
  BY <1>1, HistoryKeeps, PipeKeeps, FlipsKeep, EntryKeeps DEF FramesInv

LEMMA SpecFramesInv == Spec => [](DisplayInv /\ FramesInv)
BY InitDisplayInv, InitFramesInv, NextKeepsDisplayInv, NextKeepsFramesInv, PTL DEF Spec

(* A guest thread in the queue's wait is in one of three calls, and the one *)
(* that pushes has seen the queue full.                                     *)
PushersRight ==
  \A g \in Guests : at[g] # "outside" =>
    /\ pc[g] \in {"enqueue", "drain", "terminate"}
    /\ pc[g] = "enqueue" => Len(items) = QueueSize

(* A guest thread that waits does nothing else.                             *)
LEMMA WaitersStay ==
  ASSUME DisplayInv, CallsRight, PushersRight, [Next]_vars,
         NEW g \in Guests, at[g] # "outside"
  PROVE  pc'[g] = pc[g]
<1>1. pc[g] \in {"enqueue", "drain", "terminate"} /\ lists[g] = <<>>
  BY DEF PushersRight, CallsRight, CallRight
<1>2. pc \in [Guests -> {"idle", "scene", "stamp", "enqueue", "newFrame", "submit",
                         "transfer", "drain", "terminate", "abort", "kill"}]
  BY DEF DisplayInv, Typed, GuestTyped
<1>3. CASE UNCHANGED guest
  BY <1>3 DEF guest
<1>4. ASSUME NEW h \in Guests, NEW b \in Buffers, BeginScene(h, b) \/ Transfer(h, b)
      PROVE  pc'[g] = pc[g]
  BY <1>1, <1>2, <1>4 DEF BeginScene, Transfer, Starts, Goto
<1>5. ASSUME NEW h \in Guests, NEW old \in Buffers, NEW new \in Buffers, AddEntry(h, old, new)
      PROVE  pc'[g] = pc[g]
  BY <1>1, <1>2, <1>5 DEF AddEntry, Starts, Goto
<1>6. ASSUME NEW h \in Guests,
             \/ Finish(h) \/ Terminate(h) \/ EndScene(h) \/ TransferStamp(h) \/ StampEntry(h)
             \/ AbortQueue(h) \/ KillVita(h)
      PROVE  pc'[g] = pc[g]
  BY <1>1, <1>2, <1>6 DEF Finish, Terminate, EndScene, TransferStamp, StampEntry, AbortQueue,
                          KillVita, Goto
<1>7. ASSUME NEW h \in Guests, Submit(h) PROVE pc'[g] = pc[g]
  <2>1. h # g
    BY <1>1, <1>7 DEF Submit
  <2>2. pc' = pc \/ \E label : pc' = [pc EXCEPT ![h] = label]
    BY <1>7 DEF Submit, Goto, Return
  <2> QED
    BY <1>2, <2>1, <2>2
<1>8. ASSUME NEW h \in Guests, Enqueue(h) \/ Drain(h) PROVE pc'[g] = pc[g]
  <2>1. \/ pc' = pc
        \/ at[h] = "outside" /\ \E label : pc' = [pc EXCEPT ![h] = label]
    BY <1>8 DEF Enqueue, Drain, DisplayQueue!Push, DisplayQueue!PushRefused,
                DisplayQueue!EmptySeen, DisplayQueue!Enter, Goto, Return
  <2> QED
    BY <1>2, <2>1
<1> QED
  BY <1>3, <1>4, <1>5, <1>6, <1>7, <1>8, GuestSteps

(* Nobody makes room without waking all guests that sleep.                  *)
LEMMA NextKeepsPushers == DisplayInv /\ CallsRight /\ PushersRight /\ [Next]_vars => PushersRight'
<1> SUFFICES ASSUME DisplayInv, CallsRight, PushersRight, [Next]_vars,
                    NEW g \in Guests, at'[g] # "outside"
             PROVE  /\ pc'[g] \in {"enqueue", "drain", "terminate"}
                    /\ pc'[g] = "enqueue" => Len(items') = QueueSize'
  BY DEF PushersRight
<1> DEFINE Right == /\ pc'[g] \in {"enqueue", "drain", "terminate"}
                    /\ pc'[g] = "enqueue" => Len(items') = QueueSize'
<1>1. QueueInv /\ at \in [Callers -> DisplayQueue!Places] /\ g \in Callers /\ g # Display
  BY GxmDisplayAssumption DEF DisplayInv, Typed, QueueInv, QueueTyped, Callers, Guests
<1>2. QueueSize' = QueueSize
  BY DEF QueueSize
<1>3. ASSUME at[g] # "outside", items' = items PROVE Right
  BY <1>2, <1>3, WaitersStay DEF PushersRight
<1>4. ASSUME UNCHANGED <<at, items>> PROVE Right
  BY <1>3, <1>4
<1>5. ASSUME NEW h \in Guests, Initialize(h) PROVE Right
  BY <1>1, <1>5 DEF Initialize, DisplayQueue!Reset, DisplayInv, NotBegun
<1>6. ASSUME NEW h \in Guests, Enqueue(h) PROVE Right
  <2>1. CASE DisplayQueue!PushWaits(h)
    <3>1. /\ items' = items /\ Len(items) = QueueSize /\ at[h] = "outside"
          /\ at' = [at EXCEPT ![h] = DisplayQueue!About["cond"]]
      BY <2>1 DEF DisplayQueue!PushWaits, DisplayQueue!Wait, DisplayQueue!Enter
    <3>2. CASE g = h
      BY <1>2, <1>6, <2>1, <3>1, <3>2
         DEF Enqueue, DisplayQueue!Push, DisplayQueue!PushRefused, DisplayQueue!PushWaits
    <3>3. CASE g # h
      BY <1>1, <1>3, <3>1, <3>3
    <3> QED
      BY <3>2, <3>3
  <2>2. CASE DisplayQueue!Push(h, call[h])
    <3>1. /\ Len(items) # QueueSize /\ at'[g] = at[g]
      <4>1. Len(items) # QueueSize /\ DisplayQueue!NotifyOne("condempty")
        BY <2>2 DEF DisplayQueue!Push
      <4>2. at' = at \/ \E u : at' = [at EXCEPT ![u] = "outside"]
        BY <4>1 DEF DisplayQueue!NotifyOne
      <4> QED
        BY <1>1, <4>1, <4>2
    <3>2. pc'[g] = pc[g]
      BY <3>1, WaitersStay
    <3> QED
      BY <3>1, <3>2 DEF PushersRight
  <2>3. CASE DisplayQueue!PushRefused(h)
    BY <1>4, <2>3 DEF DisplayQueue!PushRefused
  <2> QED
    BY <1>6, <2>1, <2>2, <2>3 DEF Enqueue
<1>7. ASSUME NEW h \in Guests, Drain(h) PROVE Right
  <2>1. CASE DisplayQueue!EmptyWaits(h)
    <3>1. /\ items' = items /\ at[h] = "outside" /\ items # <<>> /\ ~aborted
          /\ at' = [at EXCEPT ![h] = DisplayQueue!About["cond"]]
      BY <2>1 DEF DisplayQueue!EmptyWaits, DisplayQueue!Wait, DisplayQueue!Enter
    <3>2. CASE g = h
      BY <1>7, <3>1, <3>2 DEF Drain, DisplayQueue!EmptySeen
    <3>3. CASE g # h
      BY <1>1, <1>3, <3>1, <3>3
    <3> QED
      BY <3>2, <3>3
  <2>2. CASE DisplayQueue!EmptySeen(h)
    BY <1>4, <2>2 DEF DisplayQueue!EmptySeen
  <2> QED
    BY <1>7, <2>1, <2>2 DEF Drain
<1>8. ASSUME NEW h \in Guests, AbortQueue(h) PROVE Right
  BY <1>1, <1>3, <1>8 DEF AbortQueue, DisplayQueue!Abort, Callers
<1>9. ASSUME NEW t \in Callers, Sleep(t) PROVE Right
  <2>1. /\ items' = items /\ \E c : at[t] = DisplayQueue!About[c] /\ c \in {"cond", "condempty"}
        /\ \E x : at' = [at EXCEPT ![t] = x]
    BY <1>9 DEF Sleep, DisplayQueue!FallAsleep, DisplayQueue!Conditions
  <2>2. at[t] # "outside"
    BY <2>1, Places
  <2> QED
    BY <1>1, <1>3, <2>1, <2>2
<1>10. CASE HostTop
  <2>1. items' = items /\ (at' = at \/ \E x : at' = [at EXCEPT ![Display] = x])
    BY <1>10 DEF HostTop, DisplayQueue!TakeWaits, DisplayQueue!TakeRefused, DisplayQueue!Top,
                 DisplayQueue!Wait
  <2> QED
    BY <1>1, <1>3, <2>1
<1>11. CASE HostPop
  <2>1. CASE DisplayQueue!Pop(Display)
    <3>1. /\ \A u \in Callers : at[u] \notin {"aboutCond", "aboutCondempty"}
          /\ DisplayQueue!NotifyAll("cond")
      BY <2>1, Entering DEF DisplayQueue!Pop, Callers
    <3>2. at'[g] = IF at[g] = "asleepCond" THEN "outside" ELSE at[g]
      BY <1>1, <3>1, Places DEF DisplayQueue!NotifyAll, Callers
    <3> QED
      BY <1>1, <3>1, <3>2 DEF QueueInv, SleepersRight
  <2>2. CASE DisplayQueue!TakeRefused(Display)
    BY <1>4, <2>2 DEF DisplayQueue!TakeRefused
  <2> QED
    BY <1>11, <2>1, <2>2 DEF HostPop
<1>12. CASE UNCHANGED queue
  BY <1>4, <1>12 DEF queue
<1> QED
  BY <1>5, <1>6, <1>7, <1>8, <1>9, <1>10, <1>11, <1>12, QueueSteps DEF Callers

(* No thread sleeps in the display queue while what it waits for is there,  *)
(* whoever pushes, takes, drains or aborts (Queue<T> of queue.h): the item  *)
(* that comes wakes the one consumer, the item that goes all guests, those  *)
(* that wait for room and those that wait for emptiness.                    *)
THEOREM NobodyOversleepsInDisplayQueue == Spec => []NobodyOversleeps
<1>1. Init => PushersRight
  BY DEF Init, DisplayQueue!Create, PushersRight
<1>2. Spec => []PushersRight
  <2>1. FramesInv => CallsRight
    BY DEF FramesInv
  <2> QED
    BY <1>1, <2>1, NextKeepsPushers, SpecFramesInv, PTL DEF Spec
<1>3. DisplayInv /\ PushersRight => NobodyOversleeps
  BY DEF DisplayInv, SleepersRight, PushersRight, NobodyOversleeps
<1> QED
  BY <1>2, <1>3, SpecDisplayInv, PTL

(* timestamp_current is what gxm_types.h says it is: all work on a buffer   *)
(* up to that stamp is over, whichever of the three threads raised it.      *)
THEOREM CurrentWorkIsProcessed == Spec => []CurrentIsProcessed
<1>1. FramesInv => CurrentIsProcessed
  BY DEF FramesInv, HistoryRight, CurrentIsProcessed
<1> QED
  BY <1>1, SpecFramesInv, PTL

LEMMA AskIsPromised ==
  ASSUME DisplayInv, NEW g \in Guests, EndScene(g) \/ TransferStamp(g) \/ StampEntry(g)
  PROVE  Promise!Next
<1>1. {call[g].old} \in SUBSET Buffers /\ {call[g].old, call[g].new} \in SUBSET Buffers
  BY GuestFields
<1>2. ASSUME NEW B \in SUBSET Buffers, NEW kind \in {"draw", "flip"}, Ask(B, kind),
             UNCHANGED <<begun, finished>>
      PROVE  Promise!Next
  BY <1>2 DEF Ask, Promise!Next, Promise!Ask, Promise!Kinds
<1>3. Ask({call[g].old}, "draw") \/ Ask({call[g].old, call[g].new}, "flip")
  BY DEF EndScene, TransferStamp, StampEntry
<1>4. UNCHANGED <<begun, finished>>
  BY DEF EndScene, TransferStamp, StampEntry
<1> QED
  BY <1>1, <1>2, <1>3, <1>4

(* The renderer draws in the order asked for, and not before earlier flips  *)
(* are over.                                                                *)
LEMMA DrawIsPromised ==
  ASSUME DisplayInv, FramesInv, [Next]_vars, DoDraw
  PROVE  Promise!Begin
<1>1. PICK b \in Buffers, p \in Stamps :
        /\ InPipe(0, "draw", b, p) /\ IsDraw(b, p) /\ p \notin begun[b]
        /\ Cleared(b, p) /\ begun'[b] = begun[b] \cup {p}
        /\ \A c \in Buffers \ {b} : begun'[c] = begun[c]
  BY DrawKeepsPipe
<1>2. PICK d \in Buffers, n \in Stamps :
        \A o, c, q : InPipe(0, o, c, q) => (o = "draw" => c = d /\ q = n)
  BY DrawStep
<1>3. ASSUME NEW q \in 1..(p - 1), asked[b][q] = "draw" PROVE q \in begun[b]
  <2>0. ahead[b] \in Nat /\ p \in Nat /\ p <= ahead[b]
    BY <1>1, BufferFields DEF IsDraw, Stamps
  <2>1. q \in Stamps /\ IsDraw(b, q) /\ q < p /\ q # ahead[b]
    BY <1>3, <2>0 DEF IsDraw, Stamps
  <2>2. ASSUME NEW i \in Spots, InPipe(i, "draw", b, q) PROVE FALSE
    <3>1. i # 0
      BY <1>1, <1>2, <2>1, <2>2 DEF Stamps
    <3>2. 0 \in Spots /\ 0 < i
      BY <2>2, <3>1 DEF Spots, DisplayInv, Typed, RendererTyped
    <3>3. p < q
      BY <1>1, <2>1, <2>2, <3>2 DEF FramesInv, PipeInv, PipeOrdered
    <3> QED
      BY <2>1, <3>3 DEF Stamps
  <2> QED
    BY <2>1, <2>2 DEF FramesInv, PipeInv, DrawsRight
<1>4. Promise!MayBegin(b, p) /\ p \in DOMAIN asked[b]
  <2>1. asked[b][p] = "draw" /\ p \in DOMAIN asked[b]
        /\ \A q \in 1..(p - 1) : asked[b][q] \in {"draw", "flip"}
    BY <1>1, HistoryFacts DEF IsDraw
  <2> QED
    BY <1>1, <1>3, <2>1 DEF Promise!MayBegin, Cleared
<1>5. DOMAIN begun' = Buffers /\ UNCHANGED <<asked, finished>>
  BY NextKeepsDisplayInv DEF DoDraw, DisplayInv, Typed, HistoryTyped
<1> QED
  BY <1>1, <1>4, <1>5 DEF Promise!Begin

(* A callback begins when all that was asked of its buffers before is over. *)
LEMMA FlipIsPromised ==
  ASSUME DisplayInv, FramesInv, [Next]_vars, HostStart
  PROVE  Promise!Begin
<1>0. EntryRight /\ OneStampEach(entry) /\ begun \in [Buffers -> SUBSET Stamps]
  BY DEF FramesInv, EntryRight, HostStart, DisplayInv, Typed, HistoryTyped
<1>1. DOMAIN begun' = Buffers /\ UNCHANGED <<asked, finished>>
  BY NextKeepsDisplayInv DEF HostStart, DisplayInv, Typed, HistoryTyped
<1>2. ASSUME NEW b \in Buffers
      PROVE  \/ begun'[b] = begun[b]
             \/ \E p \in DOMAIN asked[b] : Promise!MayBegin(b, p) /\ begun'[b] = begun[b] \cup {p}
  <2>1. /\ begun'[b] = begun[b] \cup {p \in Stamps : FlipAt(entry, b, p)}
        /\ \A p, q \in Stamps : FlipAt(entry, b, p) /\ FlipAt(entry, b, q) => p = q
    BY <1>0, FlipMarks DEF HostStart
  <2>2. CASE \A p \in Stamps : ~FlipAt(entry, b, p)
    BY <2>1, <2>2
  <2>3. ASSUME NEW p \in Stamps, FlipAt(entry, b, p)
        PROVE  /\ p \in DOMAIN asked[b] /\ Promise!MayBegin(b, p)
               /\ begun'[b] = begun[b] \cup {p}
    <3>1. begun'[b] = begun[b] \cup {p}
      BY <2>1, <2>3
    <3>2. IsFlip(b, p) /\ p \notin begun[b] /\ p <= current[b] + 1
      BY <1>0, <2>3 DEF EntryRight, HostStart
    <3>3. 1..(p - 1) \subseteq finished[b] /\ finished[b] \subseteq begun[b]
          /\ p \in DOMAIN asked[b]
      BY <3>2, HistoryFacts, BufferFields DEF IsFlip, Stamps
    <3> QED
      BY <3>1, <3>2, <3>3 DEF Promise!MayBegin
  <2> QED
    BY <2>2, <2>3
<1> QED
  BY <1>1, <1>2 DEF Promise!Begin

LEMMA EndIsPromised ==
  ASSUME DisplayInv, FramesInv, [Next]_vars, DoSignal \/ FencePassed \/ HostCallbackOver
  PROVE  Promise!Finish \/ UNCHANGED history
<1>0. EntryRight /\ finished \in [Buffers -> SUBSET Stamps] /\ DOMAIN finished' = Buffers
      /\ UNCHANGED <<asked, begun>>
  BY NextKeepsDisplayInv DEF FramesInv, DisplayInv, Typed, HistoryTyped, DoSignal, FencePassed,
                             HostCallbackOver
<1>1. CASE UNCHANGED finished
  BY <1>0, <1>1 DEF history
<1>2. ASSUME NEW b \in Buffers, NEW p \in Stamps, p \in begun[b] \ finished[b],
             finished'[b] = finished[b] \cup {p},
             \A c \in Buffers \ {b} : finished'[c] = finished[c]
      PROVE  Promise!Finish
  BY <1>0, <1>2 DEF Promise!Finish
<1>3. CASE DoSignal
  BY <1>1, <1>2, <1>3, SignalKeepsPipe
<1>4. CASE FencePassed
  BY <1>2, <1>4, FenceKeepsPipe
<1>5. CASE HostCallbackOver
  <2>1. ASSUME NEW b \in Buffers
        PROVE  \/ finished'[b] = finished[b]
               \/ \E p \in begun[b] \ finished[b] : finished'[b] = finished[b] \cup {p}
    <3>1. /\ finished'[b] = finished[b] \cup {p \in Stamps : FlipAt(entry, b, p)}
          /\ \A p, q \in Stamps : FlipAt(entry, b, p) /\ FlipAt(entry, b, q) => p = q
      BY <1>0, <1>5, FlipMarks DEF HostCallbackOver, EntryRight
    <3>2. CASE \A p \in Stamps : ~FlipAt(entry, b, p)
      BY <3>1, <3>2
    <3>3. ASSUME NEW p \in Stamps, FlipAt(entry, b, p)
          PROVE  p \in begun[b] \ finished[b] /\ finished'[b] = finished[b] \cup {p}
      <4>1. finished'[b] = finished[b] \cup {p}
        BY <3>1, <3>3
      <4> QED
        BY <1>0, <1>5, <3>3, <4>1 DEF EntryRight, HostCallbackOver
    <3> QED
      BY <3>2, <3>3
  <2> QED
    BY <1>0, <2>1 DEF Promise!Finish
<1> QED
  BY <1>3, <1>4, <1>5

(* SceGxm, the renderer and the display thread keep the order the           *)
(* application asked for: no flip begins before the drawing asked for       *)
(* earlier is over, no drawing before the flips asked for earlier are, and  *)
(* each kind runs in its own order, on every buffer.                        *)
THEOREM FramesImplementPromise == Spec => FramesKeepPromise
<1>1. Init => Promise!Init
  BY DEF Init, Promise!Init
<1>2. ASSUME DisplayInv, FramesInv, [Next]_vars
      PROVE  [Promise!Next]_<<asked, begun, finished>>
  <2>1. CASE UNCHANGED history
    BY <2>1 DEF history
  <2>2. ASSUME NEW g \in Guests, EndScene(g) \/ TransferStamp(g) \/ StampEntry(g)
        PROVE  Promise!Next
    BY <1>2, <2>2, AskIsPromised
  <2>3. CASE DoDraw \/ HostStart
    BY <1>2, <2>3, DrawIsPromised, FlipIsPromised DEF Promise!Next
  <2>4. CASE DoSignal \/ FencePassed \/ HostCallbackOver
    BY <1>2, <2>1, <2>4, EndIsPromised DEF Promise!Next
  <2> QED
    BY <1>2, <2>1, <2>2, <2>3, <2>4, HistorySteps
<1> QED
  BY <1>1, <1>2, SpecFramesInv, PTL DEF Spec, FramesKeepPromise, Promise!Spec

-----------------------------------------------------------------------------
(* DisplayVblank: waits are neither too long nor too short, no notification *)
(* of a callback is lost, and samples come in order.                        *)


(* TypeOK, part by part, with the order of the counts that are compared.    *)
ClockTyped ==
  /\ vblankCount \in Counts /\ lastSetFrame \in Counts /\ lastSetFrame <= vblankCount
  /\ vblank \in {"idle", "sample", "index", "notify", "ended"}
  /\ registered \subseteq Callbacks /\ left \subseteq Callbacks /\ dropped \subseteq Callbacks
TouchTyped ==
  /\ buffers \in [0..(Slots - 1) -> Counts] /\ index \in 0..(Slots - 1)
  /\ lastRead \in Counts /\ lastRead <= vblankCount
  /\ samples \in Seq(Counts) /\ slept \in Counts
WaiterTyped ==
  /\ waitInfos \subseteq [thread : Threads, target : Counts]
  /\ status \in [Threads -> {"run", "wait"}] /\ lastWaited \in [Threads -> Counts]
  /\ step \in [Threads -> {"idle", "enter", "look", "block", "asleep", "count", "copy", "copied",
                         "callbacks"}]
  /\ want \in [Threads -> [then : {"return", "callbacks", "read"}, target : Counts,
                           n : 0..Slots]]
  /\ toRun \in [Threads -> SUBSET Callbacks]
CallbackTyped ==
  /\ live \subseteq Callbacks /\ running \subseteq Callbacks
  /\ notified \in [Callbacks -> Nat] /\ args \in [Callbacks -> Nat]
  /\ owed \in [Callbacks -> Nat]
VblankTyped == ClockTyped /\ TouchTyped /\ WaiterTyped /\ CallbackTyped

(* What a callback's function was called with is what is still counted, for *)
(* its mutex is held until it returns.                                      *)
CallbacksRight ==
  \A c \in Callbacks : /\ owed[c] = notified[c]
                       /\ c \in running => args[c] = notified[c]

(* The list holds the threads that wait, each with what its call waits for. *)
Listed(t) == step[t] \in {"look", "block", "asleep"}
InfosRight ==
  \A info \in waitInfos : /\ Listed(info.thread) /\ status[info.thread] = "wait"
                          /\ info.target = want[info.thread].target
                          /\ DisplayFree => info.target > vblankCount

(* The vblank of the newest sample.                                         *)
Newest == IF vblank \in {"sample", "index"} THEN vblankCount - 1 ELSE vblankCount

(* Who waits and is no longer listed has what it waited for; nobody waits   *)
(* for longer than it may ask, and what a thread waited for last is over    *)
(* unless it waits for it now.                                              *)
WaitRight(t) ==
  /\ Listed(t) /\ status[t] = "run" => want[t].target <= Newest
  /\ Waits(t) => \E n \in VCounts \cup {1} : want[t].target <= vblankCount + n
  /\ lastWaited[t] <= vblankCount \/ (Waits(t) /\ lastWaited[t] <= want[t].target)
  /\ want[t].then = "read" => t = Reader /\ Waits(t)
  /\ step[t] \in {"count", "copy", "copied"} => t = Reader
WaitsRight == \A t \in Threads : WaitRight(t)

(* Every registered callback the vblank has come to is notified.            *)
NotifiedSoFar ==
  vblank = "notify" => \A c \in registered \ left : notified[c] > 0 \/ c \in dropped

(* The slots hold the samples of the latest vblanks, the newest at index;   *)
(* the oldest makes room for the next.                                      *)
Slot(k) == (index + Slots - k) % Slots
Sample(v) == IF v >= 0 THEN v ELSE 0
BuffersRight ==
  /\ vblank = "sample" => vblankCount > 0
  /\ vblank = "index" => vblankCount > 0 /\ buffers[(index + 1) % Slots] = vblankCount
  /\ \A k \in 0..(Slots - 1) :
       k < Slots - 1 \/ vblank # "index" => buffers[Slot(k)] = Sample(Newest - k)

(* A read asks for no more samples than there have been vblanks, and has    *)
(* slept for one whose sample is there.                                     *)
ReadRight ==
  /\ step[Reader] = "copy" => want[Reader].n <= Newest + 1
  /\ slept <= Newest
  /\ step[Reader] # "copied" => samples = <<>>

VblankInv ==
  /\ VblankTyped /\ CallbacksRight /\ InfosRight /\ WaitsRight /\ NotifiedSoFar
  /\ BuffersRight /\ ReadRight /\ SamplesRight

-----------------------------------------------------------------------------
(* What the steps change.                                                   *)

LEMMA Steps ==
  ASSUME [VblankNext]_vblankVars
  PROVE  \/ UNCHANGED vblankVars
         \/ CountVblank \/ TakeSample \/ AdvanceIndex \/ WakeWaiters \/ Abort
         \/ \E c \in Callbacks : NotifyCallback(c)
         \/ \E t \in Threads :
              \/ \E n \in VCounts, sinceSetBuf, cb \in BOOLEAN : DisplayWait(t, n, sinceSetBuf, cb)
              \/ SetFrameBuf(t) \/ CheckCallback(t)
              \/ \E c \in Callbacks : \/ Register(t, c) \/ Unregister(t, c) \/ DeleteByGuest(t, c)
                                      \/ NotifyByGuest(t, c) \/ CancelByGuest(t, c)
              \/ Enter(t) \/ Look(t) \/ Block(t)
              \/ RunCallback(t) \/ CallbackReturns(t) \/ WalkOver(t)
         \/ (\E n \in BufCounts : TouchRead(n)) \/ TakeCount \/ CopySamples \/ ReadReturns
BY DEF VblankNext, Vblank, VblankCalls, VblankCallGoesOn

LEMMA ClockSteps ==
  ASSUME [VblankNext]_vblankVars
  PROVE  \/ UNCHANGED <<clock, vblank>>
         \/ CountVblank \/ TakeSample \/ AdvanceIndex \/ WakeWaiters \/ Abort
         \/ \E t \in Threads : SetFrameBuf(t)
<1>1. CASE UNCHANGED vblankVars
  BY <1>1 DEF vblankVars, tick
<1>2. ASSUME NEW c \in Callbacks, NotifyCallback(c) PROVE UNCHANGED <<clock, vblank>>
  BY <1>2 DEF NotifyCallback
<1>3. ASSUME NEW t \in Threads,
             \/ \E n \in VCounts, sinceSetBuf, cb \in BOOLEAN : DisplayWait(t, n, sinceSetBuf, cb)
             \/ CheckCallback(t)
             \/ \E c \in Callbacks : \/ Register(t, c) \/ Unregister(t, c) \/ DeleteByGuest(t, c)
                                     \/ NotifyByGuest(t, c) \/ CancelByGuest(t, c)
      PROVE  UNCHANGED <<clock, vblank>>
  BY <1>3 DEF tick, DisplayWait, CheckCallback, Register, Unregister, DeleteByGuest, NotifyByGuest,
              CancelByGuest
<1>4. ASSUME NEW t \in Threads,
             \/ Enter(t) \/ Look(t) \/ Block(t)
             \/ RunCallback(t) \/ CallbackReturns(t) \/ WalkOver(t)
      PROVE  UNCHANGED <<clock, vblank>>
  BY <1>4 DEF tick, Enter, Look, Block, RunCallback, CallbackReturns, WalkOver
<1>5. CASE (\E n \in BufCounts : TouchRead(n)) \/ TakeCount \/ CopySamples \/ ReadReturns
  BY <1>5 DEF tick, TouchRead, TakeCount, CopySamples, ReadReturns
<1> QED
  BY <1>1, <1>2, <1>3, <1>4, <1>5, Steps

LEMMA TouchSteps ==
  ASSUME [VblankNext]_vblankVars
  PROVE  UNCHANGED <<buffers, index>> \/ TakeSample \/ AdvanceIndex
<1>1. CASE UNCHANGED vblankVars
  BY <1>1 DEF vblankVars, touch
<1>2. CASE CountVblank \/ WakeWaiters \/ Abort \/ \E c \in Callbacks : NotifyCallback(c)
  BY <1>2 DEF touch, CountVblank, WakeWaiters, Abort, NotifyCallback
<1>3. ASSUME NEW t \in Threads,
             \/ \E n \in VCounts, sinceSetBuf, cb \in BOOLEAN : DisplayWait(t, n, sinceSetBuf, cb)
             \/ SetFrameBuf(t) \/ CheckCallback(t)
             \/ \E c \in Callbacks : \/ Register(t, c) \/ Unregister(t, c) \/ DeleteByGuest(t, c)
                                     \/ NotifyByGuest(t, c) \/ CancelByGuest(t, c)
      PROVE  UNCHANGED <<buffers, index>>
  BY <1>3 DEF touch, DisplayWait, SetFrameBuf, CheckCallback, Register, Unregister, DeleteByGuest,
              NotifyByGuest, CancelByGuest
<1>4. ASSUME NEW t \in Threads,
             \/ Enter(t) \/ Look(t) \/ Block(t)
             \/ RunCallback(t) \/ CallbackReturns(t) \/ WalkOver(t)
      PROVE  UNCHANGED <<buffers, index>>
  BY <1>4 DEF touch, Enter, Look, Block, RunCallback, CallbackReturns, WalkOver
<1>5. CASE (\E n \in BufCounts : TouchRead(n)) \/ TakeCount \/ CopySamples \/ ReadReturns
  BY <1>5 DEF touch, TouchRead, TakeCount, CopySamples, ReadReturns
<1> QED
  BY <1>1, <1>2, <1>3, <1>4, <1>5, Steps

LEMMA ReadSteps ==
  ASSUME [VblankNext]_vblankVars
  PROVE  \/ UNCHANGED <<lastRead, samples, slept>>
         \/ (\E t \in Threads : Look(t)) \/ TakeCount \/ CopySamples \/ ReadReturns
<1>1. CASE UNCHANGED vblankVars
  BY <1>1 DEF vblankVars, touch, read
<1>2. CASE \/ CountVblank \/ TakeSample \/ AdvanceIndex \/ WakeWaiters \/ Abort
           \/ \E c \in Callbacks : NotifyCallback(c)
  BY <1>2 DEF touch, read, CountVblank, TakeSample, AdvanceIndex, WakeWaiters, Abort, NotifyCallback
<1>3. ASSUME NEW t \in Threads,
             \/ \E n \in VCounts, sinceSetBuf, cb \in BOOLEAN : DisplayWait(t, n, sinceSetBuf, cb)
             \/ SetFrameBuf(t) \/ CheckCallback(t)
             \/ \E c \in Callbacks : \/ Register(t, c) \/ Unregister(t, c) \/ DeleteByGuest(t, c)
                                     \/ NotifyByGuest(t, c) \/ CancelByGuest(t, c)
      PROVE  UNCHANGED <<lastRead, samples, slept>>
  BY <1>3 DEF touch, read, DisplayWait, SetFrameBuf, CheckCallback, Register, Unregister,
              DeleteByGuest, NotifyByGuest, CancelByGuest
<1>4. ASSUME NEW t \in Threads,
             \/ Enter(t) \/ Block(t)
             \/ RunCallback(t) \/ CallbackReturns(t) \/ WalkOver(t)
      PROVE  UNCHANGED <<lastRead, samples, slept>>
  BY <1>4 DEF touch, read, Enter, Block, RunCallback, CallbackReturns, WalkOver
<1>5. CASE \E n \in BufCounts : TouchRead(n)
  BY <1>5 DEF touch, read, TouchRead
<1> QED
  BY <1>1, <1>2, <1>3, <1>4, <1>5, Steps

LEMMA VblankGuestSteps ==
  ASSUME [VblankNext]_vblankVars
  PROVE  \/ UNCHANGED <<waitInfos, waiter>>
         \/ WakeWaiters
         \/ \E t \in Threads :
              \/ \E n \in VCounts, sinceSetBuf, cb \in BOOLEAN : DisplayWait(t, n, sinceSetBuf, cb)
              \/ CheckCallback(t) \/ Enter(t) \/ Look(t) \/ Block(t) \/ RunCallback(t) \/ WalkOver(t)
         \/ (\E n \in BufCounts : TouchRead(n)) \/ TakeCount \/ CopySamples \/ ReadReturns
<1>1. CASE UNCHANGED vblankVars
  BY <1>1 DEF vblankVars
<1>2. CASE \/ CountVblank \/ TakeSample \/ AdvanceIndex \/ Abort
           \/ \E c \in Callbacks : NotifyCallback(c)
  BY <1>2 DEF CountVblank, TakeSample, AdvanceIndex, Abort, NotifyCallback
<1>3. ASSUME NEW t \in Threads,
             \/ SetFrameBuf(t) \/ CallbackReturns(t)
             \/ \E c \in Callbacks : \/ Register(t, c) \/ Unregister(t, c) \/ DeleteByGuest(t, c)
                                     \/ NotifyByGuest(t, c) \/ CancelByGuest(t, c)
      PROVE  UNCHANGED <<waitInfos, waiter>>
  BY <1>3 DEF SetFrameBuf, CallbackReturns, Register, Unregister, DeleteByGuest, NotifyByGuest,
              CancelByGuest
<1> QED
  BY <1>1, <1>2, <1>3, Steps

LEMMA CallbackSteps ==
  ASSUME WaiterTyped, [VblankNext]_vblankVars
  PROVE  \/ UNCHANGED callback
         \/ \E c \in Callbacks : Callback!Notify(c) \/ Callback!Cancel(c) \/ Callback!Delete(c)
                                 \/ Callback!Execute(c) \/ Callback!Return(c)
<1>1. CASE UNCHANGED vblankVars
  BY <1>1 DEF vblankVars
<1>2. CASE \/ CountVblank \/ TakeSample \/ AdvanceIndex \/ WakeWaiters \/ Abort
           \/ \E c \in Callbacks : NotifyCallback(c)
  BY <1>2 DEF CountVblank, TakeSample, AdvanceIndex, WakeWaiters, Abort, NotifyCallback
<1>3. ASSUME NEW t \in Threads,
             \/ \E n \in VCounts, sinceSetBuf, cb \in BOOLEAN : DisplayWait(t, n, sinceSetBuf, cb)
             \/ SetFrameBuf(t) \/ CheckCallback(t)
             \/ \E c \in Callbacks : \/ Register(t, c) \/ Unregister(t, c) \/ DeleteByGuest(t, c)
                                     \/ NotifyByGuest(t, c) \/ CancelByGuest(t, c)
      PROVE  \/ UNCHANGED callback
             \/ \E c \in Callbacks : Callback!Notify(c) \/ Callback!Cancel(c) \/ Callback!Delete(c)
  BY <1>3 DEF DisplayWait, SetFrameBuf, CheckCallback, Register, Unregister, DeleteByGuest,
              NotifyByGuest, CancelByGuest
<1>4. ASSUME NEW t \in Threads, Enter(t) \/ Look(t) \/ Block(t) \/ WalkOver(t)
      PROVE  UNCHANGED callback
  BY <1>4 DEF Enter, Look, Block, WalkOver
<1>5. ASSUME NEW t \in Threads, CallbackReturns(t) \/ RunCallback(t), ~UNCHANGED callback
      PROVE  \E c \in Callbacks : Callback!Execute(c) \/ Callback!Return(c)
  BY <1>5 DEF WaiterTyped, CallbackReturns, RunCallback, Mine, Callback!NotDue, callback
<1>6. CASE (\E n \in BufCounts : TouchRead(n)) \/ TakeCount \/ CopySamples \/ ReadReturns
  BY <1>6 DEF TouchRead, TakeCount, CopySamples, ReadReturns
<1> QED
  BY <1>1, <1>2, <1>3, <1>4, <1>5, <1>6, Steps

-----------------------------------------------------------------------------
(* Types.                                                                   *)

(* The ring of slots: what an index comes to that is less than two rounds.  *)
LEMMA OneRound ==
  ASSUME NEW x \in 0..(2 * Slots - 1)
  PROVE  x % Slots = IF x < Slots THEN x ELSE x - Slots
<1>1. Slots \in Nat /\ Slots > 0 /\ x \in Nat
  BY DisplayVblankAssumption
<1>2. CASE x < Slots
  BY <1>1, <1>2
<1>3. CASE x >= Slots
  BY <1>1, <1>3
<1> QED
  BY <1>1, <1>2, <1>3

LEMMA ClockKeepsType ==
  ASSUME ClockTyped, WaiterTyped, [VblankNext]_vblankVars
  PROVE  ClockTyped' /\ vblankCount <= vblankCount'
<1> USE DEF ClockTyped
<1>0. MaxCount \in Nat /\ Counts = 0..MaxCount /\ vblankCount \in Nat /\ lastSetFrame \in Nat
  BY DisplayVblankAssumption DEF Counts
<1>1. /\ vblankCount' \in Counts /\ lastSetFrame' \in Counts /\ lastSetFrame' <= vblankCount'
      /\ vblank' \in {"idle", "sample", "index", "notify", "ended"}
      /\ vblankCount <= vblankCount'
  BY <1>0, ClockSteps
     DEF clock, tick, CountVblank, TakeSample, AdvanceIndex, WakeWaiters, Abort, SetFrameBuf
<1>2. registered' \subseteq Callbacks /\ left' \subseteq Callbacks /\ dropped' \subseteq Callbacks
  <2>1. CASE UNCHANGED vblankVars
    BY <2>1 DEF vblankVars, tick
  <2>2. CASE \/ CountVblank \/ TakeSample \/ AdvanceIndex \/ WakeWaiters \/ Abort
             \/ \E c \in Callbacks : NotifyCallback(c)
    BY <2>2 DEF CountVblank, TakeSample, AdvanceIndex, WakeWaiters, Abort, NotifyCallback
  <2>3. ASSUME NEW t \in Threads,
               \/ \E n \in VCounts, sinceSetBuf, cb \in BOOLEAN : DisplayWait(t, n, sinceSetBuf, cb)
               \/ SetFrameBuf(t) \/ CheckCallback(t)
               \/ \E c \in Callbacks : \/ Register(t, c) \/ Unregister(t, c)
                                       \/ DeleteByGuest(t, c)
                                       \/ NotifyByGuest(t, c) \/ CancelByGuest(t, c)
        PROVE  /\ registered' \subseteq Callbacks /\ left' \subseteq Callbacks
               /\ dropped' \subseteq Callbacks
    BY <2>3 DEF tick, DisplayWait, SetFrameBuf, CheckCallback, Register, Unregister,
                DeleteByGuest, NotifyByGuest, CancelByGuest
  <2>4. ASSUME NEW t \in Threads,
               \/ Enter(t) \/ Look(t) \/ Block(t)
               \/ RunCallback(t) \/ CallbackReturns(t) \/ WalkOver(t)
        PROVE  /\ registered' \subseteq Callbacks /\ left' \subseteq Callbacks
               /\ dropped' \subseteq Callbacks
    BY <2>4 DEF tick, Enter, Look, Block, RunCallback, CallbackReturns, WalkOver, Mine
  <2>5. CASE (\E n \in BufCounts : TouchRead(n)) \/ TakeCount \/ CopySamples \/ ReadReturns
    BY <2>5 DEF tick, TouchRead, TakeCount, CopySamples, ReadReturns
  <2> QED
    BY <2>1, <2>2, <2>3, <2>4, <2>5, Steps
<1> QED
  BY <1>1, <1>2

LEMMA TouchKeepsType ==
  ASSUME VblankTyped, [VblankNext]_vblankVars
  PROVE  TouchTyped'
<1> USE DEF TouchTyped
<1>0. /\ Slots \in Nat \ {0} /\ MaxCount \in Nat /\ Reader \in Threads
      /\ TouchTyped /\ vblankCount \in Counts /\ \A t \in Threads : want[t].target \in Counts
      /\ \A t \in Threads : want[t].n \in 0..Slots
  BY DisplayVblankAssumption DEF VblankTyped, ClockTyped, WaiterTyped
<1>1. buffers' \in [0..(Slots - 1) -> Counts] /\ index' \in 0..(Slots - 1)
  <2>1. index + 1 \in 0..(2 * Slots - 1)
    BY <1>0
  <2>2. (index + 1) % Slots \in 0..(Slots - 1)
    BY <1>0, <2>1, OneRound
  <2> QED
    BY <1>0, <2>2, TouchSteps DEF TakeSample, AdvanceIndex
<1>2. lastRead' \in Counts /\ lastRead' <= vblankCount'
  <2>1. vblankCount <= vblankCount' /\ vblankCount' \in Counts
    BY ClockKeepsType DEF VblankTyped, ClockTyped
  <2>2. lastRead' \in {lastRead, vblankCount}
    BY ReadSteps DEF touch, Look, TakeCount, CopySamples, ReadReturns
  <2> QED
    BY <1>0, <2>1, <2>2 DEF Counts
<1>3. samples' \in Seq(Counts)
  <2>1. CASE CopySamples
    <3> DEFINE n == want[Reader].n
    <3>1. n \in Nat /\ n <= Slots
      BY <1>0
    <3>2. ASSUME NEW i \in 1..n PROVE buffers[(index + Slots - n + i) % Slots] \in Counts
      <4> DEFINE x == index + Slots - n + i
      <4>1. x \in 0..(2 * Slots - 1)
        BY <1>0, <3>1
      <4> HIDE DEF x
      <4>2. x % Slots \in 0..(Slots - 1)
        BY <1>0, <4>1, OneRound
      <4> QED
        BY <1>0, <4>2 DEF x
    <3>3. samples' = [i \in 1..n |-> buffers[(index + Slots - n + i) % Slots]]
      BY <2>1 DEF CopySamples
    <3> HIDE DEF n
    <3> QED
      BY <3>1, <3>2, <3>3
  <2>2. CASE ReadReturns
    BY <2>2 DEF ReadReturns
  <2>3. CASE UNCHANGED samples
    BY <1>0, <2>3
  <2> QED
    BY <2>1, <2>2, <2>3, ReadSteps DEF read, Look, TakeCount
<1>4. slept' \in Counts
  <2>1. ASSUME NEW t \in Threads, Look(t) PROVE slept' = slept \/ slept' = want[t].target
    BY <2>1 DEF Look, VblankTyped, WaiterTyped
  <2> QED
    BY <1>0, <2>1, ReadSteps DEF read, TakeCount, CopySamples, ReadReturns, Counts
<1> QED
  BY <1>1, <1>2, <1>3, <1>4

LEMMA CallbackKeepsType ==
  ASSUME WaiterTyped, CallbackTyped, CallbacksRight, [VblankNext]_vblankVars
  PROVE  CallbackTyped' /\ CallbacksRight'
<1> USE DEF CallbackTyped, CallbacksRight
<1>1. CASE UNCHANGED callback
  BY <1>1 DEF callback
<1>2. ASSUME NEW c \in Callbacks, Callback!Notify(c) PROVE CallbackTyped' /\ CallbacksRight'
  BY <1>2 DEF Callback!Notify
<1>3. ASSUME NEW c \in Callbacks, Callback!Cancel(c) PROVE CallbackTyped' /\ CallbacksRight'
  BY <1>3 DEF Callback!Cancel
<1>4. ASSUME NEW c \in Callbacks, Callback!Delete(c) PROVE CallbackTyped' /\ CallbacksRight'
  BY <1>4 DEF Callback!Delete
<1>5. ASSUME NEW c \in Callbacks, Callback!Execute(c) PROVE CallbackTyped' /\ CallbacksRight'
  BY <1>5 DEF Callback!Execute
<1>6. ASSUME NEW c \in Callbacks, Callback!Return(c) PROVE CallbackTyped' /\ CallbacksRight'
  BY <1>6 DEF Callback!Return
<1> QED
  BY <1>1, <1>2, <1>3, <1>4, <1>5, <1>6, CallbackSteps

LEMMA TargetTyped ==
  ASSUME VblankTyped, NEW t \in Threads, NEW n \in VCounts, NEW sinceSetBuf \in BOOLEAN
  PROVE  Target(t, n, sinceSetBuf) \in Nat
BY DisplayVblankAssumption DEF VblankTyped, ClockTyped, WaiterTyped, Counts, Target, LaterOf

LEMMA VblankGuestKeepsType ==
  ASSUME VblankTyped, [VblankNext]_vblankVars
  PROVE  WaiterTyped'
<1> USE DEF WaiterTyped
<1>0. /\ WaiterTyped /\ MaxCount \in Nat /\ Reader \in Threads /\ Slots \in Nat /\ BufCounts \subseteq 1..Slots
      /\ Idle \in [then : {"return", "callbacks", "read"}, target : Counts, n : 0..Slots]
      /\ registered \subseteq Callbacks /\ live \subseteq Callbacks
  BY DisplayVblankAssumption DEF VblankTyped, Idle, Counts, ClockTyped, CallbackTyped
<1>1. CASE UNCHANGED <<waitInfos, waiter>>
  BY <1>0, <1>1 DEF waiter
<1>2. CASE WakeWaiters
  BY <1>0, <1>2 DEF WakeWaiters
<1>3. ASSUME NEW t \in Threads, NEW n \in VCounts, NEW sinceSetBuf \in BOOLEAN, NEW cb \in BOOLEAN,
             DisplayWait(t, n, sinceSetBuf, cb)
      PROVE  WaiterTyped'
  <2>1. Target(t, n, sinceSetBuf) \in Counts
    BY <1>0, <1>3, TargetTyped DEF DisplayWait, Counts
  <2>2. [then |-> IF cb THEN "callbacks" ELSE "return", target |-> Target(t, n, sinceSetBuf), n |-> 0]
          \in [then : {"return", "callbacks", "read"}, target : Counts, n : 0..Slots]
    BY <1>0, <2>1
  <2> QED
    BY <1>0, <1>3, <2>1, <2>2 DEF DisplayWait, Move
<1>4. ASSUME NEW t \in Threads, CheckCallback(t) \/ Block(t) \/ RunCallback(t) \/ WalkOver(t)
      PROVE  WaiterTyped'
  <2>1. CASE CheckCallback(t)
    BY <1>0, <2>1 DEF CheckCallback, Move, Mine
  <2>2. CASE Block(t)
    BY <1>0, <2>2 DEF Block, Move
  <2>3. CASE RunCallback(t)
    BY <1>0, <2>3 DEF RunCallback
  <2>4. CASE WalkOver(t)
    BY <1>0, <2>4 DEF WalkOver, Answer, Move
  <2> QED
    BY <1>4, <2>1, <2>2, <2>3, <2>4
<1>5. [Idle EXCEPT !.n = want[Reader].n] \in
        [then : {"return", "callbacks", "read"}, target : Counts, n : 0..Slots]
  BY <1>0
<1>6. ASSUME NEW t \in Threads, Enter(t) PROVE WaiterTyped'
  <2>1. [thread |-> t, target |-> want[t].target] \in [thread : Threads, target : Counts]
    BY <1>0
  <2> QED
    <3>1. CASE want[t].target <= vblankCount /\ want[t].then = "read"
      <4> DEFINE kept == [Idle EXCEPT !.n = want[Reader].n]
      <4>1. /\ want' = [want EXCEPT ![Reader] = kept] /\ step' = [step EXCEPT ![Reader] = "count"]
            /\ UNCHANGED <<status, waitInfos, lastWaited, toRun>>
        BY <1>6, <3>1 DEF Enter, Move, GoOnReading
      <4> HIDE DEF kept
      <4> QED
        BY <1>0, <1>5, <4>1 DEF kept
    <3>2. CASE want[t].target <= vblankCount /\ want[t].then # "read"
      BY <1>0, <1>6, <3>2 DEF Enter, Move, Answer, Idle
    <3>3. CASE ~(want[t].target <= vblankCount)
      BY <1>0, <1>6, <2>1, <3>3 DEF Enter, Move
    <3> QED
      BY <3>1, <3>2, <3>3
<1>7. ASSUME NEW t \in Threads, Look(t) PROVE WaiterTyped'
  <2>1. UNCHANGED <<waitInfos, status, lastWaited>>
    BY <1>7 DEF Look
  <2>2. /\ \/ \E place \in {"block", "idle", "callbacks"} : Move(t, place)
           \/ Move(Reader, "count")
        /\ \/ want' = want \/ want' = [want EXCEPT ![t] = Idle]
           \/ want' = [want EXCEPT ![Reader] = [Idle EXCEPT !.n = want[Reader].n]]
        /\ toRun' = toRun \/ toRun' = [toRun EXCEPT ![t] = registered \cap Mine(t)]
    BY <1>7 DEF Look, Answer, GoOnReading, VblankTyped
  <2> QED
    <3>1. step' \in [Threads -> {"idle", "enter", "look", "block", "asleep", "count", "copy",
                               "copied", "callbacks"}]
      BY <1>0, <2>2 DEF Move
    <3>2. want' \in [Threads -> [then : {"return", "callbacks", "read"}, target : Counts,
                                 n : 0..Slots]]
      BY <1>0, <1>5, <2>2
    <3>3. toRun' \in [Threads -> SUBSET Callbacks]
      BY <1>0, <2>2 DEF Mine
    <3> QED
      BY <1>0, <2>1, <3>1, <3>2, <3>3
<1>8. ASSUME NEW n \in BufCounts, TouchRead(n) PROVE WaiterTyped'
  <2>1. [then |-> "read", target |-> lastRead + 1, n |-> n] \in
          [then : {"return", "callbacks", "read"}, target : Counts, n : 0..Slots]
    <3>1. lastRead + 1 \in Counts
      BY <1>0, <1>8 DEF TouchRead, VblankTyped, TouchTyped, Counts
    <3> QED
      BY <1>0, <3>1
  <2>2. n \in 0..Slots
    BY <1>0
  <2>3. want' \in [Threads -> [then : {"return", "callbacks", "read"}, target : Counts,
                               n : 0..Slots]]
    <3>1. CASE want' = [want EXCEPT ![Reader] = [then |-> "read", target |-> lastRead + 1, n |-> n]]
      BY <1>0, <2>1, <3>1
    <3>2. CASE want' = [want EXCEPT ![Reader].n = n]
      BY <1>0, <2>2, <3>2
    <3> QED
      BY <1>8, <3>1, <3>2 DEF TouchRead
  <2> QED
    BY <1>0, <1>8, <2>3 DEF TouchRead, Move
<1>9. CASE TakeCount
  <2>1. vblankCount - lastRead \in Nat
    BY <1>0 DEF VblankTyped, ClockTyped, TouchTyped, Counts
  <2>2. (IF want[Reader].n < vblankCount - lastRead THEN want[Reader].n
                                                    ELSE vblankCount - lastRead) \in 0..Slots
    BY <1>0, <2>1
  <2>3. want' \in [Threads -> [then : {"return", "callbacks", "read"}, target : Counts,
                               n : 0..Slots]]
    BY <1>0, <1>9, <2>2 DEF TakeCount
  <2> QED
    BY <1>0, <1>9, <2>3 DEF TakeCount, Move
<1>10. CASE CopySamples
  BY <1>0, <1>10 DEF CopySamples, Move
<1>11. CASE ReadReturns
  <2>1. /\ UNCHANGED <<waitInfos, status, lastWaited, toRun>>
        /\ Move(Reader, "idle") /\ want' = [want EXCEPT ![Reader] = Idle]
    BY <1>11 DEF ReadReturns, Answer
  <2> QED
    BY <1>0, <2>1 DEF Move
<1> QED
  BY <1>1, <1>2, <1>3, <1>4, <1>6, <1>7, <1>8, <1>9, <1>10, <1>11, VblankGuestSteps

-----------------------------------------------------------------------------
(* Waits.                                                                   *)

LEMMA Fields ==
  ASSUME VblankTyped
  PROVE  /\ vblankCount \in Nat /\ lastSetFrame \in Nat /\ lastSetFrame <= vblankCount
         /\ lastRead \in Nat /\ lastRead <= vblankCount /\ slept \in Nat
         /\ \A t \in Threads : /\ want[t].target \in Nat /\ lastWaited[t] \in Nat
                               /\ want[t].n \in Nat /\ want[t].n <= Slots
         /\ \A info \in waitInfos : info.thread \in Threads /\ info.target \in Nat
         /\ VCounts \cup {1} \subseteq Nat /\ Slots \in Nat /\ Slots > 0
         /\ index \in Nat /\ index < Slots /\ Reader \in Threads
BY DisplayVblankAssumption DEF VblankTyped, ClockTyped, TouchTyped, WaiterTyped, Counts

LEMMA NewestGrows ==
  ASSUME VblankTyped, BuffersRight, [VblankNext]_vblankVars
  PROVE  /\ Newest \in Nat /\ Newest <= vblankCount /\ vblankCount <= Newest + 1
         /\ Newest' \in Nat /\ Newest <= Newest'
         /\ vblankCount \in Nat /\ vblankCount' \in Nat /\ vblankCount <= vblankCount'
<1>1. vblankCount \in Nat /\ vblank \in {"idle", "sample", "index", "notify", "ended"}
  BY Fields DEF VblankTyped, ClockTyped
<1>2. vblankCount' \in Nat /\ vblankCount <= vblankCount'
  BY ClockKeepsType, DisplayVblankAssumption DEF VblankTyped, ClockTyped, Counts
<1>3. Newest \in Nat /\ Newest <= vblankCount /\ vblankCount <= Newest + 1
  BY <1>1 DEF Newest, BuffersRight
<1>4. Newest' \in Nat /\ Newest <= Newest'
  <2>1. CASE UNCHANGED <<vblankCount, vblank>>
    BY <1>3, <2>1 DEF Newest
  <2>2. CASE CountVblank
    BY <1>1, <2>2 DEF Newest, CountVblank
  <2>3. CASE TakeSample \/ AdvanceIndex
    BY <1>1, <1>3, <2>3 DEF Newest, clock, TakeSample, AdvanceIndex
  <2>4. CASE WakeWaiters \/ Abort
    BY <1>1, <2>4 DEF Newest, clock, WakeWaiters, Abort
  <2> QED
    BY <2>1, <2>2, <2>3, <2>4, ClockSteps DEF clock, tick, SetFrameBuf
<1> QED
  BY <1>1, <1>2, <1>3, <1>4

(* What holds of a thread that a step leaves alone, whatever the clock does.*)
LEMMA OtherWaits ==
  ASSUME VblankTyped, BuffersRight, [VblankNext]_vblankVars, NEW t \in Threads, WaitRight(t),
         step'[t] = step[t], status'[t] = status[t], want'[t] = want[t],
         lastWaited'[t] = lastWaited[t]
  PROVE  WaitRight(t)'
<1>1. /\ Newest \in Nat /\ Newest' \in Nat /\ Newest <= Newest'
      /\ vblankCount \in Nat /\ vblankCount' \in Nat /\ vblankCount <= vblankCount'
      /\ want[t].target \in Nat /\ lastWaited[t] \in Nat /\ VCounts \cup {1} \subseteq Nat
  BY NewestGrows, Fields
<1>2. \A n \in VCounts \cup {1} : want[t].target <= vblankCount + n => want[t].target <= vblankCount' + n
  BY <1>1
<1> QED
  BY <1>1, <1>2 DEF WaitRight, Listed, Waits

(* A step of a thread that leaves the clock and the list alone.             *)
LEMMA OneWaits ==
  ASSUME VblankTyped, BuffersRight, InfosRight, WaitsRight, [VblankNext]_vblankVars, NEW t \in Threads,
         UNCHANGED <<clock, vblank, waitInfos, status>>,
         \A u \in Threads \ {t} :
           step'[u] = step[u] /\ want'[u] = want[u] /\ lastWaited'[u] = lastWaited[u],
         \/ ~Listed(t) \/ status[t] # "wait"
         \/ Listed(t)' /\ want'[t].target = want[t].target,
         WaitRight(t)'
  PROVE  InfosRight' /\ WaitsRight'
<1>1. WaitsRight'
  BY OtherWaits DEF WaitsRight
<1>2. InfosRight'
  BY Fields DEF InfosRight, Listed, DisplayFree, clock
<1> QED
  BY <1>1, <1>2

LEMMA WakeKeepsWaits ==
  ASSUME VblankTyped, BuffersRight, InfosRight, WaitsRight, [VblankNext]_vblankVars, WakeWaiters
  PROVE  InfosRight' /\ WaitsRight'
<1>0. /\ vblank = "notify" /\ vblank' = "idle" /\ waitInfos' = waitInfos \ Due
      /\ vblankCount' = vblankCount /\ vblankCount \in Nat
      /\ UNCHANGED <<lastWaited, want>>
      /\ \A t \in Threads : /\ t \in Woken => status'[t] = "run"
                            /\ t \notin Woken => status'[t] = status[t] /\ step'[t] = step[t]
                            /\ step'[t] = IF t \in Woken /\ step[t] = "asleep" THEN "look" ELSE step[t]
  BY Fields DEF WakeWaiters, clock
<1>1. \A t \in Woken : t \in Threads /\ Listed(t) /\ want[t].target <= vblankCount
  BY Fields DEF Woken, Due, InfosRight
<1>2. ASSUME NEW info \in waitInfos \ Due
      PROVE  info.target > vblankCount /\ info.thread \in Threads \ Woken
  <2>1. info.target > vblankCount /\ info.thread \in Threads
    BY <1>0, Fields DEF Due
  <2>2. info.target = want[info.thread].target
    BY DEF InfosRight
  <2> QED
    BY <1>0, <1>1, <2>1, <2>2, Fields
<1>3. InfosRight'
  BY <1>0, <1>2 DEF InfosRight, Listed
<1>4. ASSUME NEW t \in Threads PROVE WaitRight(t)'
  <2>1. WaitRight(t)
    BY DEF WaitsRight
  <2>2. CASE t \notin Woken
    BY <1>0, <2>1, <2>2, OtherWaits
  <2>3. CASE t \in Woken
    <3>1. /\ Waits(t) /\ Waits(t)' /\ step'[t] \notin {"count", "copy", "copied"}
          /\ want[t].target <= vblankCount /\ Newest' = vblankCount
      BY <1>0, <1>1, <2>3 DEF Waits, Listed, Newest
    <3> QED
      BY <1>0, <2>1, <3>1 DEF WaitRight
  <2> QED
    BY <2>2, <2>3
<1> QED
  BY <1>3, <1>4 DEF WaitsRight

LEMMA QuietKeepsWaits ==
  ASSUME VblankTyped, BuffersRight, InfosRight, WaitsRight, [VblankNext]_vblankVars,
         UNCHANGED <<waitInfos, waiter>>, ~WakeWaiters
  PROVE  InfosRight' /\ WaitsRight'
<1>1. UNCHANGED <<status, lastWaited, step, want>>
  BY DEF waiter
<1>2. WaitsRight'
  BY <1>1, OtherWaits DEF WaitsRight
<1>3. DisplayFree' => DisplayFree /\ vblankCount' = vblankCount
  BY ClockSteps DEF DisplayFree, clock, tick, CountVblank, TakeSample, AdvanceIndex, Abort, SetFrameBuf
<1>4. InfosRight'
  BY <1>1, <1>3 DEF InfosRight, Listed
<1> QED
  BY <1>2, <1>4

LEMMA AskKeepsWaits ==
  ASSUME VblankTyped, BuffersRight, InfosRight, WaitsRight, [VblankNext]_vblankVars, NEW t \in Threads,
         NEW n \in VCounts, NEW sinceSetBuf \in BOOLEAN, NEW cb \in BOOLEAN,
         DisplayWait(t, n, sinceSetBuf, cb)
  PROVE  InfosRight' /\ WaitsRight'
<1> DEFINE target == Target(t, n, sinceSetBuf)
<1>0. /\ WaiterTyped /\ step[t] = "idle" /\ WaitRight(t)
      /\ UNCHANGED <<clock, vblank, waitInfos, status>>
      /\ lastWaited' = IF sinceSetBuf THEN lastWaited ELSE [lastWaited EXCEPT ![t] = target]
      /\ want' = [want EXCEPT ![t] = [then |-> IF cb THEN "callbacks" ELSE "return",
                                      target |-> target, n |-> 0]]
      /\ step' = [step EXCEPT ![t] = "enter"]
  BY DEF DisplayWait, Move, tick, WaitsRight, VblankTyped
<1>1. /\ vblankCount \in Nat /\ lastSetFrame \in Nat /\ lastSetFrame <= vblankCount
      /\ lastWaited[t] \in Nat /\ lastWaited[t] <= vblankCount /\ n \in Nat /\ n >= 1
  BY <1>0, Fields, DisplayVblankAssumption DEF WaitRight, Waits
<1>2. target <= vblankCount + n /\ target \in Nat
  BY <1>1 DEF Target, LaterOf
<1> HIDE DEF target
<1>3. /\ step'[t] = "enter" /\ want'[t].target = target /\ want'[t].then # "read"
      /\ lastWaited'[t] = lastWaited[t] \/ lastWaited'[t] = target
      /\ vblankCount' = vblankCount
  BY <1>0 DEF WaiterTyped, clock
<1>4. WaitRight(t)'
  BY <1>1, <1>2, <1>3 DEF WaitRight, Listed, Waits
<1>5. \A u \in Threads \ {t} :
        step'[u] = step[u] /\ want'[u] = want[u] /\ lastWaited'[u] = lastWaited[u]
  BY <1>0 DEF WaiterTyped
<1>6. ~Listed(t)
  BY <1>0 DEF Listed
<1> QED
  BY <1>0, <1>4, <1>5, <1>6, OneWaits

LEMMA EnterKeepsWaits ==
  ASSUME VblankTyped, BuffersRight, InfosRight, WaitsRight, [VblankNext]_vblankVars, NEW t \in Threads, Enter(t)
  PROVE  InfosRight' /\ WaitsRight'
<1>0. /\ WaiterTyped /\ step[t] = "enter" /\ WaitRight(t) /\ DisplayFree
      /\ UNCHANGED <<clock, vblank, lastWaited>>
      /\ want[t].target \in Nat /\ vblankCount \in Nat /\ lastWaited[t] \in Nat
      /\ vblankCount' = vblankCount
  BY Fields DEF Enter, tick, WaitsRight, VblankTyped, clock
<1>1. ~Listed(t) /\ Waits(t)
  BY <1>0 DEF Listed, Waits
<1>2. CASE want[t].target <= vblankCount
  <2>1. /\ UNCHANGED <<status, waitInfos>>
        /\ \/ want[t].then = "read" /\ GoOnReading
           \/ want[t].then # "read" /\ Answer(t)
    BY <1>2 DEF Enter
  <2>2. want[t].then = "read" => t = Reader
    BY <1>0 DEF WaitRight
  <2>3. /\ step'[t] \in {"idle", "count"} /\ (step'[t] = "count" => t = Reader)
        /\ want'[t].then = "return"
        /\ \A u \in Threads \ {t} : step'[u] = step[u] /\ want'[u] = want[u]
    BY <1>0, <2>1, <2>2 DEF GoOnReading, Answer, Move, Idle, WaiterTyped
  <2>4. WaitRight(t)'
    <3>1. lastWaited[t] <= vblankCount
      BY <1>0, <1>2 DEF WaitRight
    <3> QED
      BY <1>0, <2>3, <3>1 DEF WaitRight, Listed, Waits
  <2> QED
    BY <1>0, <1>1, <2>1, <2>3, <2>4, OneWaits
<1>3. CASE ~(want[t].target <= vblankCount)
  <2>1. /\ status' = [status EXCEPT ![t] = "wait"]
        /\ waitInfos' = waitInfos \cup {[thread |-> t, target |-> want[t].target]}
        /\ step' = [step EXCEPT ![t] = "look"] /\ UNCHANGED want
    BY <1>3 DEF Enter, Move
  <2>2. /\ step'[t] = "look" /\ status'[t] = "wait"
        /\ \A u \in Threads \ {t} : step'[u] = step[u] /\ status'[u] = status[u]
    BY <1>0, <2>1 DEF WaiterTyped
  <2>3. WaitRight(t)'
    BY <1>0, <2>1, <2>2 DEF WaitRight, Listed, Waits
  <2>4. WaitsRight'
    BY <1>0, <2>1, <2>2, <2>3, OtherWaits DEF WaitsRight
  <2>5. ASSUME NEW info \in waitInfos
        PROVE  /\ Listed(info.thread)' /\ status'[info.thread] = "wait"
               /\ info.target = want[info.thread].target /\ info.target > vblankCount
    <3>1. /\ Listed(info.thread) /\ status[info.thread] = "wait" /\ info.thread \in Threads
          /\ info.target = want[info.thread].target /\ info.target > vblankCount
      BY <1>0, Fields DEF InfosRight
    <3> QED
      BY <1>1, <2>2, <3>1 DEF Listed
  <2>6. InfosRight'
    BY <1>0, <1>3, <2>1, <2>2, <2>5 DEF InfosRight, Listed
  <2> QED
    BY <2>4, <2>6
<1> QED
  BY <1>2, <1>3

LEMMA LookKeepsWaits ==
  ASSUME VblankTyped, BuffersRight, InfosRight, WaitsRight, [VblankNext]_vblankVars, NEW t \in Threads, Look(t)
  PROVE  InfosRight' /\ WaitsRight'
<1>0. /\ WaiterTyped /\ step[t] = "look" /\ WaitRight(t) /\ Waits(t) /\ Listed(t)
      /\ UNCHANGED <<clock, vblank, waitInfos, status, lastWaited>>
      /\ want[t].target \in Nat /\ vblankCount \in Nat /\ lastWaited[t] \in Nat
      /\ vblankCount' = vblankCount /\ Newest' = Newest
  BY Fields DEF Look, tick, WaitsRight, VblankTyped, clock, Waits, Listed, Newest
<1>1. CASE status[t] = "wait"
  <2>1. step' = [step EXCEPT ![t] = "block"] /\ UNCHANGED want
    BY <1>1 DEF Look, Move
  <2>2. /\ step'[t] = "block" /\ want'[t] = want[t] /\ status'[t] = status[t]
        /\ \A u \in Threads \ {t} : step'[u] = step[u] /\ want'[u] = want[u]
    BY <1>0, <2>1 DEF WaiterTyped
  <2>3. WaitRight(t)'
    BY <1>0, <1>1, <2>2 DEF WaitRight, Listed, Waits
  <2> QED
    BY <1>0, <2>2, <2>3, OneWaits DEF Listed
<1>2. CASE status[t] # "wait"
  <2>1. \/ want[t].then = "return" /\ Answer(t)
        \/ want[t].then = "read" /\ GoOnReading
        \/ want[t].then = "callbacks" /\ Move(t, "callbacks")
           /\ want' = [want EXCEPT ![t] = Idle]
    BY <1>0, <1>2 DEF Look, WaiterTyped
  <2>2. want[t].then = "read" => t = Reader
    BY <1>0 DEF WaitRight
  <2>3. /\ step'[t] \in {"idle", "count", "callbacks"} /\ (step'[t] = "count" => t = Reader)
        /\ want'[t].then = "return"
        /\ \A u \in Threads \ {t} : step'[u] = step[u] /\ want'[u] = want[u]
    BY <1>0, <2>1, <2>2 DEF GoOnReading, Answer, Move, Idle, WaiterTyped
  <2>4. want[t].target <= Newest /\ Newest <= vblankCount /\ Newest \in Nat
    BY <1>0, <1>2, NewestGrows DEF WaitRight, WaiterTyped
  <2>5. WaitRight(t)'
    <3>1. lastWaited[t] <= vblankCount
      BY <1>0, <2>4 DEF WaitRight
    <3> QED
      BY <1>0, <2>3, <3>1 DEF WaitRight, Listed, Waits
  <2> QED
    BY <1>0, <1>2, <2>3, <2>5, OneWaits
<1> QED
  BY <1>1, <1>2

LEMMA ReadKeepsWaits ==
  ASSUME VblankTyped, BuffersRight, InfosRight, WaitsRight, [VblankNext]_vblankVars,
         (\E n \in BufCounts : TouchRead(n)) \/ TakeCount \/ CopySamples \/ ReadReturns
  PROVE  InfosRight' /\ WaitsRight'
<1>0. /\ WaiterTyped /\ Reader \in Threads /\ WaitRight(Reader) /\ ~Listed(Reader) /\ ~Waits(Reader)
      /\ UNCHANGED <<clock, vblank, waitInfos, status, lastWaited>>
      /\ vblankCount \in Nat /\ vblankCount' = vblankCount /\ lastRead \in Nat
      /\ lastRead <= vblankCount
  BY Fields DEF TouchRead, TakeCount, CopySamples, ReadReturns, tick, WaitsRight, VblankTyped, clock,
                Waits, Listed
<1>1. \A u \in Threads \ {Reader} : step'[u] = step[u] /\ want'[u] = want[u]
  BY <1>0 DEF TouchRead, TakeCount, CopySamples, ReadReturns, Move, Answer, WaiterTyped
<1>2. \/ /\ step'[Reader] = "enter" /\ want'[Reader].then = "read"
         /\ want'[Reader].target = lastRead + 1
      \/ /\ step'[Reader] \in {"idle", "count", "copy", "copied"}
         /\ want'[Reader].then \in {want[Reader].then, "return"}
  <2>1. ASSUME NEW n \in BufCounts, TouchRead(n)
        PROVE  \/ /\ step'[Reader] = "enter" /\ want'[Reader].then = "read"
                  /\ want'[Reader].target = lastRead + 1
               \/ /\ step'[Reader] \in {"idle", "count", "copy", "copied"}
                  /\ want'[Reader].then \in {want[Reader].then, "return"}
    BY <1>0, <2>1 DEF TouchRead, Move, WaiterTyped
  <2>2. CASE TakeCount \/ CopySamples \/ ReadReturns
    BY <1>0, <2>2 DEF TakeCount, CopySamples, ReadReturns, Move, Answer, WaiterTyped, Idle
  <2> QED
    BY <2>1, <2>2
<1>3. want'[Reader].then = "read" => step'[Reader] = "enter"
  BY <1>0, <1>2 DEF WaitRight
<1>4. lastWaited'[Reader] <= vblankCount'
  BY <1>0 DEF WaitRight
<1>5. step'[Reader] = "enter" => want'[Reader].target <= vblankCount' + 1
  BY <1>0, <1>2
<1>6. WaitRight(Reader)'
  BY <1>0, <1>2, <1>3, <1>4, <1>5 DEF WaitRight, Listed, Waits
<1> QED
  BY <1>0, <1>1, <1>6, OneWaits

LEMMA WalkKeepsWaits ==
  ASSUME VblankTyped, BuffersRight, InfosRight, WaitsRight, [VblankNext]_vblankVars, NEW t \in Threads,
         CheckCallback(t) \/ Block(t) \/ RunCallback(t) \/ WalkOver(t)
  PROVE  InfosRight' /\ WaitsRight'
<1>0. /\ WaiterTyped /\ WaitRight(t)
      /\ UNCHANGED <<clock, vblank, waitInfos, status, lastWaited>>
      /\ vblankCount' = vblankCount /\ Newest' = Newest
  BY DEF CheckCallback, Block, RunCallback, WalkOver, tick, WaitsRight, VblankTyped, clock, Newest
<1>1. \A u \in Threads \ {t} : step'[u] = step[u] /\ want'[u] = want[u]
  BY <1>0 DEF CheckCallback, Block, RunCallback, WalkOver, Move, Answer, WaiterTyped
<1>2. CASE Block(t)
  <2>1. step[t] = "block" /\ step'[t] = "asleep" /\ want'[t] = want[t] /\ status'[t] = status[t]
    BY <1>0, <1>2 DEF Block, Move, WaiterTyped
  <2>2. WaitRight(t)'
    BY <1>0, <2>1 DEF WaitRight, Listed, Waits
  <2> QED
    BY <1>0, <1>1, <2>1, <2>2, OneWaits DEF Listed
<1>3. CASE CheckCallback(t) \/ RunCallback(t) \/ WalkOver(t)
  <2>1. /\ step[t] \in {"idle", "callbacks"} /\ step'[t] \in {"idle", "callbacks"}
        /\ want'[t].then \in {want[t].then, "return"}
    BY <1>0, <1>3 DEF CheckCallback, RunCallback, WalkOver, Move, Answer, WaiterTyped, Idle
  <2>2. ~Waits(t) /\ ~Listed(t)
    BY <2>1 DEF Waits, Listed
  <2>3. WaitRight(t)'
    BY <1>0, <2>1, <2>2 DEF WaitRight, Listed, Waits
  <2> QED
    BY <1>0, <1>1, <2>2, <2>3, OneWaits
<1> QED
  BY <1>2, <1>3

LEMMA WaitsKeep ==
  ASSUME VblankTyped, BuffersRight, InfosRight, WaitsRight, [VblankNext]_vblankVars
  PROVE  InfosRight' /\ WaitsRight'
BY WakeKeepsWaits, QuietKeepsWaits, AskKeepsWaits, EnterKeepsWaits, LookKeepsWaits,
   ReadKeepsWaits, WalkKeepsWaits, VblankGuestSteps

-----------------------------------------------------------------------------
(* Callbacks.                                                               *)

LEMMA NotifiedKeeps ==
  ASSUME VblankTyped, NotifiedSoFar, [VblankNext]_vblankVars
  PROVE  NotifiedSoFar'
<1>0. CallbackTyped /\ WaiterTyped /\ registered \subseteq Callbacks
  BY DEF VblankTyped, ClockTyped
<1> SUFFICES ASSUME vblank' = "notify", NEW c \in registered', c \notin left'
             PROVE  notified'[c] > 0 \/ c \in dropped'
  BY DEF NotifiedSoFar
<1>1. CASE AdvanceIndex
  BY <1>1 DEF AdvanceIndex
<1>2. CASE ~AdvanceIndex
  <2>1. vblank = "notify" /\ ~CountVblank /\ ~DisplayFree
    BY <1>2, ClockSteps
       DEF DisplayFree, clock, tick, CountVblank, TakeSample, WakeWaiters, Abort, SetFrameBuf
  <2>2. CASE UNCHANGED vblankVars
    BY <2>1, <2>2 DEF vblankVars, tick, callback, NotifiedSoFar
  <2>3. ASSUME NEW d \in Callbacks, NotifyCallback(d)
        PROVE  notified'[c] > 0 \/ c \in dropped'
    <3>1. /\ notified' = [notified EXCEPT ![d] = @ + 1] /\ left' = left \ {d}
          /\ UNCHANGED <<registered, dropped>>
      BY <2>3 DEF NotifyCallback, Callback!Notify
    <3> QED
      BY <1>0, <2>1, <3>1 DEF NotifiedSoFar, CallbackTyped
  <2>4. CASE TakeSample \/ WakeWaiters \/ Abort
    BY <2>1, <2>4 DEF TakeSample, WakeWaiters, Abort
  <2>5. ASSUME NEW t \in Threads,
               \/ \E n \in VCounts, sinceSetBuf, cb \in BOOLEAN : DisplayWait(t, n, sinceSetBuf, cb)
               \/ SetFrameBuf(t) \/ CheckCallback(t)
               \/ \E d \in Callbacks : Register(t, d) \/ Unregister(t, d)
        PROVE  notified'[c] > 0 \/ c \in dropped'
    BY <2>1, <2>5 DEF tick, callback, NotifiedSoFar, DisplayWait, SetFrameBuf, CheckCallback,
                      Register, Unregister
  <2>6. ASSUME NEW t \in Threads, NEW d \in Callbacks,
               DeleteByGuest(t, d) \/ NotifyByGuest(t, d) \/ CancelByGuest(t, d)
        PROVE  notified'[c] > 0 \/ c \in dropped'
    BY <1>0, <2>1, <2>6
       DEF tick, NotifiedSoFar, CallbackTyped, DeleteByGuest, NotifyByGuest, CancelByGuest,
           Callback!Delete, Callback!Notify, Callback!Cancel
  <2>7. ASSUME NEW t \in Threads, Enter(t) \/ Look(t) \/ Block(t) \/ WalkOver(t)
        PROVE  notified'[c] > 0 \/ c \in dropped'
    BY <2>1, <2>7 DEF tick, callback, NotifiedSoFar, Enter, Look, Block, WalkOver
  <2>8. ASSUME NEW t \in Threads, RunCallback(t) PROVE notified'[c] > 0 \/ c \in dropped'
    BY <2>1, <2>8 DEF tick, NotifiedSoFar, RunCallback, Callback!NotDue, Callback!Execute
  <2>9. ASSUME NEW t \in Threads, CallbackReturns(t) PROVE notified'[c] > 0 \/ c \in dropped'
    <3>1. PICK d \in Mine(t) : Callback!Return(d) /\ dropped' = dropped \cup {d}
      BY <2>9 DEF CallbackReturns
    <3>2. notified' = [notified EXCEPT ![d] = 0] /\ UNCHANGED <<registered, left>>
      BY <2>9, <3>1 DEF CallbackReturns, Callback!Return, tick
    <3> QED
      BY <1>0, <2>1, <3>1, <3>2 DEF NotifiedSoFar, CallbackTyped
  <2>10. CASE (\E n \in BufCounts : TouchRead(n)) \/ TakeCount \/ CopySamples \/ ReadReturns
    BY <2>1, <2>10 DEF tick, callback, NotifiedSoFar, TouchRead, TakeCount, CopySamples, ReadReturns
  <2> QED
    BY <1>2, <2>1, <2>2, <2>3, <2>4, <2>5, <2>6, <2>7, <2>8, <2>9, <2>10, Steps
<1> QED
  BY <1>1, <1>2

-----------------------------------------------------------------------------
(* Touch samples.                                                           *)

LEMMA RingSlot ==
  ASSUME NEW j \in 0..(Slots - 1), NEW k \in 0..(Slots - 1)
  PROVE  (j + Slots - k) % Slots = IF k <= j THEN j - k ELSE j + Slots - k
<1> DEFINE x == j + Slots - k
<1>0. Slots \in Nat /\ Slots > 0
  BY DisplayVblankAssumption
<1>1. x \in 0..(2 * Slots - 1)
  BY <1>0
<1>2. (j + Slots - k) % Slots = x % Slots
  OBVIOUS
<1> HIDE DEF x
<1>3. x % Slots = IF x < Slots THEN x ELSE x - Slots
  BY <1>1, OneRound
<1>4. x % Slots = IF k <= j THEN j - k ELSE j + Slots - k
  BY <1>0, <1>3 DEF x
<1> QED
  BY <1>2, <1>4

LEMMA NextSlot ==
  ASSUME index \in 0..(Slots - 1)
  PROVE  (index + 1) % Slots = IF index + 1 < Slots THEN index + 1 ELSE 0
<1> DEFINE x == index + 1
<1>0. Slots \in Nat /\ Slots > 0
  BY DisplayVblankAssumption
<1>1. x \in 0..(2 * Slots - 1)
  BY <1>0
<1> HIDE DEF x
<1>2. x % Slots = IF x < Slots THEN x ELSE x - Slots
  BY <1>1, OneRound
<1> QED
  BY <1>0, <1>2 DEF x

LEMMA BuffersKeep ==
  ASSUME VblankTyped, BuffersRight, [VblankNext]_vblankVars
  PROVE  BuffersRight'
<1>0. /\ Slots \in Nat /\ Slots > 0 /\ index \in 0..(Slots - 1) /\ vblankCount \in Nat
      /\ buffers \in [0..(Slots - 1) -> Counts] /\ Newest \in Nat
      /\ index' \in 0..(Slots - 1)
  BY Fields, NewestGrows, TouchKeepsType DEF VblankTyped, TouchTyped
<1>1. \A k \in 0..(Slots - 1) :
        /\ Slot(k) = IF k <= index THEN index - k ELSE index + Slots - k
        /\ k < Slots - 1 \/ vblank # "index" => buffers[Slot(k)] = Sample(Newest - k)
  BY <1>0, RingSlot DEF BuffersRight, Slot
<1>2. (index + 1) % Slots = IF index + 1 < Slots THEN index + 1 ELSE 0
  BY <1>0, NextSlot
<1>3. CASE UNCHANGED <<buffers, index>> /\ ~TakeSample /\ ~AdvanceIndex
  <2>1. \A k : Slot(k)' = Slot(k)
    BY <1>3 DEF Slot
  <2>2. /\ Newest' = Newest
        /\ vblank' = "index" => vblank = "index" /\ vblankCount' = vblankCount
        /\ vblank = "index" => vblank' = "index"
        /\ vblank' = "sample" => vblankCount' > 0
    <3>1. CASE UNCHANGED <<clock, vblank>>
      BY <3>1 DEF clock, Newest, BuffersRight
    <3>2. CASE CountVblank
      BY <1>0, <3>2 DEF CountVblank, Newest
    <3>3. CASE WakeWaiters \/ Abort
      BY <3>3 DEF WakeWaiters, Abort, clock, Newest
    <3>4. ASSUME NEW t \in Threads, SetFrameBuf(t)
          PROVE  UNCHANGED <<vblankCount, vblank>>
      BY <3>4 DEF SetFrameBuf, tick
    <3> QED
      BY <1>3, <3>1, <3>2, <3>3, <3>4, ClockSteps DEF Newest, BuffersRight
  <2> QED
    BY <1>3, <2>1, <2>2 DEF BuffersRight, Sample
<1>4. CASE TakeSample
  <2>1. /\ vblank = "sample" /\ vblank' = "index" /\ index' = index /\ vblankCount' = vblankCount
        /\ buffers' = [buffers EXCEPT ![(index + 1) % Slots] = vblankCount]
        /\ Newest' = Newest /\ vblankCount > 0
    BY <1>4 DEF TakeSample, clock, Newest, BuffersRight
  <2>2. (index + 1) % Slots \in 0..(Slots - 1)
    BY <1>0, <1>2
  <2>3. ASSUME NEW k \in 0..(Slots - 1), k < Slots - 1
        PROVE  buffers'[Slot(k)] = Sample(Newest - k)
    <3>1. Slot(k) # (index + 1) % Slots /\ Slot(k) \in 0..(Slots - 1)
      <4>1. /\ Slots \in Nat /\ index \in Nat /\ index < Slots
            /\ k \in Nat /\ k < Slots - 1
        BY <1>0, <2>3
      <4>2. Slot(k) = IF k <= index THEN index - k ELSE index + Slots - k
        BY <1>1
      <4> QED
        BY ONLY <4>1, <4>2, <1>2
    <3>2. buffers[Slot(k)] = Sample(Newest - k)
      BY <1>1, <2>3
    <3> QED
      BY <1>0, <2>1, <3>1, <3>2
  <2>4. \A k : Slot(k)' = Slot(k)
    BY <2>1 DEF Slot
  <2>5. buffers'[(index' + 1) % Slots] = vblankCount
    BY <1>0, <2>1, <2>2
  <2> QED
    BY <2>1, <2>3, <2>4, <2>5 DEF BuffersRight, Sample
<1>5. CASE AdvanceIndex
  <2>1. /\ vblank = "index" /\ vblank' = "notify" /\ index' = (index + 1) % Slots
        /\ buffers' = buffers /\ vblankCount' = vblankCount
        /\ Newest = vblankCount - 1 /\ Newest' = vblankCount
        /\ buffers[(index + 1) % Slots] = vblankCount
    BY <1>5 DEF AdvanceIndex, clock, Newest, BuffersRight
  <2>2. ASSUME NEW k \in 0..(Slots - 1)
        PROVE  Slot(k)' = IF k <= index' THEN index' - k ELSE index' + Slots - k
    BY <1>0, RingSlot DEF Slot
  <2>3. ASSUME NEW k \in 0..(Slots - 1) PROVE buffers'[Slot(k)'] = Sample(Newest' - k)
    <3>1. CASE k = 0
      <4>1. Slot(k)' = index'
        BY <1>0, <2>2, <3>1
      <4> QED
        BY <1>0, <2>1, <3>1, <4>1 DEF Sample
    <3>2. CASE k # 0
      <4>1. k - 1 \in 0..(Slots - 1) /\ k - 1 < Slots - 1
        BY <1>0, <3>2
      <4>2. Slot(k)' = Slot(k - 1)
        <5>1. Slot(k - 1) = IF k - 1 <= index THEN index - (k - 1) ELSE index + Slots - (k - 1)
          BY <1>1, <4>1
        <5>2. index' = IF index + 1 < Slots THEN index + 1 ELSE 0
          BY <1>2, <2>1
        <5>3. Slot(k)' = IF k <= index' THEN index' - k ELSE index' + Slots - k
          BY <2>2
        <5> QED
          BY <1>0, <3>2, <4>1, <5>1, <5>2, <5>3
      <4>3. buffers[Slot(k - 1)] = Sample(Newest - (k - 1))
        BY <1>1, <4>1
      <4>4. Newest' - k = Newest - (k - 1)
        BY <1>0, <2>1, <4>1
      <4> QED
        BY <2>1, <4>2, <4>3, <4>4
    <3> QED
      BY <3>1, <3>2
  <2> QED
    BY <2>1, <2>3 DEF BuffersRight, Sample
<1> QED
  BY <1>3, <1>4, <1>5, TouchSteps

(* How the reader comes to copy samples and to have them.                   *)
LEMMA ReaderSteps ==
  ASSUME VblankTyped, WaitsRight, [VblankNext]_vblankVars
  PROVE  /\ step'[Reader] = "copy" =>
              TakeCount \/ (step[Reader] = "copy" /\ want'[Reader] = want[Reader])
         /\ step[Reader] = "copied" => step'[Reader] = "copied" \/ ReadReturns
<1>0. WaiterTyped /\ Reader \in Threads
  BY Fields DEF VblankTyped
<1>1. CASE UNCHANGED <<waitInfos, waiter>>
  BY <1>1 DEF waiter
<1>2. CASE WakeWaiters
  BY <1>0, <1>2 DEF WakeWaiters, WaiterTyped
<1>3. ASSUME NEW t \in Threads,
             \/ \E n \in VCounts, sinceSetBuf, cb \in BOOLEAN : DisplayWait(t, n, sinceSetBuf, cb)
             \/ CheckCallback(t) \/ Block(t) \/ RunCallback(t) \/ WalkOver(t)
      PROVE  /\ step'[Reader] = "copy" => step[Reader] = "copy" /\ want'[Reader] = want[Reader]
             /\ step[Reader] = "copied" => step'[Reader] = "copied"
  BY <1>0, <1>3 DEF WaiterTyped, DisplayWait, CheckCallback, Block, RunCallback, WalkOver, Move, Answer
<1>4. ASSUME NEW t \in Threads, Enter(t) \/ Look(t)
      PROVE  /\ step'[Reader] = "copy" => step[Reader] = "copy" /\ want'[Reader] = want[Reader]
             /\ step[Reader] = "copied" => step'[Reader] = "copied"
  <2>1. want[t].then = "read" => t = Reader
    BY DEF WaitsRight, WaitRight
  <2>2. step[t] \in {"enter", "look"} /\ want[t].then \in {"return", "callbacks", "read"}
    BY <1>0, <1>4 DEF Enter, Look, WaiterTyped
  <2>3. \/ GoOnReading /\ t = Reader
        \/ Answer(t)
        \/ \E place \in {"look", "block", "callbacks"} : Move(t, place)
           /\ \A u \in Threads \ {t} : want'[u] = want[u]
    BY <1>0, <1>4, <2>1, <2>2 DEF Enter, Look, WaiterTyped
  <2> QED
    BY <1>0, <2>2, <2>3 DEF WaiterTyped, GoOnReading, Answer, Move
<1>5. ASSUME NEW n \in BufCounts, TouchRead(n)
      PROVE  step[Reader] = "idle" /\ step'[Reader] \in {"enter", "count"}
  BY <1>0, <1>5 DEF TouchRead, Move, WaiterTyped
<1>6. CASE CopySamples
  BY <1>0, <1>6 DEF CopySamples, Move, WaiterTyped
<1>7. CASE ReadReturns
  BY <1>0, <1>7 DEF ReadReturns, Move, Answer, WaiterTyped
<1>8. CASE TakeCount
  BY <1>0, <1>8 DEF TakeCount, Move, WaiterTyped
<1> QED
  BY <1>1, <1>2, <1>3, <1>4, <1>5, <1>6, <1>7, <1>8, VblankGuestSteps

LEMMA ReadKeeps ==
  ASSUME VblankTyped, BuffersRight, WaitsRight, ReadRight, [VblankNext]_vblankVars
  PROVE  ReadRight'
<1>0. /\ Newest \in Nat /\ Newest' \in Nat /\ Newest <= Newest' /\ vblankCount <= Newest + 1
      /\ vblankCount \in Nat /\ lastRead \in Nat /\ lastRead <= vblankCount /\ slept \in Nat
      /\ WaiterTyped /\ Reader \in Threads /\ want[Reader].n \in Nat
  BY NewestGrows, Fields DEF VblankTyped
<1>1. step'[Reader] = "copy" => want'[Reader].n <= Newest' + 1
  <2>1. CASE TakeCount
    <3>1. want'[Reader].n = IF want[Reader].n < vblankCount - lastRead THEN want[Reader].n
                            ELSE vblankCount - lastRead
      BY <1>0, <2>1 DEF TakeCount, WaiterTyped
    <3>2. want'[Reader].n \in Nat /\ want'[Reader].n <= vblankCount
      BY <1>0, <3>1
    <3> QED
      BY <1>0, <3>2
  <2>2. CASE step[Reader] = "copy" /\ want'[Reader] = want[Reader]
    BY <1>0, <2>2 DEF ReadRight
  <2> QED
    BY <2>1, <2>2, ReaderSteps
<1>2. slept' <= Newest'
  <2>1. ASSUME NEW t \in Threads, Look(t) PROVE slept' = slept \/ slept' <= Newest
    <3>1. CASE status[t] = "wait"
      BY <2>1, <3>1 DEF Look
    <3>2. CASE status[t] # "wait"
      <4>1. want[t].target <= Newest
        BY <1>0, <2>1, <3>2 DEF Look, WaitsRight, WaitRight, Listed, WaiterTyped
      <4> QED
        BY <1>0, <2>1, <3>2, <4>1 DEF Look, WaiterTyped
    <3> QED
      BY <3>1, <3>2
  <2>2. \/ slept' = slept \/ slept' = 0
        \/ \E t \in Threads : Look(t)
    BY ReadSteps DEF read, TakeCount, CopySamples, ReadReturns
  <2>3. slept' = slept \/ slept' = 0 \/ slept' <= Newest
    BY <2>1, <2>2
  <2>4. slept' \in Nat
    BY TouchKeepsType, DisplayVblankAssumption DEF TouchTyped, Counts
  <2> QED
    BY <1>0, <2>3, <2>4 DEF ReadRight
<1>3. step'[Reader] # "copied" => samples' = <<>>
  <2>1. CASE step[Reader] = "copied"
    BY <2>1, ReaderSteps DEF ReadReturns
  <2>2. CASE step[Reader] # "copied"
    <3>1. samples = <<>>
      BY <2>2 DEF ReadRight
    <3>2. CopySamples => step'[Reader] = "copied"
      BY <1>0 DEF CopySamples, Move, WaiterTyped
    <3> QED
      BY <3>1, <3>2, ReadSteps DEF Look, TakeCount, ReadReturns, read
  <2> QED
    BY <2>1, <2>2
<1> QED
  BY <1>1, <1>2, <1>3 DEF ReadRight

LEMMA CopyIsRight ==
  ASSUME VblankTyped, BuffersRight, ReadRight, CopySamples
  PROVE  SamplesRight'
<1> DEFINE n == want[Reader].n
<1>0. /\ n \in Nat /\ n <= Slots /\ n <= Newest + 1 /\ Newest \in Int
      /\ Slots \in Nat /\ Slots > 0 /\ index \in 0..(Slots - 1)
      /\ slept \in Nat /\ slept <= Newest /\ slept' = slept
      /\ samples' = [i \in 1..n |-> buffers[(index + Slots - n + i) % Slots]]
      /\ vblankCount \in Nat
  BY Fields DEF CopySamples, ReadRight, Newest
<1> HIDE DEF n
<1>1. ASSUME NEW i \in 1..n PROVE samples'[i] = buffers[Slot(n - i)]
  <2>1. index + Slots - n + i = index + Slots - (n - i)
    BY <1>0
  <2> QED
    BY <1>0, <2>1 DEF Slot
<1>2. Len(samples') = n
  BY <1>0
<1>3. ASSUME NEW i \in 1..n, n < Slots PROVE samples'[i] = Newest - (n - i)
  <2>1. n - i \in 0..(Slots - 1) /\ n - i < Slots - 1 /\ Newest - (n - i) >= 0
    BY <1>0, <1>3
  <2>2. buffers[Slot(n - i)] = Sample(Newest - (n - i))
    BY <2>1 DEF BuffersRight
  <2> QED
    BY <1>1, <2>1, <2>2 DEF Sample
<1>4. n < Slots => \A i \in 1..(n - 1) : samples'[i + 1] = samples'[i] + 1
  <2> SUFFICES ASSUME n < Slots, NEW i \in 1..(n - 1)
               PROVE  samples'[i + 1] = samples'[i] + 1
    OBVIOUS
  <2>1. i \in 1..n /\ i + 1 \in 1..n
    BY <1>0
  <2>2. samples'[i] = Newest - (n - i) /\ samples'[i + 1] = Newest - (n - (i + 1))
    BY <1>3, <2>1
  <2> QED
    BY <1>0, <2>2
<1>5. n > 0 => samples'[n] >= slept
  <2> SUFFICES ASSUME n > 0 PROVE samples'[n] >= slept
    OBVIOUS
  <2>1. n \in 1..n /\ n - n = 0 /\ 0 \in 0..(Slots - 1)
    BY <1>0
  <2>2. samples'[n] = buffers[Slot(0)]
    BY <1>1, <2>1
  <2>3. CASE 0 < Slots - 1 \/ vblank # "index"
    <3>1. buffers[Slot(0)] = Sample(Newest - 0)
      BY <2>1, <2>3 DEF BuffersRight
    <3> QED
      BY <1>0, <2>2, <3>1 DEF Sample
  <2>4. CASE Slots = 1 /\ vblank = "index"
    <3>1. Slot(0) = 0 /\ (index + 1) % Slots = 0
      BY <1>0, <2>1, <2>4, RingSlot, NextSlot DEF Slot
    <3>2. buffers[Slot(0)] = vblankCount
      BY <2>4, <3>1 DEF BuffersRight
    <3> QED
      BY <1>0, <2>2, <2>4, <3>2 DEF Newest
  <2> QED
    BY <1>0, <2>3, <2>4
<1>6. samples' # <<>> => n > 0
  BY <1>0
<1> QED
  BY <1>0, <1>2, <1>4, <1>5, <1>6 DEF SamplesRight

LEMMA SamplesKeep ==
  ASSUME VblankTyped, BuffersRight, WaitsRight, ReadRight, SamplesRight, [VblankNext]_vblankVars
  PROVE  SamplesRight'
<1>1. CASE UNCHANGED <<samples, slept>>
  BY <1>1 DEF SamplesRight
<1>2. ASSUME NEW t \in Threads, Look(t), ~UNCHANGED <<samples, slept>> PROVE samples' = <<>>
  <2>1. samples' = samples /\ step[t] = "look" /\ want[t].then = "read"
    BY <1>2 DEF Look, VblankTyped, WaiterTyped
  <2>2. t = Reader
    BY <2>1 DEF WaitsRight, WaitRight
  <2> QED
    BY <2>1, <2>2 DEF ReadRight
<1>3. ReadReturns => samples' = <<>>
  BY DEF ReadReturns
<1>4. samples' = <<>> => SamplesRight'
  BY DEF SamplesRight
<1>5. TakeCount => UNCHANGED <<samples, slept>>
  BY DEF TakeCount, read
<1> QED
  BY <1>1, <1>2, <1>3, <1>4, <1>5, CopyIsRight, ReadSteps

-----------------------------------------------------------------------------
(* The invariant and what follows from it.                                  *)

LEMMA InitVblankInv == VblankInit => VblankInv
<1> SUFFICES ASSUME VblankInit PROVE VblankInv
  OBVIOUS
<1>0. MaxCount \in Nat /\ Slots \in Nat /\ Slots > 0 /\ 0 \in Counts /\ Reader \in Threads
  BY DisplayVblankAssumption DEF Counts
<1>1. Idle \in [then : {"return", "callbacks", "read"}, target : Counts, n : 0..Slots]
  BY <1>0 DEF Idle
<1>2. VblankTyped
  BY <1>0, <1>1 DEF VblankInit, Callback!Create, Callback!Zero, VblankTyped, ClockTyped, TouchTyped, WaiterTyped,
                    CallbackTyped
<1>3. CallbacksRight /\ InfosRight /\ NotifiedSoFar /\ SamplesRight
  BY DEF VblankInit, Callback!Create, Callback!Zero, CallbacksRight, InfosRight, NotifiedSoFar, SamplesRight
<1>4. WaitsRight
  BY <1>0 DEF VblankInit, WaitsRight, WaitRight, Listed, Waits, Idle
<1>5. BuffersRight
  <2>1. vblank = "idle" /\ index = 0 /\ \A s \in 0..(Slots - 1) : buffers[s] = 0
    BY DEF VblankInit
  <2>2. Newest = 0
    BY <2>1 DEF VblankInit, Newest
  <2>3. ASSUME NEW k \in 0..(Slots - 1) PROVE buffers[Slot(k)] = Sample(Newest - k)
    <3>1. Slot(k) \in 0..(Slots - 1)
      BY <1>0, <2>1, RingSlot DEF Slot
    <3> QED
      BY <2>1, <2>2, <3>1 DEF Sample
  <2> QED
    BY <2>1, <2>3 DEF BuffersRight
<1>6. ReadRight
  BY <1>0 DEF VblankInit, ReadRight, Newest
<1> QED
  BY <1>2, <1>3, <1>4, <1>5, <1>6 DEF VblankInv

LEMMA NextKeepsVblankInv == VblankInv /\ [VblankNext]_vblankVars => VblankInv'
<1> SUFFICES ASSUME VblankInv, [VblankNext]_vblankVars PROVE VblankInv'
  OBVIOUS
<1> USE DEF VblankInv
<1>1. ClockTyped /\ WaiterTyped /\ CallbackTyped
  BY DEF VblankTyped
<1>2. VblankTyped' /\ CallbacksRight'
  BY <1>1, ClockKeepsType, TouchKeepsType, VblankGuestKeepsType, CallbackKeepsType DEF VblankTyped
<1> QED
  BY <1>2, WaitsKeep, NotifiedKeeps, BuffersKeep, ReadKeeps, SamplesKeep

LEMMA SpecVblankInv == VblankSpec => []VblankInv
BY InitVblankInv, NextKeepsVblankInv, PTL DEF VblankSpec

(* The variables keep their types: no count passes its bound, and a read    *)
(* never asks for more samples than there are slots.                        *)
THEOREM DisplayVblankTypeCorrect == VblankSpec => []VblankTypeOK
<1>1. VblankInv => VblankTypeOK
  BY DEF VblankInv, VblankTyped, ClockTyped, TouchTyped, WaiterTyped, CallbackTyped, VblankTypeOK
<1> QED
  BY <1>1, SpecVblankInv, PTL

(* No notification of a callback is lost: what is owed is what is counted,  *)
(* also while the callback's function runs (callback.cpp).                  *)
THEOREM NoNotificationIsLost == VblankSpec => []NotificationsKept
<1>1. VblankInv => NotificationsKept
  BY DEF VblankInv, CallbacksRight, NotificationsKept
<1> QED
  BY <1>1, SpecVblankInv, PTL

(* Nobody is listed for longer than it asked for, and once a vblank is over *)
(* nobody it was for is left in the list (display.cpp, SceDisplay.cpp).     *)
THEOREM VblankWaitsAreInTime == VblankSpec => []WaitsInTime
<1>1. ASSUME VblankInv, NEW info \in waitInfos
      PROVE  /\ \E n \in VCounts \cup {1} : info.target <= vblankCount + n
             /\ DisplayFree => info.target > vblankCount
  <2>1. /\ Listed(info.thread) /\ info.target = want[info.thread].target
        /\ DisplayFree => info.target > vblankCount
    BY <1>1 DEF VblankInv, InfosRight
  <2>2. info.thread \in Threads /\ Waits(info.thread)
    BY <1>1, <2>1, Fields DEF VblankInv, Listed, Waits
  <2> QED
    BY <1>1, <2>1, <2>2 DEF VblankInv, WaitsRight, WaitRight
<1>2. VblankInv => WaitsInTime
  BY <1>1 DEF WaitsInTime
<1> QED
  BY <1>2, SpecVblankInv, PTL

(* A read of the touch screen returns samples of consecutive vblanks, up to *)
(* the one it slept for (touch.cpp), although no lock is held.              *)
THEOREM TouchSamplesAreRight == VblankSpec => []SamplesRight
<1>1. VblankInv => SamplesRight
  BY DEF VblankInv
<1> QED
  BY <1>1, SpecVblankInv, PTL

(* No wait for a vblank ends before that vblank, whoever changes the counts *)
(* the call has read without a lock.                                        *)
THEOREM VblankWaitsAreLongEnough == VblankSpec => WaitsLongEnough
<1>1. ASSUME VblankInv, [VblankNext]_vblankVars, NEW t \in Threads, Waits(t), ~Waits(t)'
      PROVE  vblankCount >= want[t].target
  <2>0. /\ WaiterTyped /\ WaitRight(t) /\ Newest <= vblankCount /\ Newest \in Nat
        /\ vblankCount \in Nat /\ want[t].target \in Nat /\ Reader \in Threads
    BY <1>1, NewestGrows, Fields DEF VblankInv, VblankTyped, WaitsRight
  <2>1. Enter(t) \/ Look(t)
    <3>1. CASE UNCHANGED <<waitInfos, waiter>>
      BY <1>1, <3>1 DEF waiter, Waits
    <3>2. CASE WakeWaiters
      BY <1>1, <2>0, <3>2 DEF WakeWaiters, WaiterTyped, Waits
    <3>3. ASSUME NEW u \in Threads,
                 \/ \E n \in VCounts, sinceSetBuf, cb \in BOOLEAN : DisplayWait(u, n, sinceSetBuf, cb)
                 \/ CheckCallback(u) \/ Block(u) \/ RunCallback(u) \/ WalkOver(u)
          PROVE  FALSE
      BY <1>1, <2>0, <3>3
         DEF WaiterTyped, Waits, DisplayWait, CheckCallback, Block, RunCallback, WalkOver, Move, Answer
    <3>4. ASSUME NEW u \in Threads, Enter(u) \/ Look(u) PROVE u = t
      <4>1. want[u].then = "read" => u = Reader
        BY <1>1 DEF VblankInv, WaitsRight, WaitRight
      <4>2. want[u].then \in {"return", "callbacks", "read"}
        BY <2>0 DEF WaiterTyped
      <4>3. \E place : step' = [step EXCEPT ![u] = place]
        BY <3>4, <4>1, <4>2 DEF Enter, Look, GoOnReading, Answer, Move
      <4> QED
        BY <1>1, <2>0, <4>3 DEF WaiterTyped, Waits
    <3>5. CASE (\E n \in BufCounts : TouchRead(n)) \/ TakeCount \/ CopySamples \/ ReadReturns
      BY <1>1, <2>0, <3>5
         DEF TouchRead, TakeCount, CopySamples, ReadReturns, Move, Answer, WaiterTyped, Waits
    <3> QED
      BY <1>1, <3>1, <3>2, <3>3, <3>4, <3>5, VblankGuestSteps
  <2>2. CASE Enter(t)
    <3>1. step'[t] = "look" \/ want[t].target <= vblankCount
      BY <2>0, <2>2 DEF Enter, Move, WaiterTyped
    <3> QED
      BY <1>1, <2>0, <3>1 DEF Waits
  <2>3. CASE Look(t)
    <3>1. status[t] # "wait"
      BY <1>1, <2>0, <2>3 DEF Look, Move, WaiterTyped, Waits
    <3>2. want[t].target <= Newest
      BY <2>0, <2>3, <3>1 DEF Look, WaitRight, Listed, WaiterTyped
    <3> QED
      BY <2>0, <3>2
  <2> QED
    BY <2>1, <2>2, <2>3
<1>2. ASSUME VblankInv, [VblankNext]_vblankVars
      PROVE  [\A t \in Threads : Waits(t) /\ ~Waits(t)' => vblankCount >= want[t].target]_vblankVars
  BY <1>1, <1>2
<1> QED
  BY <1>2, SpecVblankInv, PTL DEF VblankSpec, WaitsLongEnough

(* Who wakes for a vblank finds every callback it has registered notified   *)
(* of it, or cancelled, run or registered since (vblank_sync_thread).       *)
THEOREM CallbacksAreNotifiedBeforeWake == VblankSpec => NotifiedBeforeWake
<1>1. ASSUME VblankInv, [VblankNext]_vblankVars, NEW t \in Threads, status[t] = "wait", status'[t] = "run",
             NEW c \in registered \cap Mine(t)
      PROVE  notified[c] > 0 \/ c \in dropped
  <2>1. WaiterTyped
    BY <1>1 DEF VblankInv, VblankTyped
  <2>2. ASSUME ~WakeWaiters PROVE FALSE
    <3>1. CASE UNCHANGED <<waitInfos, waiter>>
      BY <1>1, <3>1 DEF waiter
    <3>2. ASSUME NEW u \in Threads,
                 \/ \E n \in VCounts, sinceSetBuf, cb \in BOOLEAN : DisplayWait(u, n, sinceSetBuf, cb)
                 \/ CheckCallback(u) \/ Look(u) \/ Block(u) \/ RunCallback(u) \/ WalkOver(u)
          PROVE  FALSE
      BY <1>1, <3>2 DEF DisplayWait, CheckCallback, Look, Block, RunCallback, WalkOver
    <3>3. ASSUME NEW u \in Threads, Enter(u) PROVE FALSE
      BY <1>1, <2>1, <3>3 DEF Enter, WaiterTyped
    <3>4. CASE (\E n \in BufCounts : TouchRead(n)) \/ TakeCount \/ CopySamples \/ ReadReturns
      BY <1>1, <3>4 DEF TouchRead, TakeCount, CopySamples, ReadReturns
    <3> QED
      BY <1>1, <2>2, <3>1, <3>2, <3>3, <3>4, VblankGuestSteps
  <2>3. vblank = "notify" /\ left = {}
    BY <2>2 DEF WakeWaiters
  <2> QED
    BY <1>1, <2>3 DEF VblankInv, NotifiedSoFar
<1>2. ASSUME VblankInv, [VblankNext]_vblankVars
      PROVE  [\A t \in Threads : status[t] = "wait" /\ status'[t] = "run" =>
                \A c \in registered \cap Mine(t) : notified[c] > 0 \/ c \in dropped]_vblankVars
  BY <1>1, <1>2
<1> QED
  BY <1>2, SpecVblankInv, PTL DEF VblankSpec, NotifiedBeforeWake
=============================================================================
