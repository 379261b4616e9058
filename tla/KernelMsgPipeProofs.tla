------------------------ MODULE KernelMsgPipeProofs ------------------------
(***************************************************************************)
(* The safety of KernelMsgPipe for every capacity, every set of sizes and  *)
(* modes, and every number of threads with and without timeouts.           *)
(***************************************************************************)
EXTENDS KernelMsgPipe, WaitQueueTheorems

(* A thread without a timeout is marked as waiting only from the push of    *)
(* its entry until it has seen the mark gone, and its wait never expires;   *)
(* and a call has no outcome while it runs.                                 *)
StatusRight ==
  \A t \in Threads \ Timed :
    /\ status[t] = "wait" => pc[t] \in {"queued", "closing", "blocked"}
    /\ pc[t] # "expired"

CallsOpen == \A t \in Threads : pc[t] # "idle" => outcome[t] = "none"

PipeInv ==
  TypeOK /\ StatusRight /\ CallsOpen /\ QueuesMatchStatus /\ FullMeansFull

(* QueuesMatchStatus, for one thread and the pair of queues q.              *)
InQueue(q, t) == \E s \in Sides : t \in Sleepers(q[s])

OneEntry(q, t) ==
  \A s, r \in Sides :
    \A i \in DOMAIN q[s], j \in DOMAIN q[r] :
      q[s][i].thread = t /\ q[r][j].thread = t => s = r /\ i = j

LEMMA QueuesMatchByThread ==
  QueuesMatchStatus <=>
    (~beingDeleted =>
       \A t \in Threads \ Timed :
         (status[t] = "wait" <=> InQueue(queue, t)) /\ OneEntry(queue, t))
BY DEF QueuesMatchStatus, InQueue, OneEntry

-----------------------------------------------------------------------------
(* What serving and queueing do to the entries of one thread                *)

(* The entry at position i of side s is taken out.                          *)
LEMMA ServedEntry ==
  ASSUME NEW q \in [Sides -> Seq(Entry)], NEW s \in Sides,
         NEW i \in DOMAIN q[s], NEW t, OneEntry(q, t),
         NEW after, after = [q EXCEPT ![s] = RemoveAt(@, i)]
  PROVE  /\ OneEntry(after, t)
         /\ q[s][i].thread = t => ~InQueue(after, t)
         /\ q[s][i].thread # t => (InQueue(after, t) <=> InQueue(q, t))
<1> DEFINE back(r, j) == IF r = s /\ j >= i THEN j + 1 ELSE j
<1>1. /\ \A r \in Sides : q[r] \in Seq(Entry) /\ Len(q[r]) \in Nat
                          /\ DOMAIN q[r] = 1..Len(q[r])
      /\ i \in 1..Len(q[s])
  OBVIOUS
<1>2. /\ RemoveAt(q[s], i) \in Seq(Entry)
      /\ Len(RemoveAt(q[s], i)) = Len(q[s]) - 1
      /\ \A j \in 1..(Len(q[s]) - 1) :
           RemoveAt(q[s], i)[j] = IF j < i THEN q[s][j] ELSE q[s][j + 1]
  BY <1>1, RemoveAtPositions
<1>3. /\ after[s] = RemoveAt(q[s], i) /\ DOMAIN after[s] = 1..(Len(q[s]) - 1)
      /\ \A r \in Sides \ {s} : after[r] = q[r]
  BY <1>1, <1>2
<1>4. ASSUME NEW r \in Sides, NEW j \in DOMAIN after[r]
      PROVE  /\ j \in Int /\ back(r, j) \in DOMAIN q[r]
             /\ after[r][j] = q[r][back(r, j)]
             /\ ~(r = s /\ back(r, j) = i)
  <2>1. CASE r = s
    BY <1>1, <1>2, <1>3, <1>4, <2>1
  <2>2. CASE r # s
    BY <1>1, <1>3, <1>4, <2>2
  <2> QED
    BY <2>1, <2>2
<1>5. ASSUME NEW r \in Sides, NEW k \in DOMAIN q[r], ~(r = s /\ k = i)
      PROVE  \E j \in DOMAIN after[r] : after[r][j] = q[r][k]
  <2>1. CASE r = s /\ k < i
    <3>1. k \in 1..(Len(q[s]) - 1) /\ after[s][k] = q[s][k]
      BY <1>1, <1>2, <1>3, <1>5, <2>1
    <3> QED
      BY <3>1, <2>1, <1>3
  <2>2. CASE r = s /\ k > i
    <3>1. k - 1 \in 1..(Len(q[s]) - 1) /\ after[s][k - 1] = q[s][k]
      BY <1>1, <1>2, <1>3, <1>5, <2>2
    <3> QED
      BY <3>1, <2>2, <1>3
  <2>3. CASE r # s
    BY <1>3, <1>5, <2>3
  <2>4. k \in Int /\ i \in Int
    BY <1>1, <1>5
  <2> QED
    BY <1>5, <2>1, <2>2, <2>3, <2>4
<1>6. OneEntry(after, t)
  <2> SUFFICES ASSUME NEW r \in Sides, NEW p \in Sides,
                      NEW j \in DOMAIN after[r], NEW k \in DOMAIN after[p],
                      after[r][j].thread = t, after[p][k].thread = t
               PROVE  r = p /\ j = k
    BY DEF OneEntry
  <2>1. r = p /\ back(r, j) = back(p, k)
    <3>1. q[r][back(r, j)].thread = t /\ q[p][back(p, k)].thread = t
          /\ back(r, j) \in DOMAIN q[r] /\ back(p, k) \in DOMAIN q[p]
      BY <1>4
    <3> HIDE DEF back
    <3> QED
      BY <3>1 DEF OneEntry
  <2> QED
    BY <1>1, <1>4, <2>1
<1>7. ASSUME q[s][i].thread = t, InQueue(after, t) PROVE FALSE
  <2>1a. PICK r \in Sides : \E j \in DOMAIN after[r] : after[r][j].thread = t
    BY <1>7 DEF InQueue, Sleepers
  <2>1. PICK j \in DOMAIN after[r] : after[r][j].thread = t
    BY <2>1a
  <2>2. q[r][back(r, j)].thread = t /\ back(r, j) \in DOMAIN q[r]
        /\ ~(r = s /\ back(r, j) = i)
    BY <1>4, <2>1
  <2> HIDE DEF back
  <2> QED
    BY <1>7, <2>2 DEF OneEntry
<1>8. ASSUME q[s][i].thread # t
      PROVE  InQueue(after, t) <=> InQueue(q, t)
  <2>1. ASSUME InQueue(after, t) PROVE InQueue(q, t)
    <3>1a. PICK r \in Sides : \E j \in DOMAIN after[r] : after[r][j].thread = t
      BY <2>1 DEF InQueue, Sleepers
    <3>1. PICK j \in DOMAIN after[r] : after[r][j].thread = t
      BY <3>1a
    <3>2. q[r][back(r, j)].thread = t /\ back(r, j) \in DOMAIN q[r]
      BY <1>4, <3>1
    <3> HIDE DEF back
    <3> QED
      BY <3>2 DEF InQueue, Sleepers
  <2>2. ASSUME InQueue(q, t) PROVE InQueue(after, t)
    <3>1a. PICK r \in Sides : \E k \in DOMAIN q[r] : q[r][k].thread = t
      BY <2>2 DEF InQueue, Sleepers
    <3>1. PICK k \in DOMAIN q[r] : q[r][k].thread = t
      BY <3>1a
    <3>2. PICK j \in DOMAIN after[r] : after[r][j] = q[r][k]
      BY <1>5, <1>8, <3>1
    <3> QED
      BY <3>1, <3>2 DEF InQueue, Sleepers
  <2> QED
    BY <2>1, <2>2
<1> QED
  BY <1>6, <1>7, <1>8

(* The entry e is put at position p of side s: by priority or at the end.   *)
LEMMA QueuedEntry ==
  ASSUME NEW q \in [Sides -> Seq(Entry)], NEW s \in Sides, NEW e \in Entry,
         NEW p \in 1..(Len(q[s]) + 1), NEW longer \in Seq(Entry),
         PushedAt(longer, q[s], e, p), NEW t, OneEntry(q, t),
         e.thread = t => ~InQueue(q, t),
         NEW after, after = [q EXCEPT ![s] = longer]
  PROVE  /\ OneEntry(after, t)
         /\ InQueue(after, t) <=> InQueue(q, t) \/ e.thread = t
<1> DEFINE back(r, j) == IF r = s /\ j > p THEN j - 1 ELSE j
<1>1. /\ \A r \in Sides : q[r] \in Seq(Entry) /\ Len(q[r]) \in Nat
                          /\ DOMAIN q[r] = 1..Len(q[r])
      /\ p \in Int /\ Len(longer) = Len(q[s]) + 1
      /\ \A j \in 1..(Len(q[s]) + 1) :
           longer[j] = IF j < p THEN q[s][j] ELSE IF j = p THEN e ELSE q[s][j - 1]
  BY DEF PushedAt
<1>2. /\ after[s] = longer /\ DOMAIN after[s] = 1..(Len(q[s]) + 1)
      /\ \A r \in Sides \ {s} : after[r] = q[r]
      /\ p \in DOMAIN after[s] /\ after[s][p] = e
  BY <1>1
<1>3. ASSUME NEW r \in Sides, NEW j \in DOMAIN after[r], ~(r = s /\ j = p)
      PROVE  /\ j \in Int /\ back(r, j) \in DOMAIN q[r]
             /\ after[r][j] = q[r][back(r, j)]
  <2>1. CASE r = s
    BY <1>1, <1>2, <1>3, <2>1
  <2>2. CASE r # s
    BY <1>1, <1>2, <1>3, <2>2
  <2> QED
    BY <2>1, <2>2
<1>4. ASSUME NEW r \in Sides, NEW k \in DOMAIN q[r]
      PROVE  \E j \in DOMAIN after[r] : after[r][j] = q[r][k]
  <2>1. CASE r = s /\ k < p
    <3>1. k \in DOMAIN after[s] /\ after[s][k] = q[s][k]
      BY <1>1, <1>2, <1>4, <2>1
    <3> QED
      BY <3>1, <2>1
  <2>2. CASE r = s /\ k >= p
    <3>1. k + 1 \in DOMAIN after[s] /\ after[s][k + 1] = q[s][k]
      BY <1>1, <1>2, <1>4, <2>2
    <3> QED
      BY <3>1, <2>2
  <2>3. CASE r # s
    BY <1>2, <1>4, <2>3
  <2>4. k \in Int
    BY <1>1, <1>4
  <2> QED
    BY <1>1, <2>1, <2>2, <2>3, <2>4
<1>5. OneEntry(after, t)
  <2> SUFFICES ASSUME NEW r \in Sides, NEW m \in Sides,
                      NEW j \in DOMAIN after[r], NEW k \in DOMAIN after[m],
                      after[r][j].thread = t, after[m][k].thread = t
               PROVE  r = m /\ j = k
    BY DEF OneEntry
  <2>1. CASE ~(r = s /\ j = p) /\ ~(m = s /\ k = p)
    <3>1. r = m /\ back(r, j) = back(m, k)
      <4>1. q[r][back(r, j)].thread = t /\ q[m][back(m, k)].thread = t
            /\ back(r, j) \in DOMAIN q[r] /\ back(m, k) \in DOMAIN q[m]
        BY <1>3, <2>1
      <4> HIDE DEF back
      <4> QED
        BY <4>1 DEF OneEntry
    <3> QED
      BY <1>1, <1>3, <2>1, <3>1
  <2>2. ASSUME e.thread = t, NEW x \in Sides, NEW y \in DOMAIN after[x],
               after[x][y].thread = t
        PROVE  x = s /\ y = p
    <3>1. SUFFICES ASSUME ~(x = s /\ y = p) PROVE FALSE
      OBVIOUS
    <3>2. q[x][back(x, y)].thread = t /\ back(x, y) \in DOMAIN q[x]
      BY <1>3, <2>2, <3>1
    <3> HIDE DEF back
    <3>3. InQueue(q, t)
      BY <3>2 DEF InQueue, Sleepers
    <3> QED
      BY <2>2, <3>3
  <2>3. CASE (r = s /\ j = p) \/ (m = s /\ k = p)
    <3>1. e.thread = t
      BY <1>2, <2>3
    <3> QED
      BY <2>2, <3>1
  <2> QED
    BY <2>1, <2>3
<1>6. ASSUME InQueue(after, t) PROVE InQueue(q, t) \/ e.thread = t
  <2>1a. PICK r \in Sides : \E j \in DOMAIN after[r] : after[r][j].thread = t
    BY <1>6 DEF InQueue, Sleepers
  <2>1. PICK j \in DOMAIN after[r] : after[r][j].thread = t
    BY <2>1a
  <2>2. CASE r = s /\ j = p
    BY <1>2, <2>1, <2>2
  <2>3. CASE ~(r = s /\ j = p)
    <3>1. q[r][back(r, j)].thread = t /\ back(r, j) \in DOMAIN q[r]
      BY <1>3, <2>1, <2>3
    <3> HIDE DEF back
    <3> QED
      BY <3>1 DEF InQueue, Sleepers
  <2> QED
    BY <2>2, <2>3
<1>7. ASSUME InQueue(q, t) PROVE InQueue(after, t)
  <2>1a. PICK r \in Sides : \E k \in DOMAIN q[r] : q[r][k].thread = t
    BY <1>7 DEF InQueue, Sleepers
  <2>1. PICK k \in DOMAIN q[r] : q[r][k].thread = t
    BY <2>1a
  <2>2. PICK j \in DOMAIN after[r] : after[r][j] = q[r][k]
    BY <1>4, <2>1
  <2> QED
    BY <2>1, <2>2 DEF InQueue, Sleepers
<1>8. ASSUME e.thread = t PROVE InQueue(after, t)
  BY <1>2, <1>8 DEF InQueue, Sleepers
<1> QED
  BY <1>5, <1>6, <1>7, <1>8

-----------------------------------------------------------------------------
(* The steps                                                                *)

Labels == {"idle", "found", "queued", "closing", "blocked", "woken", "expired",
           "relock", "deleting", "spinning", "erasing"}

LEMMA InitPipeInv == Init => PipeInv
<1> SUFFICES ASSUME Init PROVE PipeInv
  OBVIOUS
<1> USE MsgPipeAssumption DEF Init
<1>1. TypeOK
  <2>1. queue \in [Sides -> Seq(Entry)]
    BY EmptySeq
  <2>2. call \in [Threads -> Call]
    BY DEF Call, Sides
  <2>3. used \in 0..Capacity /\ moved \in [Threads -> 0..Capacity]
    OBVIOUS
  <2>4. registered \in BOOLEAN /\ beingDeleted \in BOOLEAN
    BY Zenon
  <2>7. lock \in Threads \cup {NoThread} /\ remaining \in Int
    OBVIOUS
  <2>5. /\ status \in [Threads -> {"run", "wait"}]
        /\ outcome \in [Threads -> {"none", "ok", "timeout", "deleted"}]
    OBVIOUS
  <2>6. pc \in [Threads -> Labels]
    BY DEF Labels
  <2> QED
    BY <2>1, <2>2, <2>3, <2>4, <2>5, <2>6, <2>7 DEF TypeOK, Labels
<1>2. QueuesMatchStatus
  <2>1. \A s \in Sides : DOMAIN queue[s] = {}
    OBVIOUS
  <2> QED
    BY <2>1 DEF QueuesMatchStatus, Sleepers
<1> QED
  BY <1>1, <1>2 DEF PipeInv, StatusRight, CallsOpen, FullMeansFull

(* Nothing is moved, nobody is queued or served: one thread goes on, and    *)
(* only a thread with a timeout may change its own mark.                    *)
LEMMA WalkKeepsPipeInv ==
  ASSUME PipeInv, NEW t \in Threads, NEW label \in Labels, Goto(t, label),
         UNCHANGED <<used, queue, beingDeleted, call>>,
         registered' \in BOOLEAN, lock' \in Threads \cup {NoThread},
         remaining' \in Int, status' \in [Threads -> {"run", "wait"}],
         \A u \in Threads \ Timed : status'[u] = status[u],
         t \notin Timed =>
           /\ label # "expired"
           /\ status[t] = "wait" => label \in {"queued", "closing", "blocked"},
         NEW o \in {"none", "timeout", "deleted"},
         outcome' = [outcome EXCEPT ![t] = o] \/ (outcome' = outcome /\ pc[t] # "idle"),
         label # "idle" => o = "none",
         moved' \in [Threads -> 0..Capacity],
         \A u \in Threads \ {t} : moved'[u] = moved[u]
  PROVE  PipeInv'
<1>1. TypeOK
  BY DEF PipeInv
<1>2. TypeOK'
  <2>1. outcome' \in [Threads -> {"none", "ok", "timeout", "deleted"}]
    BY <1>1 DEF TypeOK
  <2> QED
    BY <1>1, <2>1 DEF TypeOK, Goto, Labels
<1>3. StatusRight'
  BY <1>1 DEF TypeOK, PipeInv, StatusRight, Goto
<1>4. CallsOpen' /\ FullMeansFull'
  <2>1. /\ \A u \in Threads \ {t} : outcome'[u] = outcome[u] /\ pc'[u] = pc[u]
        /\ pc'[t] = label
        /\ outcome'[t] \in {"none", "timeout", "deleted"}
        /\ label # "idle" => outcome'[t] = "none"
    BY <1>1 DEF TypeOK, PipeInv, CallsOpen, Goto
  <2> QED
    BY <2>1 DEF PipeInv, CallsOpen, FullMeansFull
<1>5. QueuesMatchStatus'
  BY DEF PipeInv, QueuesMatchStatus, Sleepers
<1> QED
  BY <1>2, <1>3, <1>4, <1>5 DEF PipeInv

LEMMA WalkStepsKeepPipeInv ==
  ASSUME PipeInv, NEW t \in Threads,
         \/ FindMsgPipe(t) \/ \E c \in Calls : TransferNothing(t, c)
         \/ SeeStatus(t) \/ Block(t) \/ Expire(t) \/ GoOn(t) \/ WaitAgain(t)
         \/ LeaveDeleted(t) \/ LeaveTimedOut(t)
         \/ DeleteCheck(t) \/ DeleteDone(t) \/ DeleteErase(t)
  PROVE  PipeInv'
<1> USE MsgPipeAssumption
<1>0. /\ registered \in BOOLEAN /\ lock \in Threads \cup {NoThread}
      /\ remaining \in Int /\ status \in [Threads -> {"run", "wait"}]
      /\ moved \in [Threads -> 0..Capacity] /\ 0 \in 0..Capacity
      /\ t \notin Timed => (status[t] = "wait" =>
                              pc[t] \in {"queued", "closing", "blocked"})
      /\ t \notin Timed => pc[t] # "expired"
  BY DEF PipeInv, TypeOK, StatusRight
<1>1. CASE FindMsgPipe(t)
  <2>1. Goto(t, "found") /\ outcome' = [outcome EXCEPT ![t] = "none"]
        /\ UNCHANGED <<registered, pipe, status, call>> /\ pc[t] = "idle"
        /\ moved' \in [Threads -> 0..Capacity]
        /\ \A u \in Threads \ {t} : moved'[u] = moved[u]
    BY <1>0, <1>1 DEF FindMsgPipe
  <2> QED
    BY <1>0, <2>1, WalkKeepsPipeInv DEF pipe, Labels
<1>2. ASSUME NEW label \in Labels, Goto(t, label), pc[t] # "idle",
             UNCHANGED <<used, queue, beingDeleted, status, told>>,
             registered' \in BOOLEAN, lock' \in Threads \cup {NoThread},
             remaining' = remaining,
             t \notin Timed =>
               /\ label # "expired"
               /\ status[t] = "wait" => label \in {"queued", "closing", "blocked"}
      PROVE  PipeInv'
  BY <1>0, <1>2, WalkKeepsPipeInv DEF told
<1>3. CASE \E c \in Calls : TransferNothing(t, c)
  BY <1>0, <1>2, <1>3 DEF TransferNothing, pipe, Labels
<1>4. CASE SeeStatus(t)
  <2>1. CASE status[t] = "run"
    BY <1>0, <1>2, <1>4, <2>1 DEF SeeStatus, pipe, Labels
  <2>2. CASE status[t] # "run"
    BY <1>0, <1>2, <1>4, <2>2 DEF SeeStatus, pipe, Labels
  <2> QED
    BY <2>1, <2>2
<1>5. CASE Block(t)
  BY <1>0, <1>2, <1>5 DEF Block, pipe, Labels
<1>6. CASE Expire(t)
  <2>1. CASE status[t] = "run"
    BY <1>0, <1>2, <1>6, <2>1 DEF Expire, pipe, Labels
  <2>2. CASE status[t] # "run"
    BY <1>0, <1>2, <1>6, <2>2 DEF Expire, pipe, Labels
  <2> QED
    BY <2>1, <2>2
<1>7. CASE GoOn(t) \/ WaitAgain(t)
  BY <1>0, <1>2, <1>7 DEF GoOn, WaitAgain, pipe, Labels
<1>8. CASE LeaveDeleted(t)
  <2>1. /\ Goto(t, "idle") /\ outcome' = [outcome EXCEPT ![t] = "deleted"]
        /\ remaining' \in Int /\ pc[t] \in {"woken", "expired"}
        /\ UNCHANGED <<registered, used, queue, lock, beingDeleted, status, call,
                       moved>>
    BY <1>0, <1>8 DEF LeaveDeleted
  <2> QED
    BY <1>0, <2>1, WalkKeepsPipeInv DEF Labels
<1>9. CASE LeaveTimedOut(t)
  <2>1. /\ Goto(t, "idle") /\ outcome' = [outcome EXCEPT ![t] = "timeout"]
        /\ UNCHANGED <<registered, pipe, call, moved>> /\ t \in Timed
        /\ status' \in [Threads -> {"run", "wait"}]
        /\ \A u \in Threads \ Timed : status'[u] = status[u]
    BY <1>0, <1>9 DEF LeaveTimedOut
  <2> QED
    BY <1>0, <2>1, WalkKeepsPipeInv DEF pipe, Labels
<1>10. CASE DeleteCheck(t)
  <2>1. pc[t] = "found" /\ UNCHANGED <<registered, pipe, status, told>>
        /\ \E label \in {"erasing", "deleting"} : Goto(t, label)
    BY <1>10 DEF DeleteCheck
  <2> QED
    BY <1>0, <1>2, <2>1 DEF pipe, Labels
<1>11. CASE DeleteDone(t)
  BY <1>0, <1>2, <1>11 DEF DeleteDone, Labels
<1>12. CASE DeleteErase(t)
  BY <1>0, <1>2, <1>12 DEF DeleteErase, pipe, Labels
<1> QED
  BY <1>1, <1>3, <1>4, <1>5, <1>6, <1>7, <1>8, <1>9, <1>10, <1>11, <1>12

LEMMA CreateKeepsPipeInv ==
  ASSUME PipeInv, CreateMsgPipe
  PROVE  PipeInv'
<1> USE MsgPipeAssumption DEF CreateMsgPipe
<1>1. TypeOK'
  <2>1. queue' \in [Sides -> Seq(Entry)]
    BY EmptySeq
  <2>2. used' \in 0..Capacity
    OBVIOUS
  <2>3. registered' \in BOOLEAN /\ beingDeleted' \in BOOLEAN
    BY Zenon
  <2>5. remaining' \in Int
    OBVIOUS
  <2>4. TypeOK
    BY DEF PipeInv
  <2> QED
    BY <2>1, <2>2, <2>3, <2>4, <2>5 DEF TypeOK, told
<1>2. QueuesMatchStatus'
  <2>1. \A s \in Sides : DOMAIN queue'[s] = {}
    OBVIOUS
  <2>2. \A t \in Threads \ Timed : status'[t] # "wait"
    BY DEF PipeInv, StatusRight
  <2>3. \A t \in Threads \ Timed :
          (status[t] = "wait" <=> InQueue(queue, t))' /\ OneEntry(queue, t)'
    BY <2>1, <2>2 DEF InQueue, OneEntry, Sleepers
  <2> QED
    BY <2>3 DEF QueuesMatchStatus, InQueue, OneEntry
<1> QED
  BY <1>1, <1>2 DEF PipeInv, StatusRight, CallsOpen, FullMeansFull, told

LEMMA CallsAreTyped == Calls \subseteq Call
<1> SUFFICES ASSUME NEW c \in Calls PROVE c \in Call
  OBVIOUS
<1>1. PICK s \in Sides, n \in Sizes, f \in FullModes, k \in KeepModes :
        c = [side |-> s, size |-> n, full |-> f, keep |-> k]
  BY DEF Calls
<1>2. n \in Nat /\ f \in BOOLEAN /\ k \in BOOLEAN
  BY MsgPipeAssumption
<1> QED
  BY <1>1, <1>2 DEF Call

LEMMA RequestIsTyped ==
  ASSUME NEW c \in Call
  PROVE  c.side \in Sides /\ Request(c) \in Nat
<1>1. c.side \in Sides /\ c.size \in Nat
  BY DEF Call
<1> QED
  BY <1>1 DEF Request

(* msgpipe_recv and msgpipe_send fall asleep.                               *)
LEMMA SleepKeepsPipeInv ==
  ASSUME PipeInv, NEW t \in Threads, NEW c \in Calls, Sleep(t, c)
  PROVE  PipeInv'
<1> USE MsgPipeAssumption DEF Sleep, Entering
<1> DEFINE e == [thread |-> t, size |-> Request(c)]
           s == c.side
           longer == IF s = "recv" THEN Push(queue[s], e) ELSE Append(queue[s], e)
<1>1. /\ s \in Sides /\ c \in Call /\ e \in Entry /\ e.thread = t
  BY CallsAreTyped, RequestIsTyped DEF Entry
<1>2. /\ queue \in [Sides -> Seq(Entry)] /\ queue[s] \in Seq(Entry)
      /\ queue' = [queue EXCEPT ![s] = longer]
      /\ ~beingDeleted /\ pc[t] = "found"
  BY <1>1 DEF PipeInv, TypeOK
<1> HIDE DEF e, s
<1>3. longer \in Seq(Entry) /\ \E p \in 1..(Len(queue[s]) + 1) :
                                 PushedAt(longer, queue[s], e, p)
  <2>1. CASE s = "recv"
    BY <1>1, <1>2, <2>1, PushPosition
  <2>2. CASE s # "recv"
    <3>1. /\ longer = Append(queue[s], e) /\ longer \in Seq(Entry)
          /\ Len(longer) = Len(queue[s]) + 1 /\ Len(queue[s]) \in Nat
          /\ \A j \in 1..Len(queue[s]) : longer[j] = queue[s][j]
          /\ longer[Len(queue[s]) + 1] = e
      BY <1>1, <1>2, <2>2
    <3>2. PushedAt(longer, queue[s], e, Len(queue[s]) + 1)
      BY <3>1 DEF PushedAt
    <3> QED
      BY <3>1, <3>2
  <2> QED
    BY <2>1, <2>2
<1> HIDE DEF longer
<1>4. TypeOK'
  <2>1. queue' \in [Sides -> Seq(Entry)]
    BY <1>1, <1>2, <1>3
  <2>2. call' \in [Threads -> Call]
    BY <1>1 DEF PipeInv, TypeOK
  <2> QED
    BY <2>1, <2>2 DEF PipeInv, TypeOK, Goto
<1>5. outcome[t] = "none"
  BY <1>2 DEF PipeInv, CallsOpen
<1>6. StatusRight' /\ CallsOpen' /\ FullMeansFull'
  BY <1>2, <1>5 DEF PipeInv, TypeOK, StatusRight, CallsOpen, FullMeansFull, Goto
<1>7. ASSUME NEW u \in Threads \ Timed
      PROVE  /\ status'[u] = "wait" <=> InQueue(queue', u)
             /\ OneEntry(queue', u)
  <2>1. (status[u] = "wait" <=> InQueue(queue, u)) /\ OneEntry(queue, u)
    BY <1>2, QueuesMatchByThread DEF PipeInv
  <2>2. e.thread = u => ~InQueue(queue, u)
    BY <1>1, <1>2, <2>1 DEF PipeInv, StatusRight
  <2>3. PICK p \in 1..(Len(queue[s]) + 1) : PushedAt(longer, queue[s], e, p)
    BY <1>3
  <2>4. OneEntry(queue', u) /\ (InQueue(queue', u) <=> InQueue(queue, u) \/ e.thread = u)
    <3>1. longer \in Seq(Entry)
      BY <1>3
    <3>2. /\ OneEntry([queue EXCEPT ![s] = longer], u)
          /\ InQueue([queue EXCEPT ![s] = longer], u) <=>
               InQueue(queue, u) \/ e.thread = u
      BY <1>1, <1>2, <3>1, <2>1, <2>2, <2>3, QueuedEntry
    <3> QED
      BY <1>2, <3>2
  <2>5. status'[u] = "wait" <=> status[u] = "wait" \/ u = t
    BY DEF PipeInv, TypeOK
  <2> QED
    BY <1>1, <2>1, <2>4, <2>5
<1>8. QueuesMatchStatus'
  BY <1>7 DEF QueuesMatchStatus, InQueue, OneEntry
<1> QED
  BY <1>4, <1>6, <1>8 DEF PipeInv

-----------------------------------------------------------------------------
(* Moving bytes and serving a sleeper of the other side                     *)

LEMMA TransferMoves ==
  ASSUME TypeOK, NEW t \in Threads, NEW c \in Call, Transfer(t, c)
  PROVE  /\ used' \in 0..Capacity /\ moved' \in [Threads -> 0..Capacity]
         /\ \A u \in Threads \ {t} : moved'[u] = moved[u]
         /\ c.size <= Available(c.side, used) => moved'[t] = c.size
         /\ call' = [call EXCEPT ![t] = c]
         /\ outcome' = [outcome EXCEPT ![t] = "ok"]
<1> USE MsgPipeAssumption
<1> DEFINE n == IF c.size <= Available(c.side, used)
                THEN c.size ELSE Available(c.side, used)
           after == IF c.side = "send" THEN used + n
                    ELSE IF c.keep THEN used ELSE used - n
<1>1. /\ used' = after /\ moved' = [moved EXCEPT ![t] = n]
      /\ call' = [call EXCEPT ![t] = c] /\ outcome' = [outcome EXCEPT ![t] = "ok"]
  BY DEF Transfer
<1>2. /\ used \in Nat /\ used <= Capacity /\ Capacity \in Nat
      /\ c.size \in Nat /\ c.side \in {"recv", "send"}
      /\ moved \in [Threads -> 0..Capacity]
  BY DEF TypeOK, Call, Sides
<1>3. n \in 0..Capacity /\ after \in 0..Capacity
  <2>1. CASE c.side = "recv"
    BY <1>2, <2>1 DEF Available
  <2>2. CASE c.side = "send"
    BY <1>2, <2>2 DEF Available
  <2> QED
    BY <1>2, <2>1, <2>2
<1>4. c.size <= Available(c.side, used) => n = c.size
  OBVIOUS
<1> HIDE DEF n, after
<1> QED
  BY <1>1, <1>2, <1>3, <1>4

LEMMA TransferServes ==
  ASSUME NEW t \in Threads, NEW c \in Call, Transfer(t, c)
  PROVE  \/ UNCHANGED queue /\ Notify({}, t, "idle")
         \/ \E s \in Sides : \E i \in DOMAIN queue[s] :
              /\ queue' = [queue EXCEPT ![s] = RemoveAt(@, i)]
              /\ Notify({queue[s][i].thread}, t, "idle")
<1>1. Other(c.side) \in Sides
  BY DEF Other, Sides
<1>2. \/ UNCHANGED queue /\ Notify({}, t, "idle")
      \/ \E i \in DOMAIN queue[Other(c.side)] :
           /\ queue' = [queue EXCEPT ![Other(c.side)] = RemoveAt(@, i)]
           /\ Notify({queue[Other(c.side)][i].thread}, t, "idle")
  BY DEF Transfer
<1> QED
  BY <1>1, <1>2

(* Marking threads as running never disturbs where they are.                *)
LEMMA NotifyMoves ==
  ASSUME TypeOK, StatusRight, CallsOpen, NEW t \in Threads, NEW ts,
         NEW label \in Labels \ {"expired"}, Notify(ts, t, label)
  PROVE  /\ status' \in [Threads -> {"run", "wait"}]
         /\ pc' \in [Threads -> Labels]
         /\ StatusRight'
         /\ pc'[t] = label
         /\ \A u \in Threads \ {t} : pc'[u] = "idle" <=> pc[u] = "idle"
         /\ \A u \in Threads : status'[u] = "wait" <=>
              status[u] = "wait" /\ u \notin ts \cup {t}
BY DEF TypeOK, StatusRight, Notify, Labels

LEMMA TransferKeepsPipeInv ==
  ASSUME PipeInv, NEW t \in Threads, NEW c \in Call, Transfer(t, c),
         UNCHANGED <<registered, lock, beingDeleted, remaining>>,
         t \notin Timed => Enough(c) /\ status[t] # "wait"
  PROVE  PipeInv'
<1> USE MsgPipeAssumption
<1>0. /\ TypeOK /\ StatusRight /\ CallsOpen /\ queue \in [Sides -> Seq(Entry)]
      /\ "idle" \in Labels \ {"expired"}
  BY DEF PipeInv, TypeOK, Labels
<1>1. /\ used' \in 0..Capacity /\ moved' \in [Threads -> 0..Capacity]
      /\ \A u \in Threads \ {t} : moved'[u] = moved[u]
      /\ c.size <= Available(c.side, used) => moved'[t] = c.size
      /\ call' = [call EXCEPT ![t] = c]
      /\ outcome' = [outcome EXCEPT ![t] = "ok"]
  BY <1>0, TransferMoves
<1>2. \/ UNCHANGED queue /\ Notify({}, t, "idle")
      \/ \E s \in Sides : \E i \in DOMAIN queue[s] :
           /\ queue' = [queue EXCEPT ![s] = RemoveAt(@, i)]
           /\ Notify({queue[s][i].thread}, t, "idle")
  BY TransferServes
<1>3. PICK ts : Notify(ts, t, "idle")
  BY <1>2
<1>4. /\ status' \in [Threads -> {"run", "wait"}] /\ pc' \in [Threads -> Labels]
      /\ StatusRight' /\ pc'[t] = "idle"
      /\ \A u \in Threads \ {t} : pc'[u] = "idle" <=> pc[u] = "idle"
  BY <1>0, <1>3, NotifyMoves
<1>5. TypeOK'
  <2>1. queue' \in [Sides -> Seq(Entry)]
    <3>1. CASE UNCHANGED queue
      BY <1>0, <3>1
    <3>2. ASSUME NEW s \in Sides, NEW i \in DOMAIN queue[s],
                 queue' = [queue EXCEPT ![s] = RemoveAt(@, i)]
          PROVE  queue' \in [Sides -> Seq(Entry)]
      <4>1. queue[s] \in Seq(Entry) /\ i \in 1..Len(queue[s])
        BY <1>0
      <4>2. RemoveAt(queue[s], i) \in Seq(Entry)
        BY <4>1, RemoveAtPositions
      <4> QED
        BY <1>0, <3>2, <4>2
    <3> QED
      BY <1>2, <3>1, <3>2
  <2>2. call' \in [Threads -> Call]
        /\ outcome' \in [Threads -> {"none", "ok", "timeout", "deleted"}]
    BY <1>0, <1>1 DEF TypeOK
  <2> QED
    BY <1>0, <1>1, <1>4, <2>1, <2>2 DEF TypeOK, Labels
<1>6. CallsOpen'
  BY <1>0, <1>1, <1>4 DEF CallsOpen, TypeOK
<1>7. FullMeansFull'
  <2>1. t \notin Timed /\ c.full => moved'[t] = c.size
    BY <1>1 DEF Enough
  <2> QED
    BY <1>0, <1>1, <2>1 DEF PipeInv, FullMeansFull, TypeOK
<1>8. ASSUME ~beingDeleted, NEW u \in Threads \ Timed
      PROVE  /\ status'[u] = "wait" <=> InQueue(queue', u)
             /\ OneEntry(queue', u)
  <2>1. (status[u] = "wait" <=> InQueue(queue, u)) /\ OneEntry(queue, u)
    BY <1>8, QueuesMatchByThread DEF PipeInv
  <2>2. CASE UNCHANGED queue /\ Notify({}, t, "idle")
    <3>1. status'[u] = "wait" <=> status[u] = "wait"
      BY <1>0, <2>2, NotifyMoves
    <3> QED
      BY <2>1, <2>2, <3>1
  <2>3. ASSUME NEW s \in Sides, NEW i \in DOMAIN queue[s],
               queue' = [queue EXCEPT ![s] = RemoveAt(@, i)],
               Notify({queue[s][i].thread}, t, "idle")
        PROVE  /\ status'[u] = "wait" <=> InQueue(queue', u)
               /\ OneEntry(queue', u)
    <3>1. status'[u] = "wait" <=>
            status[u] = "wait" /\ u \notin {queue[s][i].thread, t}
      BY <1>0, <2>3, NotifyMoves
    <3>2. /\ OneEntry(queue', u)
          /\ queue[s][i].thread = u => ~InQueue(queue', u)
          /\ queue[s][i].thread # u => (InQueue(queue', u) <=> InQueue(queue, u))
      BY <1>0, <2>1, <2>3, ServedEntry
    <3> QED
      BY <1>8, <2>1, <3>1, <3>2
  <2> QED
    BY <1>2, <2>2, <2>3
<1>9. QueuesMatchStatus'
  BY <1>8 DEF QueuesMatchStatus, InQueue, OneEntry
<1> QED
  BY <1>4, <1>5, <1>6, <1>7, <1>9 DEF PipeInv

LEMMA DeleteWakeKeepsPipeInv ==
  ASSUME PipeInv, NEW t \in Threads, DeleteWake(t)
  PROVE  PipeInv'
<1> USE DEF DeleteWake
<1>0. TypeOK /\ StatusRight /\ CallsOpen /\ "spinning" \in Labels \ {"expired"}
  BY DEF PipeInv, Labels
<1>1. /\ status' \in [Threads -> {"run", "wait"}] /\ pc' \in [Threads -> Labels]
      /\ StatusRight'
      /\ \A u \in Threads \ {t} : pc'[u] = "idle" <=> pc[u] = "idle"
  BY <1>0, NotifyMoves
<1>2. TypeOK'
  <2>1. remaining' \in Int
    <3>1. queue["send"] \in Seq(Entry) /\ queue["recv"] \in Seq(Entry)
      BY <1>0 DEF TypeOK, Sides
    <3> QED
      BY <3>1
  <2> QED
    BY <1>0, <1>1, <2>1 DEF TypeOK, told, Labels
<1>3. CallsOpen' /\ FullMeansFull' /\ QueuesMatchStatus'
  BY <1>0, <1>1 DEF PipeInv, CallsOpen, FullMeansFull, QueuesMatchStatus, told
<1> QED
  BY <1>1, <1>2, <1>3 DEF PipeInv

LEMMA NextKeepsPipeInv == PipeInv /\ [Next]_vars => PipeInv'
<1> SUFFICES ASSUME PipeInv, [Next]_vars PROVE PipeInv'
  OBVIOUS
<1> USE MsgPipeAssumption
<1>1. CASE UNCHANGED vars
  BY <1>1 DEF vars, pipe, told, PipeInv, TypeOK, StatusRight, CallsOpen,
     QueuesMatchStatus, FullMeansFull, Sleepers
<1>2. CASE CreateMsgPipe
  BY <1>2, CreateKeepsPipeInv
<1>3. ASSUME NEW t \in Threads, NEW c \in Calls, TransferAtOnce(t, c)
      PROVE  PipeInv'
  <2>1. c \in Call /\ Enough(c) /\ Transfer(t, c) /\ pc[t] = "found"
        /\ UNCHANGED <<registered, lock, beingDeleted, remaining>>
    BY <1>3, CallsAreTyped DEF TransferAtOnce, Entering
  <2> QED
    BY <2>1, TransferKeepsPipeInv DEF PipeInv, StatusRight
<1>4. ASSUME NEW t \in Threads, Finish(t) PROVE PipeInv'
  <2>1. call[t] \in Call /\ Transfer(t, call[t]) /\ pc[t] = "relock"
        /\ (t \in Timed \/ Enough(call[t]))
        /\ UNCHANGED <<registered, lock, beingDeleted, remaining>>
    BY <1>4 DEF Finish, PipeInv, TypeOK
  <2> QED
    BY <2>1, TransferKeepsPipeInv DEF PipeInv, StatusRight
<1>5. ASSUME NEW t \in Threads, NEW c \in Calls, Sleep(t, c) PROVE PipeInv'
  BY <1>5, SleepKeepsPipeInv
<1>6. ASSUME NEW t \in Threads, DeleteWake(t) PROVE PipeInv'
  BY <1>6, DeleteWakeKeepsPipeInv
<1>7. ASSUME NEW t \in Threads, Enter(t) PROVE PipeInv'
  BY <1>3, <1>5, <1>7, WalkStepsKeepPipeInv DEF Enter
<1>8. ASSUME NEW t \in Threads, FindMsgPipe(t) \/ Proceed(t) \/ Delete(t)
      PROVE  PipeInv'
  BY <1>4, <1>6, <1>8, WalkStepsKeepPipeInv DEF Proceed, Leave, Delete
<1> QED
  BY <1>1, <1>2, <1>7, <1>8 DEF Next

LEMMA SpecPipeInv == Spec => []PipeInv
BY InitPipeInv, NextKeepsPipeInv, PTL DEF Spec

(* Type correctness of a pipe: in particular its buffer is never filled     *)
(* beyond the capacity nor read below empty, in either mode of either call. *)
THEOREM MsgPipeTypeCorrect == Spec => []TypeOK
BY SpecPipeInv, PTL DEF PipeInv

(* A thread without a timeout is marked as waiting exactly while it has its *)
(* one entry in one queue, whatever the timeouts of others leave behind.    *)
THEOREM MsgPipeQueuesMatchStatus == Spec => []QueuesMatchStatus
BY SpecPipeInv, PTL DEF PipeInv

(* A MODE_FULL call without a timeout that reports success has moved all    *)
(* the bytes it was asked to move, however often it was woken in vain.      *)
THEOREM FullCallsMoveAll == Spec => []FullMeansFull
BY SpecPipeInv, PTL DEF PipeInv
=============================================================================
