------------------------ MODULE KernelEventFlagProofs ------------------------
(***************************************************************************)
(* The safety of KernelEventFlag for every number of threads, every word   *)
(* and every pattern and mode guests pass.                                 *)
(***************************************************************************)
EXTENDS KernelEventFlag, WaitQueueTheorems

(* What the properties need to be inductive.  Only the thread inside a walk *)
(* holds the lock, and its iterator has started.                            *)
LockHolder ==
  /\ \A t \in Threads : pc[t] = "setting" <=> lock = t
  /\ IF lock = NoThread THEN cursor = 0 ELSE cursor >= 1

(* The sleepers a walk has passed are not satisfied, and without a walk     *)
(* nobody is.                                                               *)
LookedAt ==
  \A i \in DOMAIN waiting :
    lock = NoThread \/ i < cursor => ~Satisfied(waiting[i].req, flags)

(* An unfinished call has no outcome yet.                                   *)
NoOutcomeYet ==
  \A t \in Threads : pc[t] \in {"found", "passed", "asleep"} => outcome[t] = "none"

IInv ==
  /\ TypeOK /\ QueueMatchesStatus /\ Ordered(waiting)
  /\ LockHolder /\ LookedAt
  /\ OutBitsSatisfy /\ NoOutcomeYet

-----------------------------------------------------------------------------
(* Bits                                                                     *)

(* Fewer bits satisfy no more requests.                                     *)
LEMMA SatisfiedMonotone ==
  ASSUME NEW r, NEW f, NEW g, f \subseteq g, Satisfied(r, f)
  PROVE  Satisfied(r, g)
BY DEF Satisfied

(* A satisfied request only takes bits away.                                *)
LEMMA ClearedSubset ==
  ASSUME NEW r, NEW f PROVE Cleared(r, f) \subseteq f
BY DEF Cleared

LEMMA EmptyQueue ==
  Distinct(<<>>) /\ ToSet(<<>>) = {} /\ Sleepers(<<>>) = {} /\ Ordered(<<>>)
BY DEF Distinct, ToSet, Sleepers, Ordered

LEMMA NoRequestIsRequest == NoRequest \in Request
BY DEF NoRequest, Request, ClearModes

LEMMA EntriesOfThreads == \A x \in Entry : x.thread \in Threads
BY DEF Entry

-----------------------------------------------------------------------------
(* What steps do to the queue                                               *)

LEMMA InitIInv == Init => IInv
<1> SUFFICES ASSUME Init PROVE IInv
  OBVIOUS
<1> USE EventFlagAssumption DEF Init
<1>1. TypeOK
  <2>1. waiting \in Seq(Entry) /\ cursor \in 0..(Len(waiting) + 1)
    BY EmptySeq
  <2>2. request \in [Threads -> Request]
    BY NoRequestIsRequest
  <2>3. /\ pc \in [Threads -> {"idle", "found", "passed", "asleep", "setting",
                               "erasing"}]
        /\ status \in [Threads -> {"run", "wait"}]
        /\ outcome \in [Threads -> {"none", "ok", "timeout", "canceled"}]
    OBVIOUS
  <2>4. outBits \in [Threads -> SUBSET Bits] /\ canceled \in SUBSET Threads
        /\ flags \in SUBSET Bits
    OBVIOUS
  <2> QED
    BY <2>1, <2>2, <2>3, <2>4 DEF TypeOK
<1>2. QueueMatchesStatus /\ Ordered(waiting)
  BY EmptyQueue DEF QueueMatchesStatus
<1>3. LockHolder /\ LookedAt
  BY DEF LockHolder, LookedAt
<1>4. OutBitsSatisfy /\ NoOutcomeYet
  BY DEF OutBitsSatisfy, Answered, NoOutcomeYet
<1> QED
  BY <1>1, <1>2, <1>3, <1>4 DEF IInv

(* Steps of a running thread that leave the queue and every sleeper alone.  *)
LEMMA QuietQueue ==
  ASSUME IInv, UNCHANGED <<waiting, status>>, NEW t \in Threads,
         status[t] = "run",
         \A u \in Threads \ {t} : pc'[u] = pc[u] /\ request'[u] = request[u]
  PROVE  QueueMatchesStatus' /\ Ordered(waiting)'
<1>1. QueueMatchesStatus'
  BY DEF IInv, TypeOK, QueueMatchesStatus, Distinct, Sleepers, ToSet
<1>2. Ordered(waiting)'
  BY DEF IInv, Ordered, Rank
<1> QED
  BY <1>1, <1>2

(* A sleeper leaves the queue.                                              *)
LEMMA Dequeue ==
  ASSUME IInv, NEW t \in Threads, status[t] = "wait",
         Distinct(waiting'),
         ToSet(waiting') = {x \in ToSet(waiting) : x.thread # t},
         status' = [status EXCEPT ![t] = "run"],
         \A u \in Threads \ {t} : pc'[u] = pc[u] /\ request'[u] = request[u]
  PROVE  QueueMatchesStatus'
<1>1. Sleepers(waiting') = Sleepers(waiting) \ {t}
  BY SleepersOfEntries
<1>2. ASSUME NEW u \in Threads
      PROVE  status'[u] = "wait" <=> u \in Sleepers(waiting')
  BY <1>1 DEF IInv, TypeOK, QueueMatchesStatus
<1>3. ASSUME NEW u \in Threads, status'[u] = "wait"
      PROVE  pc'[u] = "asleep" /\ [thread |-> u, req |-> request'[u]] \in ToSet(waiting')
  BY <1>3 DEF IInv, TypeOK, QueueMatchesStatus
<1> QED
  BY <1>2, <1>3 DEF QueueMatchesStatus, Distinct, Sleepers, ToSet

(* Without a walk, the queue's entries are looked at as a set.              *)
LEMMA LookedAtEntries ==
  ASSUME IInv, lock = NoThread, NEW x \in ToSet(waiting)
  PROVE  ~Satisfied(x.req, flags)
BY DEF IInv, LookedAt, ToSet

LEMMA LookedAtFrom ==
  ASSUME NEW f, flags' = f,
         \A x \in ToSet(waiting') : ~Satisfied(x.req, f)
  PROVE  LookedAt'
BY DEF LookedAt, ToSet

(* What a walk finds at its iterator.                                       *)
LEMMA CursorSleeps ==
  ASSUME IInv, cursor \in DOMAIN waiting
  PROVE  /\ waiting[cursor] \in Entry
         /\ waiting[cursor].thread \in Threads
         /\ waiting[cursor].req = request[waiting[cursor].thread]
         /\ status[waiting[cursor].thread] = "wait"
         /\ pc[waiting[cursor].thread] = "asleep"
<1> DEFINE e == waiting[cursor]
           t == e.thread
<1>0. waiting \in Seq(Entry) /\ Distinct(waiting)
  BY DEF IInv, TypeOK, QueueMatchesStatus
<1>1. e \in Entry /\ e \in ToSet(waiting) /\ t \in Threads /\ t \in Sleepers(waiting)
  <2>1. e \in Entry
    BY <1>0
  <2>2. e \in ToSet(waiting)
    BY DEF ToSet
  <2>3. t \in Sleepers(waiting)
    BY DEF Sleepers
  <2> QED
    BY <2>1, <2>2, <2>3, EntriesOfThreads
<1>2. status[t] = "wait" /\ pc[t] = "asleep"
      /\ [thread |-> t, req |-> request[t]] \in ToSet(waiting)
  BY <1>1 DEF IInv, QueueMatchesStatus
<1>3. e = [thread |-> t, req |-> request[t]]
  BY <1>0, <1>1, <1>2, EntryUnique
<1> QED
  BY <1>1, <1>2, <1>3

-----------------------------------------------------------------------------
(* The steps of each call                                                   *)

LEMMA CreateKeepsIInv ==
  ASSUME IInv, CreateEventFlag
  PROVE  IInv'
<1> USE EventFlagAssumption DEF CreateEventFlag
<1>1. \A u \in Threads : status[u] = "run"
  BY DEF IInv, TypeOK, QueueMatchesStatus
<1>2. lock = NoThread /\ cursor = 0
  BY DEF IInv, TypeOK, LockHolder
<1>3. TypeOK'
  <2>1. waiting' \in Seq(Entry) /\ cursor' \in 0..(Len(waiting') + 1)
    BY <1>2, EmptySeq
  <2> QED
    BY <2>1 DEF IInv, TypeOK, told
<1>4. QueueMatchesStatus' /\ Ordered(waiting)'
  BY <1>1, EmptyQueue DEF QueueMatchesStatus, Ordered
<1>5. LockHolder' /\ LookedAt'
  BY <1>2 DEF IInv, LockHolder, LookedAt
<1>6. OutBitsSatisfy' /\ NoOutcomeYet'
  BY DEF IInv, TypeOK, OutBitsSatisfy, Answered, NoOutcomeYet, told
<1> QED
  BY <1>3, <1>4, <1>5, <1>6 DEF IInv

LEMMA FindKeepsIInv ==
  ASSUME IInv, NEW t \in Threads, FindEventFlag(t)
  PROVE  IInv'
<1> USE EventFlagAssumption DEF FindEventFlag, Goto, event
<1>1. status[t] = "run"
  BY DEF IInv, TypeOK, QueueMatchesStatus
<1>2. QueueMatchesStatus' /\ Ordered(waiting)'
  BY <1>1, QuietQueue DEF IInv, TypeOK
<1>3. TypeOK'
  BY NoRequestIsRequest DEF IInv, TypeOK
<1>4. LockHolder' /\ LookedAt'
  BY DEF IInv, TypeOK, LockHolder, LookedAt
<1>5. OutBitsSatisfy' /\ NoOutcomeYet'
  BY DEF IInv, TypeOK, OutBitsSatisfy, Answered, NoOutcomeYet
<1> QED
  BY <1>2, <1>3, <1>4, <1>5 DEF IInv

LEMMA QuietCallKeepsIInv ==
  ASSUME IInv, NEW t \in Threads,
         WaitPass(t) \/ DeleteCheck(t) \/ DeleteErase(t)
  PROVE  IInv'
<1> USE EventFlagAssumption
    DEF WaitPass, DeleteCheck, DeleteErase, Goto, event, told
<1>0. /\ UNCHANGED <<event, told, status>> /\ registered' \in BOOLEAN
      /\ pc[t] \in {"found", "erasing"}
      /\ \/ pc' = [pc EXCEPT ![t] = "passed"] /\ pc[t] = "found"
         \/ pc' = [pc EXCEPT ![t] = "idle"]
         \/ pc' = [pc EXCEPT ![t] = "erasing"]
  BY DEF IInv, TypeOK
<1>1. status[t] = "run"
  BY <1>0 DEF IInv, TypeOK, QueueMatchesStatus
<1>2. QueueMatchesStatus' /\ Ordered(waiting)'
  BY <1>0, <1>1, QuietQueue DEF IInv, TypeOK
<1>3. TypeOK'
  BY <1>0 DEF IInv, TypeOK
<1>4. LockHolder' /\ LookedAt'
  BY <1>0 DEF IInv, TypeOK, LockHolder, LookedAt
<1>5. OutBitsSatisfy' /\ NoOutcomeYet'
  BY <1>0 DEF IInv, TypeOK, OutBitsSatisfy, Answered, NoOutcomeYet
<1> QED
  BY <1>2, <1>3, <1>4, <1>5 DEF IInv

(* A wait that is satisfied at once, and one that does not sleep.           *)
LEMMA WaitTakeKeepsIInv ==
  ASSUME IInv, NEW t \in Threads, NEW r \in Request,
         WaitTake(t, r) \/ WaitPoll(t, r)
  PROVE  IInv'
<1> USE EventFlagAssumption DEF WaitTake, WaitPoll, Goto, event, told
<1>0. /\ pc[t] = "passed" /\ lock = NoThread /\ pc' = [pc EXCEPT ![t] = "idle"]
      /\ UNCHANGED <<registered, waiting, lock, cursor, canceled, status>>
      /\ flags' \subseteq flags
  BY ClearedSubset
<1>1. status[t] = "run"
  BY <1>0 DEF IInv, TypeOK, QueueMatchesStatus
<1>2. QueueMatchesStatus' /\ Ordered(waiting)'
  BY <1>0, <1>1, QuietQueue DEF IInv, TypeOK
<1>3. TypeOK'
  <2>1. flags' \in SUBSET Bits
    BY <1>0 DEF IInv, TypeOK
  <2>2. request' \in [Threads -> Request] /\ outBits' \in [Threads -> SUBSET Bits]
        /\ outcome' \in [Threads -> {"none", "ok", "timeout", "canceled"}]
    BY DEF IInv, TypeOK
  <2> QED
    BY <1>0, <2>1, <2>2 DEF IInv, TypeOK
<1>4. LockHolder'
  BY <1>0 DEF IInv, TypeOK, LockHolder
<1>5. LookedAt'
  BY <1>0, SatisfiedMonotone DEF IInv, LookedAt
<1>6. NoOutcomeYet'
  BY <1>0 DEF IInv, TypeOK, NoOutcomeYet
<1>7. OutBitsSatisfy'
  <2>1. CASE WaitTake(t, r)
    BY <2>1, <1>0 DEF IInv, TypeOK, OutBitsSatisfy, Answered
  <2>2. CASE WaitPoll(t, r)
    BY <2>2, <1>0 DEF IInv, TypeOK, OutBitsSatisfy, Answered, NoOutcomeYet
  <2> QED
    BY <2>1, <2>2
<1> QED
  BY <1>2, <1>3, <1>4, <1>5, <1>6, <1>7 DEF IInv

LEMMA WaitSleepKeepsIInv ==
  ASSUME IInv, NEW t \in Threads, NEW r \in Request, WaitSleep(t, r)
  PROVE  IInv'
<1> USE EventFlagAssumption DEF WaitSleep, Goto
<1> DEFINE e == [thread |-> t, req |-> r]
<1>0. /\ pc[t] = "passed" /\ lock = NoThread /\ cursor = 0 /\ e \in Entry
      /\ outcome[t] = "none"
  BY DEF Entry, IInv, TypeOK, LockHolder, NoOutcomeYet
<1>1. waiting \in Seq(Entry) /\ Distinct(waiting) /\ Ordered(waiting)
  BY DEF IInv, TypeOK, QueueMatchesStatus
<1>2. t \notin Sleepers(waiting)
  BY <1>0 DEF IInv, QueueMatchesStatus
<1>12. waiting' = Push(waiting, e)
  OBVIOUS
<1>3. waiting' \in Seq(Entry) /\ ToSet(waiting') = ToSet(waiting) \cup {e}
  <2>1. e \in Entry /\ waiting \in Seq(Entry)
    BY <1>0, <1>1
  <2> HIDE DEF e
  <2>2. /\ Push(waiting, e) \in Seq(Entry)
        /\ ToSet(Push(waiting, e)) = ToSet(waiting) \cup {e}
    BY ONLY <2>1, PushContents
  <2> QED
    BY <1>12, <2>2
<1>4. Distinct(waiting')
  BY <1>0, <1>1, <1>2, PushDistinct
<1>5. Ordered(waiting)'
  <2>1. Ordered(Push(waiting, e))
    BY <1>0, <1>1, EntriesOfThreads, PushOrdered
  <2> QED
    BY <2>1 DEF Ordered, Rank
<1>6. Sleepers(waiting') = Sleepers(waiting) \cup {t}
  BY <1>3, SleepersOfEntries
<1>7. QueueMatchesStatus'
  <2>1. ASSUME NEW u \in Threads
        PROVE  status'[u] = "wait" <=> u \in Sleepers(waiting')
    BY <1>6 DEF IInv, TypeOK, QueueMatchesStatus
  <2>2. ASSUME NEW u \in Threads, status'[u] = "wait"
        PROVE  /\ pc'[u] = "asleep"
               /\ [thread |-> u, req |-> request'[u]] \in ToSet(waiting')
    BY <1>3, <2>2 DEF IInv, TypeOK, QueueMatchesStatus
  <2> QED
    BY <1>4, <2>1, <2>2 DEF QueueMatchesStatus, Distinct, Sleepers, ToSet
<1>8. TypeOK'
  BY <1>0, <1>3 DEF IInv, TypeOK
<1>9. LockHolder'
  BY <1>0 DEF IInv, TypeOK, LockHolder
<1>10. LookedAt'
  <2>1. \A x \in ToSet(waiting') : ~Satisfied(x.req, flags)
    BY <1>0, <1>3, LookedAtEntries
  <2> QED
    BY <2>1, LookedAtFrom
<1>11. OutBitsSatisfy' /\ NoOutcomeYet'
  BY <1>0 DEF IInv, TypeOK, OutBitsSatisfy, Answered, NoOutcomeYet
<1> QED
  BY <1>5, <1>7, <1>8, <1>9, <1>10, <1>11 DEF IInv

LEMMA WokenKeepsIInv ==
  ASSUME IInv, NEW t \in Threads, Woken(t)
  PROVE  IInv'
<1> USE EventFlagAssumption DEF Woken, Goto, event
<1>1. QueueMatchesStatus' /\ Ordered(waiting)'
  BY QuietQueue DEF IInv, TypeOK
<1>2. TypeOK'
  BY DEF IInv, TypeOK
<1>3. LockHolder' /\ LookedAt'
  BY DEF IInv, TypeOK, LockHolder, LookedAt
<1>4. OutBitsSatisfy' /\ NoOutcomeYet'
  BY DEF IInv, TypeOK, OutBitsSatisfy, Answered, NoOutcomeYet
<1> QED
  BY <1>1, <1>2, <1>3, <1>4 DEF IInv

LEMMA TimeOutKeepsIInv ==
  ASSUME IInv, NEW t \in Threads, TimeOut(t)
  PROVE  IInv'
<1> USE EventFlagAssumption DEF TimeOut, Goto
<1>0. /\ waiting \in Seq(Entry) /\ Distinct(waiting) /\ Ordered(waiting)
      /\ t \in Sleepers(waiting) /\ lock = NoThread /\ cursor = 0
  BY DEF IInv, TypeOK, QueueMatchesStatus, LockHolder
<1>1. /\ waiting' \in Seq(Entry) /\ Distinct(waiting') /\ Ordered(waiting')
      /\ ToSet(waiting') = {x \in ToSet(waiting) : x.thread # t}
  BY <1>0, EraseContents
<1>2. QueueMatchesStatus'
  BY <1>1, Dequeue DEF IInv, TypeOK
<1>3. Ordered(waiting)'
  BY <1>1 DEF Ordered, Rank
<1>4. TypeOK'
  <2>1. cursor' \in 0..(Len(waiting') + 1)
    BY <1>0, <1>1
  <2> QED
    BY <1>1, <2>1 DEF IInv, TypeOK
<1>5. LockHolder'
  BY DEF IInv, TypeOK, LockHolder
<1>6. LookedAt'
  <2>1. \A x \in ToSet(waiting') : ~Satisfied(x.req, flags)
    BY <1>0, <1>1, LookedAtEntries
  <2> QED
    BY <2>1, LookedAtFrom
<1>7. OutBitsSatisfy' /\ NoOutcomeYet'
  BY DEF IInv, TypeOK, OutBitsSatisfy, Answered, NoOutcomeYet
<1> QED
  BY <1>2, <1>3, <1>4, <1>5, <1>6, <1>7 DEF IInv

LEMMA SetStartKeepsIInv ==
  ASSUME IInv, NEW t \in Threads, NEW bits \in SUBSET Bits, SetStart(t, bits)
  PROVE  IInv'
<1> USE EventFlagAssumption DEF SetStart, Goto, told
<1>0. status[t] = "run"
  BY DEF IInv, TypeOK, QueueMatchesStatus
<1>1. QueueMatchesStatus' /\ Ordered(waiting)'
  BY <1>0, QuietQueue DEF IInv, TypeOK
<1>2. TypeOK'
  <2>1. cursor' \in 0..(Len(waiting') + 1) /\ flags' \in SUBSET Bits
    BY DEF IInv, TypeOK
  <2> QED
    BY <2>1 DEF IInv, TypeOK
<1>3. LockHolder' /\ LookedAt'
  BY DEF IInv, TypeOK, LockHolder, LookedAt
<1>4. OutBitsSatisfy' /\ NoOutcomeYet'
  BY DEF IInv, TypeOK, OutBitsSatisfy, Answered, NoOutcomeYet
<1> QED
  BY <1>1, <1>2, <1>3, <1>4 DEF IInv

LEMMA SetWakeKeepsIInv ==
  ASSUME IInv, NEW t \in Threads, SetWake(t)
  PROVE  IInv'
<1> USE EventFlagAssumption
<1> DEFINE e == waiting[cursor]
           w == e.thread
<1>0. /\ cursor \in DOMAIN waiting /\ pc[t] = "setting" /\ Satisfied(e.req, flags)
      /\ outBits' = [outBits EXCEPT ![w] = flags]
      /\ flags' = Cleared(e.req, flags)
      /\ status' = [status EXCEPT ![w] = "run"]
      /\ waiting' = RemoveAt(waiting, cursor)
      /\ UNCHANGED <<registered, lock, cursor, canceled, pc, request, outcome>>
  BY DEF SetWake
<1>1. /\ w \in Threads /\ e.req = request[w]
      /\ status[w] = "wait" /\ pc[w] = "asleep" /\ w \in Sleepers(waiting)
  BY <1>0, CursorSleeps DEF Sleepers
<1>2. /\ waiting \in Seq(Entry) /\ Distinct(waiting) /\ Ordered(waiting)
      /\ cursor \in 1..Len(waiting)
  BY <1>0 DEF IInv, TypeOK, QueueMatchesStatus
<1>3. waiting' = Erase(waiting, w)
  BY <1>0, <1>2, RemoveAtIsErase
<1>4. /\ waiting' \in Seq(Entry) /\ Len(waiting') = Len(waiting) - 1
      /\ \A j \in 1..(Len(waiting) - 1) :
           waiting'[j] = IF j < cursor THEN waiting[j] ELSE waiting[j + 1]
  BY <1>0, <1>2, RemoveAtPositions
<1>5. /\ Distinct(waiting') /\ Ordered(waiting')
      /\ ToSet(waiting') = {x \in ToSet(waiting) : x.thread # w}
  <2> HIDE DEF w
  <2> QED
    BY <1>1, <1>2, <1>3, EraseContents
<1>6. QueueMatchesStatus'
  <2> HIDE DEF w
  <2> QED
    BY <1>0, <1>1, <1>5, Dequeue
<1>7. Ordered(waiting)'
  BY <1>5 DEF Ordered, Rank
<1>8. flags' \subseteq flags
  BY <1>0, ClearedSubset
<1>9. TypeOK'
  <2>1. cursor' \in 0..(Len(waiting') + 1)
    BY <1>0, <1>2, <1>4
  <2>2. flags' \in SUBSET Bits /\ outBits' \in [Threads -> SUBSET Bits]
    BY <1>0, <1>1, <1>8 DEF IInv, TypeOK
  <2>3. status' \in [Threads -> {"run", "wait"}]
    BY <1>0, <1>1 DEF IInv, TypeOK
  <2> QED
    BY <1>0, <1>4, <2>1, <2>2, <2>3 DEF IInv, TypeOK
<1>10. LockHolder'
  BY <1>0 DEF IInv, LockHolder
<1>11. LookedAt'
  <2>1. lock = t /\ lock # NoThread
    BY <1>0 DEF IInv, LockHolder
  <2>2. ASSUME NEW i \in DOMAIN waiting', i < cursor
        PROVE  ~Satisfied(waiting'[i].req, flags')
    <3>1. i \in DOMAIN waiting /\ waiting'[i] = waiting[i]
      BY <1>2, <1>4, <2>2
    <3>2. ~Satisfied(waiting[i].req, flags)
      BY <2>2, <3>1 DEF IInv, LookedAt
    <3> QED
      BY <1>8, <3>1, <3>2, SatisfiedMonotone
  <2> QED
    BY <1>0, <2>1, <2>2 DEF LookedAt
<1>12. NoOutcomeYet'
  BY <1>0 DEF IInv, NoOutcomeYet
<1>13. OutBitsSatisfy'
  <2>1. Satisfied(request'[w], outBits'[w])
    BY <1>0, <1>1 DEF IInv, TypeOK
  <2>2. ASSUME NEW u \in Threads, u # w, Answered(u)'
        PROVE  Satisfied(request'[u], outBits'[u])
    <3>1. Answered(u) /\ outBits'[u] = outBits[u] /\ request'[u] = request[u]
      BY <1>0, <1>1, <2>2 DEF Answered, IInv, TypeOK
    <3> QED
      BY <3>1 DEF IInv, OutBitsSatisfy
  <2> QED
    BY <2>1, <2>2 DEF OutBitsSatisfy
<1> QED
  BY <1>6, <1>7, <1>9, <1>10, <1>11, <1>12, <1>13 DEF IInv

LEMMA SetSkipKeepsIInv ==
  ASSUME IInv, NEW t \in Threads, SetSkip(t)
  PROVE  IInv'
<1> USE EventFlagAssumption DEF SetSkip, told
<1>0. cursor \in 1..Len(waiting) /\ lock = t /\ lock # NoThread
  BY DEF IInv, TypeOK, LockHolder
<1>1. QueueMatchesStatus' /\ Ordered(waiting)'
  BY DEF IInv, QueueMatchesStatus, Distinct, Sleepers, ToSet, Ordered, Rank
<1>2. TypeOK'
  <2>1. cursor' \in 0..(Len(waiting') + 1)
    BY <1>0 DEF IInv, TypeOK
  <2> QED
    BY <2>1 DEF IInv, TypeOK
<1>3. LockHolder'
  BY <1>0 DEF IInv, LockHolder
<1>4. LookedAt'
  BY <1>0 DEF IInv, TypeOK, LookedAt
<1>5. OutBitsSatisfy' /\ NoOutcomeYet'
  BY DEF IInv, OutBitsSatisfy, Answered, NoOutcomeYet
<1> QED
  BY <1>1, <1>2, <1>3, <1>4, <1>5 DEF IInv

(* When a walk ends, it has passed every sleeper.                           *)
LEMMA SetDoneKeepsIInv ==
  ASSUME IInv, NEW t \in Threads, SetDone(t)
  PROVE  IInv'
<1> USE EventFlagAssumption DEF SetDone, Goto, told
<1>1. /\ waiting \in Seq(Entry) /\ Len(waiting) \in Nat /\ cursor \in Nat
      /\ DOMAIN waiting = 1..Len(waiting)
  BY DEF IInv, TypeOK
<1>2. lock = t /\ lock # NoThread /\ cursor >= 1
  BY <1>1 DEF IInv, LockHolder
<1>3. status[t] = "run"
  BY DEF IInv, TypeOK, QueueMatchesStatus
<1>4. \A i \in DOMAIN waiting : i < cursor
  BY <1>1, <1>2
<1>5. QueueMatchesStatus' /\ Ordered(waiting)'
  BY <1>3, QuietQueue DEF IInv, TypeOK
<1>6. TypeOK'
  <2>1. cursor' \in 0..(Len(waiting') + 1)
    BY <1>1
  <2> QED
    BY <2>1 DEF IInv, TypeOK
<1>7. LockHolder'
  BY <1>2 DEF IInv, TypeOK, LockHolder
<1>8. LookedAt'
  BY <1>4 DEF IInv, LookedAt
<1>9. OutBitsSatisfy' /\ NoOutcomeYet'
  BY DEF IInv, TypeOK, OutBitsSatisfy, Answered, NoOutcomeYet
<1> QED
  BY <1>5, <1>6, <1>7, <1>8, <1>9 DEF IInv

LEMMA ClearKeepsIInv ==
  ASSUME IInv, NEW t \in Threads, NEW bits \in SUBSET Bits, Clear(t, bits)
  PROVE  IInv'
<1> USE EventFlagAssumption DEF Clear, Goto, told
<1>0. status[t] = "run" /\ flags' \subseteq flags
  BY DEF IInv, TypeOK, QueueMatchesStatus
<1>1. QueueMatchesStatus' /\ Ordered(waiting)'
  BY <1>0, QuietQueue DEF IInv, TypeOK
<1>2. TypeOK'
  <2>1. flags' \in SUBSET Bits
    BY <1>0 DEF IInv, TypeOK
  <2> QED
    BY <2>1 DEF IInv, TypeOK
<1>3. LockHolder'
  BY DEF IInv, TypeOK, LockHolder
<1>4. LookedAt'
  BY <1>0, SatisfiedMonotone DEF IInv, LookedAt
<1>5. OutBitsSatisfy' /\ NoOutcomeYet'
  BY DEF IInv, TypeOK, OutBitsSatisfy, Answered, NoOutcomeYet
<1> QED
  BY <1>1, <1>2, <1>3, <1>4, <1>5 DEF IInv

LEMMA CancelKeepsIInv ==
  ASSUME IInv, NEW t \in Threads, NEW bits \in SUBSET Bits, Cancel(t, bits)
  PROVE  IInv'
<1> USE EventFlagAssumption DEF Cancel, Goto
<1>0. lock = NoThread /\ cursor = 0 /\ waiting' = <<>> /\ Sleepers(waiting) \subseteq Threads
  <2>1. Sleepers(waiting) \subseteq Threads
    BY EntriesOfThreads DEF IInv, TypeOK, Sleepers
  <2> QED
    BY <2>1 DEF IInv, LockHolder
<1>1. \A u \in Threads : status'[u] = "run"
  BY DEF IInv, TypeOK, QueueMatchesStatus
<1>2. QueueMatchesStatus' /\ Ordered(waiting)'
  BY <1>0, <1>1, EmptyQueue DEF QueueMatchesStatus, Ordered
<1>3. TypeOK'
  <2>1. waiting' \in Seq(Entry) /\ cursor' \in 0..(Len(waiting') + 1)
    BY <1>0, EmptySeq
  <2>2. canceled' \in SUBSET Threads /\ flags' \in SUBSET Bits
    BY <1>0 DEF IInv, TypeOK
  <2>3. status' \in [Threads -> {"run", "wait"}]
        /\ outBits' \in [Threads -> SUBSET Bits]
    BY DEF IInv, TypeOK
  <2> QED
    BY <2>1, <2>2, <2>3 DEF IInv, TypeOK
<1>4. LockHolder' /\ LookedAt'
  <2>1. LookedAt'
    BY <1>0 DEF LookedAt
  <2> QED
    BY <2>1 DEF IInv, TypeOK, LockHolder
<1>5. NoOutcomeYet'
  BY DEF IInv, TypeOK, NoOutcomeYet
<1>6. OutBitsSatisfy'
  <2>1. ASSUME NEW u \in Threads, Answered(u)'
        PROVE  Answered(u) /\ u \notin Sleepers(waiting)
    BY <2>1 DEF Answered, IInv, TypeOK, QueueMatchesStatus, NoOutcomeYet
  <2> QED
    BY <2>1 DEF IInv, OutBitsSatisfy
<1> QED
  BY <1>2, <1>3, <1>4, <1>5, <1>6 DEF IInv

-----------------------------------------------------------------------------
(* The specification                                                        *)

LEMMA StutterKeepsIInv ==
  ASSUME IInv, UNCHANGED vars
  PROVE  IInv'
<1> USE DEF vars, event, told
<1>1. TypeOK' /\ LockHolder' /\ LookedAt'
  BY DEF IInv, TypeOK, LockHolder, LookedAt
<1>2. QueueMatchesStatus' /\ Ordered(waiting)'
  BY DEF IInv, QueueMatchesStatus, Distinct, Sleepers, ToSet, Ordered, Rank
<1>3. OutBitsSatisfy' /\ NoOutcomeYet'
  BY DEF IInv, OutBitsSatisfy, Answered, NoOutcomeYet
<1> QED
  BY <1>1, <1>2, <1>3 DEF IInv

LEMMA GuestRequests ==
  [pattern : Patterns, wait : {"and", "or"}, clear : Clears] \subseteq Request
BY EventFlagAssumption DEF Request

LEMMA NextKeepsIInv == IInv /\ [Next]_vars => IInv'
<1> SUFFICES ASSUME IInv, [Next]_vars PROVE IInv'
  OBVIOUS
<1>1. CASE CreateEventFlag
  BY <1>1, CreateKeepsIInv
<1>2. ASSUME NEW t \in Threads,
             FindEventFlag(t) \/ WaitPass(t) \/ DeleteCheck(t) \/ DeleteErase(t)
      PROVE  IInv'
  BY <1>2, FindKeepsIInv, QuietCallKeepsIInv
<1>3. ASSUME NEW t \in Threads, Woken(t) \/ TimeOut(t)
      PROVE  IInv'
  BY <1>3, WokenKeepsIInv, TimeOutKeepsIInv
<1>4. ASSUME NEW t \in Threads, NEW r \in Request,
             WaitTake(t, r) \/ WaitSleep(t, r) \/ WaitPoll(t, r)
      PROVE  IInv'
  BY <1>4, WaitTakeKeepsIInv, WaitSleepKeepsIInv
<1>5. ASSUME NEW t \in Threads, SetWalk(t)
      PROVE  IInv'
  BY <1>5, SetWakeKeepsIInv, SetSkipKeepsIInv, SetDoneKeepsIInv DEF SetWalk
<1>6. ASSUME NEW t \in Threads, NEW bits \in SUBSET Bits,
             SetStart(t, bits) \/ Clear(t, bits) \/ Cancel(t, bits)
      PROVE  IInv'
  BY <1>6, SetStartKeepsIInv, ClearKeepsIInv, CancelKeepsIInv
<1>7. CASE UNCHANGED vars
  BY <1>7, StutterKeepsIInv
<1>8. ASSUME NEW t \in Threads, Wait(t)
      PROVE  IInv'
  BY <1>8, <1>2, <1>3, <1>4, GuestRequests DEF Wait
<1>9. Patterns \subseteq SUBSET Bits
  BY EventFlagAssumption
<1>10. ASSUME NEW t \in Threads, Set(t)
       PROVE  IInv'
  BY <1>10, <1>5, <1>6, <1>9 DEF Set
<1> QED
  BY <1>1, <1>2, <1>6, <1>7, <1>8, <1>9, <1>10 DEF Next

THEOREM EventFlagInvariant == Spec => []IInv
<1> QED
  BY InitIInv, NextKeepsIInv, PTL DEF Spec

(* The event flag's variables have their types in every reachable state.    *)
THEOREM EventFlagTypeCorrect == Spec => []TypeOK
<1>1. IInv => TypeOK
  BY DEF IInv
<1> QED
  BY <1>1, EventFlagInvariant, PTL

(* A thread sleeps in the event flag exactly while it is queued, once, with *)
(* the request it made, for any number of threads, sets and time-outs.      *)
THEOREM EventFlagQueueRight == Spec => []QueueMatchesStatus
<1>1. IInv => QueueMatchesStatus
  BY DEF IInv
<1> QED
  BY <1>1, EventFlagInvariant, PTL

(* eventflag_set looks at each sleeper once and loses no wake-up: between   *)
(* calls nobody sleeps whom the flags satisfy.                              *)
THEOREM EventFlagLosesNoWakeup == Spec => []NoneSatisfiedAsleep
<1>1. IInv => NoneSatisfiedAsleep
  BY DEF IInv, LookedAt, NoneSatisfiedAsleep
<1> QED
  BY <1>1, EventFlagInvariant, PTL

(* What a successful wait hands to the guest satisfies what it asked for.   *)
THEOREM EventFlagAnswersSatisfy == Spec => []OutBitsSatisfy
<1>1. IInv => OutBitsSatisfy
  BY DEF IInv
<1> QED
  BY <1>1, EventFlagInvariant, PTL

(* The walk wakes the sleeper at its iterator: those before it were not     *)
(* satisfied, those behind it are not more urgent.                          *)
LEMMA SetWakeServes ==
  ASSUME IInv, NEW w \in Threads, SetWake(w)
  PROVE  ServesMostUrgent
<1> DEFINE e == waiting[cursor]
<1>1. /\ cursor \in DOMAIN waiting /\ pc[w] = "setting" /\ lock # NoThread
      /\ status' = [status EXCEPT ![e.thread] = "run"]
  BY EventFlagAssumption DEF SetWake, IInv, LockHolder
<1>2. /\ waiting \in Seq(Entry) /\ Distinct(waiting) /\ Ordered(waiting)
      /\ DOMAIN waiting = 1..Len(waiting)
      /\ status \in [Threads -> {"run", "wait"}]
  BY DEF IInv, TypeOK, QueueMatchesStatus
<1>3. e.thread \in Threads
  BY <1>1, CursorSleeps
<1> SUFFICES ASSUME NEW t \in Threads, NEW u \in Threads,
                    status[t] = "wait", status'[t] = "run",
                    status[u] = "wait", status'[u] = "wait", Rank(u) < Rank(t)
             PROVE  ~Satisfied(request[u], flags)
  BY DEF ServesMostUrgent
<1>4. t = e.thread
  BY <1>1, <1>2, <1>3
<1>5. [thread |-> u, req |-> request[u]] \in ToSet(waiting)
  BY DEF IInv, QueueMatchesStatus
<1>6. PICK j \in DOMAIN waiting : waiting[j] = [thread |-> u, req |-> request[u]]
  BY <1>5 DEF ToSet
<1>7. waiting[j].thread = u /\ waiting[j].req = request[u]
  BY <1>6
<1>8. Rank(u) \in Int /\ Rank(t) \in Int
  BY QueueAssumption DEF Rank
<1>9. ~(cursor < j)
  BY <1>1, <1>4, <1>7, <1>2, <1>8 DEF Ordered
<1>10. j # cursor
  BY <1>4, <1>7, <1>8
<1>11. j < cursor
  BY <1>1, <1>2, <1>9, <1>10
<1> QED
  BY <1>7, <1>11 DEF IInv, LookedAt

(* Nothing else wakes a sleeper and leaves another asleep, except a time-   *)
(* out, which is the sleeper's own step.                                    *)
LEMMA NextServes == IInv /\ [Next]_vars => [ServesMostUrgent]_vars
<1> SUFFICES ASSUME IInv, Next PROVE ServesMostUrgent
  OBVIOUS
<1> USE DEF ServesMostUrgent
<1>0. status \in [Threads -> {"run", "wait"}] /\ pc \in [Threads ->
        {"idle", "found", "passed", "asleep", "setting", "erasing"}]
  BY DEF IInv, TypeOK
<1>1. CASE status' = status
  BY <1>1, <1>0
<1>2. ASSUME NEW w \in Threads, SetWake(w) PROVE ServesMostUrgent
  BY <1>2, SetWakeServes
<1>3. ASSUME NEW w \in Threads, TimeOut(w) PROVE ServesMostUrgent
  BY <1>3, <1>0 DEF TimeOut, Goto
<1>4. ASSUME NEW w \in Threads, NEW r, WaitSleep(w, r) PROVE ServesMostUrgent
  BY <1>4, <1>0 DEF WaitSleep
<1>5. ASSUME NEW w \in Threads, NEW bits, Cancel(w, bits) PROVE ServesMostUrgent
  BY <1>5, <1>0 DEF Cancel, IInv, QueueMatchesStatus
<1>6. ASSUME NEW w \in Threads, Wait(w), status' # status PROVE ServesMostUrgent
  BY <1>3, <1>4, <1>6
     DEF Wait, WaitPass, WaitTake, WaitPoll, Woken
<1>7. ASSUME NEW w \in Threads, Set(w), status' # status PROVE ServesMostUrgent
  BY <1>2, <1>7 DEF Set, SetStart, SetWalk, SetSkip, SetDone
<1> QED
  BY <1>1, <1>5, <1>6, <1>7
     DEF Next, CreateEventFlag, FindEventFlag, Clear, DeleteCheck, DeleteErase

(* Bits go to the most urgent sleeper they satisfy.                         *)
THEOREM EventFlagServesMostUrgent == Spec => WakeMostUrgent
<1> QED
  BY EventFlagInvariant, NextServes, PTL DEF Spec, WakeMostUrgent
=============================================================================
