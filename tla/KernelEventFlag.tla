---------------------------- MODULE KernelEventFlag ----------------------------
(***************************************************************************)
(* One event flag (sync_primitives.cpp, struct EventFlag): a word of bits, *)
(* the threads that wait for all or any of some of them, and those that    *)
(* set, clear and cancel.  A word is the set of its bits.                  *)
(*                                                                         *)
(* eventflag_set walks through the queue with EventFlag::mutex held; a     *)
(* step of the walk is one sleeper, because what one takes away the next   *)
(* does not find.                                                          *)
(***************************************************************************)
EXTENDS WaitQueue

CONSTANTS
  NoThread,   (* EventFlag::mutex is free                                   *)
  Bits,       (* the bits of the word                                       *)
  InitFlags,  (* initPattern                                                *)
  Multi,      (* attr & 0x1000: several threads may wait                    *)
  Timed,      (* threads whose waits pass a timeout                         *)
  Waiters,    (* threads that may call eventflag_wait and eventflag_poll    *)
  Clearers,   (* threads that may call eventflag_clear                      *)
  Cancelers,  (* threads that may call eventflag_cancel                     *)
  Deleters,   (* threads that may call eventflag_delete                     *)
  Patterns,   (* the bit patterns guests pass                               *)
  Clears      (* the clear modes guests pass: see ClearModes                *)

(* WAITCLEAR, WAITCLEAR_PAT or neither; both is the same as the first.      *)
ClearModes == {"all", "pattern", "none"}

ASSUME EventFlagAssumption ==
  /\ NoThread \notin Threads
  /\ InitFlags \subseteq Bits /\ Multi \in BOOLEAN
  /\ Timed \subseteq Threads /\ Waiters \subseteq Threads
  /\ Clearers \subseteq Threads /\ Cancelers \subseteq Threads
  /\ Deleters \subseteq Threads
  /\ Patterns \subseteq SUBSET Bits /\ Clears \subseteq ClearModes

VARIABLES
  registered,  (* the uid is in kernel.eventflags                           *)
  flags,       (* EventFlag::flags                                          *)
  waiting,     (* EventFlag::waiting_threads                                *)
  lock,        (* who holds EventFlag::mutex between two steps              *)
  cursor,      (* the iterator of eventflag_set                             *)
  canceled,    (* threads whose was_canceled is set                         *)
  status,      (* ThreadState::status of each guest thread                  *)
  pc,          (* where each guest thread is inside a call                  *)
  request,     (* what each thread's current or last wait asked for         *)
  outBits,     (* what it was told the flags were                           *)
  outcome      (* how its last wait ended                                   *)

event == <<flags, waiting, lock, cursor, canceled>>
told == <<request, outBits, outcome>>
vars == <<registered, event, status, pc, told>>

Request == [pattern : SUBSET Bits, wait : {"and", "or"}, clear : ClearModes]
NoRequest == [pattern |-> {}, wait |-> "and", clear |-> "none"]
Entry == [thread : Threads, req : Request]

TypeOK ==
  /\ registered \in BOOLEAN
  /\ flags \in SUBSET Bits
  /\ waiting \in Seq(Entry)
  /\ lock \in Threads \cup {NoThread}
  /\ cursor \in 0..(Len(waiting) + 1)
  /\ canceled \in SUBSET Threads
  /\ status \in [Threads -> {"run", "wait"}]
  /\ pc \in [Threads -> {"idle", "found", "passed", "asleep", "setting", "erasing"}]
  /\ request \in [Threads -> Request]
  /\ outBits \in [Threads -> SUBSET Bits]
  /\ outcome \in [Threads -> {"none", "ok", "timeout", "canceled"}]

Goto(t, label) == pc' = [pc EXCEPT ![t] = label]

(* SCE_EVENT_WAITOR: one of the bits; otherwise all of them.                *)
Satisfied(r, f) ==
  IF r.wait = "or" THEN r.pattern \cap f # {} ELSE r.pattern \subseteq f

(* What a satisfied wait leaves of the flags.                               *)
Cleared(r, f) ==
  IF r.clear = "all" THEN {} ELSE IF r.clear = "pattern" THEN f \ r.pattern ELSE f

-----------------------------------------------------------------------------
(* Creating and looking up                                                  *)

Init ==
  /\ registered = FALSE
  /\ flags = {} /\ waiting = <<>> /\ lock = NoThread /\ cursor = 0
  /\ canceled = {}
  /\ status = [t \in Threads |-> "run"]
  /\ pc = [t \in Threads |-> "idle"]
  /\ request = [t \in Threads |-> NoRequest]
  /\ outBits = [t \in Threads |-> {}]
  /\ outcome = [t \in Threads |-> "none"]

(* eventflag_create: a new object; the model follows one at a time.         *)
CreateEventFlag ==
  /\ ~registered /\ \A t \in Threads : pc[t] = "idle"
  /\ registered' = TRUE
  /\ flags' = InitFlags /\ waiting' = <<>>
  /\ UNCHANGED <<lock, cursor, canceled, status, pc, told>>

(* lock_and_find: from here the call holds a reference.  The answer to the  *)
(* thread's last wait is forgotten.                                         *)
FindEventFlag(t) ==
  /\ pc[t] = "idle" /\ registered
  /\ Goto(t, "found")
  /\ request' = [request EXCEPT ![t] = NoRequest]
  /\ outBits' = [outBits EXCEPT ![t] = {}]
  /\ outcome' = [outcome EXCEPT ![t] = "none"]
  /\ UNCHANGED <<registered, event, status>>

-----------------------------------------------------------------------------
(* eventflag_wait and eventflag_poll                                        *)

(* The size of the queue is read without the lock: EVF_MULTI, or go on.     *)
WaitPass(t) ==
  /\ pc[t] = "found" /\ t \in Waiters
  /\ Goto(t, IF Multi \/ waiting = <<>> THEN "passed" ELSE "idle")
  /\ UNCHANGED <<registered, event, status, told>>

(* The flags are right already.                                             *)
WaitTake(t, r) ==
  /\ pc[t] = "passed" /\ lock = NoThread /\ Satisfied(r, flags)
  /\ flags' = Cleared(r, flags)
  /\ request' = [request EXCEPT ![t] = r]
  /\ outBits' = [outBits EXCEPT ![t] = flags]
  /\ outcome' = [outcome EXCEPT ![t] = "ok"]
  /\ Goto(t, "idle")
  /\ UNCHANGED <<registered, waiting, lock, cursor, canceled, status>>

WaitSleep(t, r) ==
  /\ pc[t] = "passed" /\ lock = NoThread /\ ~Satisfied(r, flags)
  /\ status' = [status EXCEPT ![t] = "wait"]
  /\ waiting' = Push(waiting, [thread |-> t, req |-> r])
  /\ canceled' = canceled \ {t}
  /\ request' = [request EXCEPT ![t] = r]
  /\ outBits' = [outBits EXCEPT ![t] = flags]
  /\ Goto(t, "asleep")
  /\ UNCHANGED <<registered, flags, lock, cursor, outcome>>

(* EVF_COND from a poll, WAIT_TIMEOUT from a wait for no time.              *)
WaitPoll(t, r) ==
  /\ pc[t] = "passed" /\ lock = NoThread /\ ~Satisfied(r, flags)
  /\ outBits' = [outBits EXCEPT ![t] = flags]
  /\ Goto(t, "idle")
  /\ UNCHANGED <<registered, event, status, request, outcome>>

Woken(t) ==
  /\ pc[t] = "asleep" /\ status[t] = "run" /\ lock = NoThread
  /\ outcome' = [outcome EXCEPT ![t] = IF t \in canceled THEN "canceled" ELSE "ok"]
  /\ Goto(t, "idle")
  /\ UNCHANGED <<registered, event, status, request, outBits>>

TimeOut(t) ==
  /\ pc[t] = "asleep" /\ status[t] = "wait" /\ t \in Timed /\ lock = NoThread
  /\ status' = [status EXCEPT ![t] = "run"]
  /\ waiting' = Erase(waiting, t)
  /\ outBits' = [outBits EXCEPT ![t] = flags]
  /\ outcome' = [outcome EXCEPT ![t] = "timeout"]
  /\ Goto(t, "idle")
  /\ UNCHANGED <<registered, flags, lock, cursor, canceled, request>>

-----------------------------------------------------------------------------
(* eventflag_set                                                            *)

(* Mutant of SetStart: the walk begins behind the first sleeper.            *)
SetStartBehind(t, bits) ==
  /\ pc[t] = "found" /\ lock = NoThread
  /\ flags' = flags \cup bits
  /\ lock' = t /\ cursor' = 2
  /\ Goto(t, "setting")
  /\ UNCHANGED <<registered, waiting, canceled, status, told>>

(* The bits are set, and the walk begins.                                   *)
SetStart(t, bits) ==
  /\ pc[t] = "found" /\ lock = NoThread
  /\ flags' = flags \cup bits
  /\ lock' = t /\ cursor' = 1
  /\ Goto(t, "setting")
  /\ UNCHANGED <<registered, waiting, canceled, status, told>>

(* Mutant of SetWake: the sleeper is shown the flags it leaves.             *)
SetWakeAfterClear(t) ==
  /\ pc[t] = "setting" /\ cursor \in DOMAIN waiting
  /\ LET e == waiting[cursor]
     IN  /\ Satisfied(e.req, flags)
         /\ outBits' = [outBits EXCEPT ![e.thread] = Cleared(e.req, flags)]
         /\ flags' = Cleared(e.req, flags)
         /\ status' = [status EXCEPT ![e.thread] = "run"]
         /\ waiting' = RemoveAt(waiting, cursor)
  /\ UNCHANGED <<registered, lock, cursor, canceled, pc, request, outcome>>

(* The sleeper at the iterator is satisfied: it is shown the flags, takes   *)
(* what it clears, and is woken.                                            *)
SetWake(t) ==
  /\ pc[t] = "setting" /\ cursor \in DOMAIN waiting
  /\ LET e == waiting[cursor]
     IN  /\ Satisfied(e.req, flags)
         /\ outBits' = [outBits EXCEPT ![e.thread] = flags]
         /\ flags' = Cleared(e.req, flags)
         /\ status' = [status EXCEPT ![e.thread] = "run"]
         /\ waiting' = RemoveAt(waiting, cursor)
  /\ UNCHANGED <<registered, lock, cursor, canceled, pc, request, outcome>>

(* Otherwise it is left asleep.                                             *)
SetSkip(t) ==
  /\ pc[t] = "setting" /\ cursor \in DOMAIN waiting
  /\ ~Satisfied(waiting[cursor].req, flags)
  /\ cursor' = cursor + 1
  /\ UNCHANGED <<registered, flags, waiting, lock, canceled, status, pc, told>>

(* Mutant of SetDone: the walk ends with the first sleeper left asleep.     *)
SetDoneEarly(t) ==
  /\ pc[t] = "setting"
  /\ cursor > 1 \/ cursor \notin DOMAIN waiting
  /\ lock' = NoThread /\ cursor' = 0 /\ Goto(t, "idle")
  /\ UNCHANGED <<registered, flags, waiting, canceled, status, told>>

SetDone(t) ==
  /\ pc[t] = "setting" /\ cursor \notin DOMAIN waiting
  /\ lock' = NoThread /\ cursor' = 0 /\ Goto(t, "idle")
  /\ UNCHANGED <<registered, flags, waiting, canceled, status, told>>

-----------------------------------------------------------------------------
(* eventflag_clear, eventflag_cancel, eventflag_delete                      *)

(* The pattern names the bits that stay.                                    *)
Clear(t, bits) ==
  /\ pc[t] = "found" /\ lock = NoThread /\ t \in Clearers
  /\ flags' = flags \cap bits
  /\ Goto(t, "idle")
  /\ UNCHANGED <<registered, waiting, lock, cursor, canceled, status, told>>

(* Everybody is woken and shown the new flags, under one hold of the lock.  *)
Cancel(t, bits) ==
  /\ pc[t] = "found" /\ lock = NoThread /\ t \in Cancelers
  /\ flags' = bits /\ waiting' = <<>>
  /\ canceled' = canceled \cup Sleepers(waiting)
  /\ status' = [u \in Threads |->
                  IF u \in Sleepers(waiting) THEN "run" ELSE status[u]]
  /\ outBits' = [u \in Threads |->
                   IF u \in Sleepers(waiting) THEN bits ELSE outBits[u]]
  /\ Goto(t, "idle")
  /\ UNCHANGED <<registered, lock, cursor, request, outcome>>

(* The queue is looked at without the lock.                                 *)
DeleteCheck(t) ==
  /\ pc[t] = "found" /\ t \in Deleters
  /\ Goto(t, IF waiting = <<>> THEN "erasing" ELSE "idle")
  /\ UNCHANGED <<registered, event, status, told>>

DeleteErase(t) ==
  /\ pc[t] = "erasing"
  /\ registered' = FALSE /\ Goto(t, "idle")
  /\ UNCHANGED <<event, status, told>>

-----------------------------------------------------------------------------
Wait(t) ==
  \/ WaitPass(t) \/ Woken(t) \/ TimeOut(t)
  \/ \E r \in [pattern : Patterns, wait : {"and", "or"}, clear : Clears] :
       WaitTake(t, r) \/ WaitSleep(t, r) \/ WaitPoll(t, r)

SetWalk(t) == SetWake(t) \/ SetSkip(t) \/ SetDone(t)
Set(t) == (\E bits \in Patterns : SetStart(t, bits)) \/ SetWalk(t)

Next ==
  \/ CreateEventFlag
  \/ \E t \in Threads :
       \/ FindEventFlag(t) \/ Wait(t) \/ Set(t)
       \/ \E bits \in Patterns : Clear(t, bits) \/ Cancel(t, bits)
       \/ DeleteCheck(t) \/ DeleteErase(t)

Spec == Init /\ [][Next]_vars

(* The host resumes whom it can, and guests that never wait go on setting   *)
(* all the bits.                                                            *)
Fairness ==
  /\ \A t \in Threads : SF_vars(Woken(t)) /\ WF_vars(SetWalk(t))
  /\ \A t \in Threads \ Waiters :
       WF_vars(FindEventFlag(t)) /\ SF_vars(SetStart(t, Bits))
FairSpec == Spec /\ Fairness

-----------------------------------------------------------------------------
(* Sleeping and being queued are one thing, with the request the sleeper    *)
(* made, through sets, cancels and time-outs.                               *)
QueueMatchesStatus ==
  /\ Distinct(waiting)
  /\ \A t \in Threads : status[t] = "wait" <=> t \in Sleepers(waiting)
  /\ \A t \in Threads :
       status[t] = "wait" =>
         pc[t] = "asleep" /\ [thread |-> t, req |-> request[t]] \in ToSet(waiting)

(* No lost wake-up: nobody sleeps whom the flags satisfy.  A walk looks at  *)
(* each sleeper once, although those after it may clear bits, and a clear   *)
(* looks at nobody.                                                         *)
NoneSatisfiedAsleep ==
  lock = NoThread =>
    \A i \in DOMAIN waiting : ~Satisfied(waiting[i].req, flags)

(* A wait that reports success tells the guest flags that satisfy it, also  *)
(* when others cleared, set or canceled before it returned.                 *)
Answered(t) ==
  \/ outcome[t] = "ok"
  \/ pc[t] = "asleep" /\ status[t] = "run" /\ t \notin canceled
OutBitsSatisfy ==
  \A t \in Threads : Answered(t) => Satisfied(request[t], outBits[t])

(* Bits are given to the most urgent: when a sleeper is woken by a set, no  *)
(* more urgent one sleeps that the same flags would have satisfied.         *)
ServesMostUrgent ==
  \A t, u \in Threads :
    /\ status[t] = "wait" /\ status'[t] = "run" /\ pc[t] = pc'[t]
    /\ status[u] = "wait" /\ status'[u] = "wait" /\ Rank(u) < Rank(t)
    => ~Satisfied(request[u], flags)
WakeMostUrgent == [][ServesMostUrgent]_vars

(* While somebody goes on setting all the bits, a sleeper that nobody is    *)
(* queued in front of returns.                                              *)
WaiterAnswered ==
  \A t \in NeverPassed : pc[t] = "asleep" ~> pc[t] = "idle" \/ ~registered
=============================================================================
