---------------------------- MODULE KernelMsgPipe ----------------------------
(***************************************************************************)
(* One kernel message pipe (sync_primitives.cpp, struct MsgPipe) and the   *)
(* guest threads that send, receive and delete it.  The bytes are counted, *)
(* not looked at (the ring buffer has a module of its own).                *)
(*                                                                         *)
(* Unlike the other primitives a pipe's sleeper waits on its status_cond   *)
(* with its own thread lock, while the threads that wake it hold only the  *)
(* pipe's.  So a sleeper goes through four steps: queued with the pipe     *)
(* unlocked ("queued"), status seen to be wait ("closing"), blocked, and   *)
(* woken.  A notification reaches it when it is blocked and is lost before.*)
(***************************************************************************)
EXTENDS WaitQueue

CONSTANTS
  NoThread,   (* MsgPipe::mutex is free                                     *)
  Capacity,   (* bufSize                                                    *)
  Receivers,  (* threads that may call msgpipe_recv                         *)
  Senders,    (* threads that may call msgpipe_send                         *)
  Deleters,   (* threads that may call msgpipe_delete                       *)
  Timed,      (* threads whose calls pass a timeout                         *)
  Sizes,      (* recvSize and sendSize arguments                            *)
  FullModes,  (* {TRUE}: MODE_FULL, {FALSE}: ASAP, or both                  *)
  KeepModes,  (* {TRUE}: MODE_DONT_REMOVE, {FALSE}: without it, or both     *)
  MaxQueue    (* bound: entries of a queue, which time-outs leave behind    *)

(* recv and send refuse sizes beyond the capacity (ILLEGAL_SIZE).           *)
ASSUME MsgPipeAssumption ==
  /\ NoThread \notin Threads
  /\ Capacity \in Nat \ {0} /\ Sizes \subseteq 1..Capacity
  /\ Receivers \subseteq Threads /\ Senders \subseteq Threads
  /\ Deleters \subseteq Threads /\ Timed \subseteq Threads
  /\ FullModes \subseteq BOOLEAN /\ KeepModes \subseteq BOOLEAN
  /\ MaxQueue \in Nat

VARIABLES
  registered,    (* the uid is in kernel.msgpipes                           *)
  used,          (* data_buffer.Used()                                      *)
  queue,         (* MsgPipe::receivers and MsgPipe::senders                 *)
  lock,          (* who holds MsgPipe::mutex between two steps              *)
  beingDeleted,  (* MsgPipe::beingDeleted                                   *)
  remaining,     (* MsgPipe::remainingThreads                               *)
  status,        (* ThreadState::status of each guest thread                *)
  pc,            (* where each guest thread is inside a call                *)
  call,          (* the arguments of each thread's current or last call     *)
  outcome,       (* how each thread's last call ended                       *)
  moved          (* the bytes it reported                                   *)

told == <<call, outcome, moved>>
pipe == <<used, queue, lock, beingDeleted, remaining>>
vars == <<registered, pipe, status, pc, told>>

Sides == {"recv", "send"}
Entry == [thread : Threads, size : Nat]
Call == [side : Sides, size : Nat, full : BOOLEAN, keep : BOOLEAN]

TypeOK ==
  /\ registered \in BOOLEAN
  /\ used \in 0..Capacity
  /\ queue \in [Sides -> Seq(Entry)]
  /\ lock \in Threads \cup {NoThread}
  /\ beingDeleted \in BOOLEAN
  /\ remaining \in Int
  /\ status \in [Threads -> {"run", "wait"}]
  /\ pc \in [Threads -> {"idle", "found", "queued", "closing", "blocked",
                         "woken", "expired", "relock", "deleting", "spinning",
                         "erasing"}]
  /\ call \in [Threads -> Call]
  /\ outcome \in [Threads -> {"none", "ok", "timeout", "deleted"}]
  /\ moved \in [Threads -> 0..Capacity]

Goto(t, label) == pc' = [pc EXCEPT ![t] = label]

-----------------------------------------------------------------------------
(* Creating and looking up                                                  *)

Init ==
  /\ registered = FALSE
  /\ used = 0 /\ queue = [s \in Sides |-> <<>>] /\ lock = NoThread
  /\ beingDeleted = FALSE /\ remaining = 0
  /\ status = [t \in Threads |-> "run"]
  /\ pc = [t \in Threads |-> "idle"]
  /\ call = [t \in Threads |->
               [side |-> "recv", size |-> 0, full |-> FALSE, keep |-> FALSE]]
  /\ outcome = [t \in Threads |-> "none"]
  /\ moved = [t \in Threads |-> 0]

(* msgpipe_create: a new object and uid; the model follows one at a time.   *)
CreateMsgPipe ==
  /\ ~registered /\ \A u \in Threads : pc[u] = "idle"
  /\ registered' = TRUE
  /\ used' = 0 /\ queue' = [s \in Sides |-> <<>>]
  /\ beingDeleted' = FALSE /\ remaining' = 0
  /\ UNCHANGED <<lock, status, pc, told>>

FindMsgPipe(t) ==
  /\ pc[t] = "idle" /\ registered
  /\ Goto(t, "found")
  /\ outcome' = [outcome EXCEPT ![t] = "none"]
  /\ moved' = [moved EXCEPT ![t] = 0]
  /\ UNCHANGED <<registered, pipe, status, call>>

-----------------------------------------------------------------------------
(* What receiving and sending share                                         *)

Other(side) == IF side = "recv" THEN "send" ELSE "recv"

(* Bytes to read for a receiver, room to write for a sender.                *)
Available(side, n) == IF side = "recv" THEN n ELSE Capacity - n

Enough(c) ==
  \/ Available(c.side, used) >= c.size
  \/ ~c.full /\ Available(c.side, used) >= 1

(* What a sleeper waits for: all of it, or one byte.                        *)
Request(c) == IF c.full THEN c.size ELSE 1

MayCall(t, c) ==
  /\ c.side = "recv" => t \in Receivers
  /\ c.side = "send" => t \in Senders /\ ~c.keep

(* The other side's first entry that can be served with n bytes in the pipe.*)
Servable(side, n, i) ==
  /\ i \in DOMAIN queue[side]
  /\ queue[side][i].size <= Available(side, n)
  /\ \A j \in 1..i - 1 : queue[side][j].size > Available(side, n)

(* Marking a set of threads as running and notifying them: who is blocked   *)
(* wakes up; t itself goes to "label".                                      *)
Notify(ts, t, label) ==
  /\ status' = [u \in Threads |-> IF u \in ts \cup {t} THEN "run" ELSE status[u]]
  /\ pc' = [u \in Threads |->
              IF u = t THEN label
              ELSE IF u \in ts /\ pc[u] = "blocked" THEN "woken" ELSE pc[u]]

(* Mutant of Transfer: the sleeper erases itself later, which it does not.  *)
TransferKeepingEntry(t, c) ==
  LET n     == IF c.size <= Available(c.side, used)
               THEN c.size ELSE Available(c.side, used)
      after == IF c.side = "send" THEN used + n
               ELSE IF c.keep THEN used ELSE used - n
      other == Other(c.side)
  IN  /\ used' = after
      /\ UNCHANGED queue
      /\ \/ /\ \A i \in DOMAIN queue[other] : ~Servable(other, after, i)
            /\ Notify({}, t, "idle")
         \/ \E i \in DOMAIN queue[other] :
              Servable(other, after, i) /\ Notify({queue[other][i].thread}, t, "idle")
      /\ call' = [call EXCEPT ![t] = c]
      /\ outcome' = [outcome EXCEPT ![t] = "ok"]
      /\ moved' = [moved EXCEPT ![t] = n]

(* Copy what can be copied, serve one sleeper of the other side, return.    *)
Transfer(t, c) ==
  LET n     == IF c.size <= Available(c.side, used)
               THEN c.size ELSE Available(c.side, used)
      after == IF c.side = "send" THEN used + n
               ELSE IF c.keep THEN used ELSE used - n
      other == Other(c.side)
  IN  /\ used' = after
      /\ \/ /\ \A i \in DOMAIN queue[other] : ~Servable(other, after, i)
            /\ UNCHANGED queue /\ Notify({}, t, "idle")
         \/ \E i \in DOMAIN queue[other] :
              /\ Servable(other, after, i)
              /\ queue' = [queue EXCEPT ![other] = RemoveAt(@, i)]
              /\ Notify({queue[other][i].thread}, t, "idle")
      /\ call' = [call EXCEPT ![t] = c]
      /\ outcome' = [outcome EXCEPT ![t] = "ok"]
      /\ moved' = [moved EXCEPT ![t] = n]

-----------------------------------------------------------------------------
(* msgpipe_recv and msgpipe_send, up to the first wait                      *)

Entering(t, c) ==
  pc[t] = "found" /\ lock = NoThread /\ ~beingDeleted /\ MayCall(t, c)

TransferAtOnce(t, c) ==
  /\ Entering(t, c) /\ Enough(c)
  /\ Transfer(t, c)
  /\ UNCHANGED <<registered, lock, beingDeleted, remaining>>

(* MODE_DONT_WAIT (0 bytes), or UNKNOWN_MSG_PIPE_ID from a pipe that is     *)
(* being deleted.                                                           *)
TransferNothing(t, c) ==
  /\ pc[t] = "found" /\ lock = NoThread /\ MayCall(t, c)
  /\ beingDeleted \/ ~Enough(c)
  /\ Goto(t, "idle")
  /\ UNCHANGED <<registered, pipe, status, told>>

(* Senders do not queue by priority.                                        *)
Sleep(t, c) ==
  /\ Entering(t, c) /\ ~Enough(c)
  /\ Len(queue[c.side]) < MaxQueue
  /\ queue' = [queue EXCEPT ![c.side] =
       IF c.side = "recv" THEN Push(@, [thread |-> t, size |-> Request(c)])
       ELSE Append(@, [thread |-> t, size |-> Request(c)])]
  /\ status' = [status EXCEPT ![t] = "wait"]
  /\ call' = [call EXCEPT ![t] = c]
  /\ Goto(t, "queued")
  /\ UNCHANGED <<registered, used, lock, beingDeleted, remaining, outcome, moved>>

-----------------------------------------------------------------------------
(* Waiting on the thread's own condition variable                           *)

(* The predicate is looked at with the thread lock held.                    *)
SeeStatus(t) ==
  /\ pc[t] = "queued"
  /\ Goto(t, IF status[t] = "run" THEN "woken" ELSE "closing")
  /\ UNCHANGED <<registered, pipe, status, told>>

Block(t) ==
  /\ pc[t] = "closing"
  /\ Goto(t, "blocked")
  /\ UNCHANGED <<registered, pipe, status, told>>

(* Mutant of Expire: the timer only ends a wait nobody has answered.        *)
ExpireUnanswered(t) ==
  /\ pc[t] = "blocked" /\ t \in Timed /\ status[t] = "wait"
  /\ Goto(t, "expired")
  /\ UNCHANGED <<registered, pipe, status, told>>

(* The timeout: wait_for looks at the predicate once more.                  *)
Expire(t) ==
  /\ pc[t] = "blocked" /\ t \in Timed
  /\ Goto(t, IF status[t] = "run" THEN "woken" ELSE "expired")
  /\ UNCHANGED <<registered, pipe, status, told>>

(* WAIT_DELETE; beingDeleted is read without the pipe's lock.               *)
LeaveDeleted(t) ==
  /\ pc[t] \in {"woken", "expired"} /\ beingDeleted
  /\ remaining' = remaining - 1
  /\ outcome' = [outcome EXCEPT ![t] = "deleted"]
  /\ Goto(t, "idle")
  /\ UNCHANGED <<registered, used, queue, lock, beingDeleted, status, call, moved>>

(* WAIT_TIMEOUT: the entry stays in the queue.                              *)
LeaveTimedOut(t) ==
  /\ pc[t] = "expired" /\ ~beingDeleted
  /\ status' = [status EXCEPT ![t] = "run"]
  /\ outcome' = [outcome EXCEPT ![t] = "timeout"]
  /\ Goto(t, "idle")
  /\ UNCHANGED <<registered, pipe, call, moved>>

GoOn(t) ==
  /\ pc[t] = "woken" /\ ~beingDeleted
  /\ Goto(t, "relock")
  /\ UNCHANGED <<registered, pipe, status, told>>

(* Mutant of Finish: one look at the buffer is enough for everybody.        *)
FinishUnasked(t) ==
  /\ pc[t] = "relock" /\ lock = NoThread
  /\ Transfer(t, call[t])
  /\ UNCHANGED <<registered, lock, beingDeleted, remaining>>

(* With the pipe's lock again: a thread with a timeout takes what there is. *)
Finish(t) ==
  /\ pc[t] = "relock" /\ lock = NoThread
  /\ t \in Timed \/ Enough(call[t])
  /\ Transfer(t, call[t])
  /\ UNCHANGED <<registered, lock, beingDeleted, remaining>>

(* One without looks again, and waits again for a status that is run now.   *)
WaitAgain(t) ==
  /\ pc[t] = "relock" /\ lock = NoThread
  /\ t \notin Timed /\ ~Enough(call[t])
  /\ Goto(t, "queued")
  /\ UNCHANGED <<registered, pipe, status, told>>

-----------------------------------------------------------------------------
(* msgpipe_delete                                                           *)

(* The queues are looked at without the pipe's lock.                        *)
DeleteCheck(t) ==
  /\ pc[t] = "found" /\ t \in Deleters
  /\ Goto(t, IF \A s \in Sides : queue[s] = <<>> THEN "erasing" ELSE "deleting")
  /\ UNCHANGED <<registered, pipe, status, told>>

(* Count the entries, wake their threads; the entries stay.                 *)
DeleteWake(t) ==
  /\ pc[t] = "deleting" /\ lock = NoThread
  /\ lock' = t /\ beingDeleted' = TRUE
  /\ remaining' = Len(queue["send"]) + Len(queue["recv"])
  /\ Notify(Sleepers(queue["send"]) \cup Sleepers(queue["recv"]), t, "spinning")
  /\ UNCHANGED <<registered, used, queue, told>>

(* The busy loop, with the pipe's lock held.                                *)
DeleteDone(t) ==
  /\ pc[t] = "spinning" /\ remaining = 0
  /\ lock' = NoThread /\ Goto(t, "erasing")
  /\ UNCHANGED <<registered, used, queue, beingDeleted, remaining, status, told>>

DeleteErase(t) ==
  /\ pc[t] = "erasing"
  /\ registered' = FALSE /\ Goto(t, "idle")
  /\ UNCHANGED <<pipe, status, told>>

-----------------------------------------------------------------------------
Calls == [side : Sides, size : Sizes, full : FullModes, keep : KeepModes]

Enter(t) ==
  \E c \in Calls : TransferAtOnce(t, c) \/ TransferNothing(t, c) \/ Sleep(t, c)

Leave(t) == LeaveDeleted(t) \/ LeaveTimedOut(t) \/ Finish(t)

(* The steps of a call that fell asleep.                                    *)
Proceed(t) ==
  SeeStatus(t) \/ Block(t) \/ Expire(t) \/ GoOn(t) \/ WaitAgain(t) \/ Leave(t)

Delete(t) ==
  DeleteCheck(t) \/ DeleteWake(t) \/ DeleteDone(t) \/ DeleteErase(t)

Next ==
  \/ CreateMsgPipe
  \/ \E t \in Threads : FindMsgPipe(t) \/ Enter(t) \/ Proceed(t) \/ Delete(t)

Spec == Init /\ [][Next]_vars

(* The host runs every thread that can run, and its timers expire.          *)
Fairness ==
  \A t \in Threads : WF_vars(Proceed(t)) /\ WF_vars(DeleteDone(t))
FairSpec == Spec /\ Fairness

-----------------------------------------------------------------------------
Asleep(t) == pc[t] \in {"queued", "closing", "blocked", "woken", "relock"}

(* The status of a thread that passes no timeout is wait exactly while it   *)
(* has one entry in one of the two queues, whatever entries time-outs of    *)
(* others leave behind: the one who wakes it finds it waiting and leaves    *)
(* nothing behind.  (Deleting ends this: the threads are woken, the entries *)
(* stay.)                                                                   *)
QueuesMatchStatus ==
  ~beingDeleted =>
    \A t \in Threads \ Timed :
      /\ status[t] = "wait" <=> \E s \in Sides : t \in Sleepers(queue[s])
      /\ \A s, r \in Sides :
           \A i \in DOMAIN queue[s], j \in DOMAIN queue[r] :
             queue[s][i].thread = t /\ queue[r][j].thread = t => s = r /\ i = j

(* "loop forever until we can fill the buffer" (sync_primitives.cpp:1745,   *)
(* 1848): without a timeout a MODE_FULL call that reports success has moved *)
(* all the bytes it was asked to move, whoever else was served in between.  *)
FullMeansFull ==
  \A t \in Threads \ Timed :
    outcome[t] = "ok" /\ call[t].full => moved[t] = call[t].size

-----------------------------------------------------------------------------
(* A call with a timeout returns, whoever answers or does not answer it,    *)
(* and also when its notification came while it was about to block.  (Not   *)
(* from a pipe that is being deleted, whose lock may never be free again.)  *)
TimedReturns ==
  \A t \in Timed : Asleep(t) ~> pc[t] = "idle" \/ beingDeleted

(* "No timeout - loop forever until we can fill the buffer"                 *)
(* (sync_primitives.cpp:1745): with one receiver, a receive that sleeps     *)
(* while the bytes it asked for are there returns.                          *)
ReceiverReturns ==
  \A t \in Receivers :
    Asleep(t) /\ call[t].side = "recv" /\ Enough(call[t]) ~> pc[t] = "idle"
=============================================================================
