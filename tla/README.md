# VitaNS in TLA+: waiting, frames and memory

VitaNS runs PlayStation Vita programs on a Nintendo Switch. Guest threads are
host threads; everything they use to wait for each other is implemented by the
kernel of Vita3K (`src/Vita3K-Master/vita3k/kernel`). Around it host threads
keep the screen going: the vblank thread, the display thread and the renderer.
These modules specify that core and the page allocator of guest memory, TLC
checks them on small instances, and TLAPS proves all of what TLC checks but liveness, for
every number of threads, every assignment of priorities and every count.

## 1. Inventory

| Part | State it keeps | Operations | Talks to | Hard behaviour | What makes it correct |
|---|---|---|---|---|---|
| Wait queues (`thread_data_queue.h`) | FIFO list or priority multiset of sleepers | push, erase, begin, pop, find | every primitive | order of equals | the most urgent sleeper is first; one entry per sleeper |
| Mutex, light and heavy (`sync_primitives.cpp` 541-804) | `lock_count`, `owner`, queue, work area in guest memory | create, lock, try_lock, unlock, delete | threads (status, status_cond) | hand-over against time-outs, polls, deletion | exclusion, no lost wake-up, work area names the holder, sleepers are served |
| Reader/writer lock (806-972) | state, owners map, queue | create, lock, unlock, delete | threads | walk through the queue, nesting | a writer is alone, readers are let in together, owners map right |
| Semaphore (978-1184) | `val`, `max`, queue | create, wait, signal, cancel, delete | threads | cancel and time-out during a wake-up | units conserved, value in range, waiters served |
| Condition variable (1190-1333) | queue, associated mutex | create, wait, signal (any, all, one thread), delete | a mutex, threads | unlock and sleep must be one step for signallers | no signal lost, mutex held on return |
| Event flag (1339-1610) | 32 bits, queue | create, wait, poll, set, clear, cancel, delete | threads | auto-clear between several waiters | a waiter sees a pattern that satisfied it |
| Message pipe (1616-1915) | ring buffer, two queues, deletion counters | create, send, receive, delete | threads, guest memory | two locks, partial transfers, time-outs | bytes kept, full transfers, sleepers return |
| Simple event, timer (121-540) | pattern, user data, start time | create, wait, poll, set, pulse, clear, delete; start, stop | threads, host clock | state read before the lock | no wake-up lost, old state restored by a pulse |
| Ring buffer (`byte_ring_buffer.h`) | cells, read and write position, full flag | insert, peek, remove | message pipe | wrap-around, full against empty | a queue of bytes |
| Thread (`thread.cpp`, `kernel.cpp`) | status, queue of threads waiting for its end, run loop | start, exit, exit-delete, suspend, resume, wait for end | every primitive, the CPU | pause against wait, locks of two threads at once | status changes only as expected, every waiter for the end returns |
| Export wrappers (`SceThreadmgr.cpp`) | none | pass arguments on | all above | `wait_thread_end` locks two threads | no deadlock |
| Host queue (`threads/queue.h`) | deque, limit, aborted flag, two condition variables | push, top, pop, wait_empty, abort, reset | GXM, renderer | abort and reset take no mutex | a bounded fifo; nobody oversleeps |
| GXM display pipeline (`SceGxm.cpp`, `renderer/src/sync.cpp`, `batch.cpp`) | display queue, sync objects (three time stamps each), command queue | BeginScene, EndScene, transfers, DisplayQueueAddEntry, Finish, Terminate | guest threads, renderer, fence thread, display thread, a guest thread for the callback | four kinds of threads and two bounded queues, each waiting for the next | a buffer is neither shown nor drawn to too early; everything asked for is done |
| Display clock (`display.cpp`, `SceDisplay.cpp`) | vblank count, waiting threads, callbacks | the vblank thread; waits since the last wait or the last frame, with callbacks or without | threads, callbacks, touch | counts read without a lock | waits are as long as asked; whoever waits is woken |
| Callbacks of threads (`callback.cpp`) | number of notifications | create, notify, cancel, delete, check | display, exports | notified while it runs | no notification is lost |
| Touch (`touch.cpp`) | a ring of samples, the count of the last read | sample per vblank, read, peek | vblank thread | ring and clock read without a lock | consecutive samples, as new as waited for |
| Guest memory (`mem.cpp`, `allocator.cpp`, `SceSysmem.cpp`) | bitmap of free pages, table of blocks, memory blocks | alloc, aligned alloc, free, memory blocks | C library, SceSysmem, GXM, threads | two structures kept in step by hand | blocks apart, nothing lost, refused only when full |
| Protection of pages (`mem.cpp` 240-440) | tree of protected regions | protect, fault, open and close access | renderer's caches | changed while it is walked, by a fault handler | every write to a cached page is seen |
| Port: kernel objects (`firmware/kernel.cpp`) | object table, ids | register, create, terminate process | managers | a lock taken twice | an object per id |
| Port: memory managers (`firmware/memory.cpp`, `memory_manager.cpp`) | blocks, mappings | allocate, free, map, read, write | CPU | nested locking, totals | blocks disjoint, totals right |
| Port: power manager (`scePower.cpp`) | battery state, callbacks, worker thread | initialize, terminate, callbacks, events | a worker, guest callbacks | join and callbacks under a lock | terminate ends, callbacks may call back |
| Port: audio, input, camera, community workers | a worker thread each | start, stop | - | as the power manager | as the power manager |
| Port: emulator life cycle (`emulator.cpp`) | state | initialize, load, run, stop | all managers | failures half-way | only legal state changes |
| CPU, drawing, audio, ngs, GUI, loaders, packages | data | translation, drawing, parsing | - | - | not about interleavings; not modelled |
| `src/Mesa` | - | - | - | vendored | not modelled |

The parts meet in one object: `ThreadState`, with a status (`run`, `wait`, ...),
a lock and a condition variable `status_cond`. A thread falls asleep in a
primitive by setting its status to `wait`, putting itself into the primitive's
queue and blocking on `status_cond` **with the primitive's lock**
(`handle_timeout`); whoever wakes it takes it out of the queue and sets its
status to `run` with the same lock held. So for these primitives no
notification can fall between the look at the status and the block. Message
pipes are written differently: the sleeper blocks with its own thread lock and
the waker holds only the pipe's; the run `msgpipe_wakeup` shows what that loses.
The vblank thread wakes its sleepers in the same way, with `display.mutex` only
(`display.cpp:71`); `DisplayVblank` has the same two steps (`Look`, `Block`) and loses
wake-ups in the same way, so its liveness property is about the list of waiters
and not about their return.

`PROJECT.json` lists the hazards, each at its line.

## 2. Modules

| Module | Models | Remarks |
|---|---|---|
| `WaitQueue` | the wait queues: `Push`, `Erase`, and words about queues (`Sleepers`, `Distinct`, `Ordered`, `NeverPassed`) | parameters: threads, priorities, FIFO or by priority |
| `KernelMutex` | one mutex and its callers | steps are the regions under `kernel.mutex` and under `Mutex::mutex` |
| `LockPromise` | what a mutex promises | counts of locks per thread, nothing else |
| `KernelSemaphore` | one semaphore and its callers | the wake-up loops of signal and cancel are one step per sleeper: each takes and leaves that thread's lock |
| `KernelRWLock` | one reader/writer lock and its callers | the walk through the queue is one step per sleeper |
| `ReadWritePromise` | what a reader/writer lock promises | |
| `KernelCondvar` | one condition variable with its mutex | extends `KernelMutex`: `condvar_wait` uses that module's unlock and lock actions, the mutex's own calls go on around it |
| `KernelEventFlag` | one event flag and its callers | a word is the set of its bits; the walk of `eventflag_set` is one step per sleeper, with `EventFlag::mutex` held; `eventflag_cancel` serves everybody alike and is one step |
| `KernelMsgPipe` | one message pipe and its callers | bytes counted; sleeping split into look, block, wake |
| `GuestThread` | all guest threads, the calls about them, and the host that pauses, resumes and closes the application | each turn of `run_loop` between taking and giving up `ThreadState::mutex` is a step; see below |
| `HostQueue` | `Queue<T>`: what happens between taking and releasing its mutex, and the sleeps inside | a part: parameters are callers and limit |
| `BoundedFifo` | what such a queue promises | |
| `GxmDisplay` | frames on their way from guest threads over the renderer and the display thread to the screen | uses `HostQueue` for the display queue; the renderer's queue as a bounded sequence |
| `FramePromise` | what sync objects promise about the order of the work on a buffer | |
| `KernelCallback` | notifications of callbacks | a part |
| `DisplayVblank` | the vblank thread and the guest threads that wait for it, read the touch screen and run callbacks | uses `KernelCallback` |
| `BitmapAllocator` | the bitmap of free pages and the scan for a run | operators only; recursion as recursive functions |
| `GuestMemory` | pages, table, and the calls of C library and SceSysmem | uses `BitmapAllocator` |
| `PagePool` | what the page allocator promises | |
| `WaitQueueTheorems`, `KernelMutexProofs` (mutex and condition variable), `KernelSemaphoreProofs`, `KernelRWLockProofs`, `KernelEventFlagProofs`, `KernelMsgPipeProofs`, `DisplayProofs` (`GxmDisplay` with `HostQueue`, `DisplayVblank` with `KernelCallback`), `GuestProofs` (`GuestThread`, and `GuestMemory` with `BitmapAllocator`) | proofs | see 5 |
| `MC*` | instances for TLC | threads as model values, priorities |

A variable has the name of the field it stands for where the code has one.
`status` is `ThreadState::status`. `pc` says where a guest thread is inside a
call; `held`, `credit`, `reads`, `writes`, `request`, `outBits`, `outcome` and
`moved` record what
calls reported to the guest, and the properties compare the kernel's state with
them. Each action is one region the code runs without being overtaken, with
all of its branches' effects; which lines it stands for is in `PROJECT.json`,
"map". An operator whose comment begins "Mutant of" is a wrong version of the
definition after it and no part of any specification.

### Abstractions, and why they are harmless

* One object at a time; a new one can be created when the last was deleted
  and nobody is inside a call. The objects share no state but thread status,
  and a thread sleeps in one primitive at a time. (A mutex and its condition
  variable are the exception.)
* Guest memory, names, attributes other than recursion and queue order, the
  remaining time written to `*timeout` and logging are left out.
* A time-out may happen whenever a thread with a time-out is asleep: real time
  is not modelled. `Timed` says which threads pass one. A time-out of zero
  (a poll) is an action of its own where it changes state.
* Counts are positive (`MutexAssumption`, `SemaphoreAssumption`): the kernel
  does not check what a guest passes, and for others it promises nothing.
* Suspending a sleeping thread, and ending one, change its status behind the
  primitives' back. `GuestThread` models that for sleepers of
  `sceKernelWaitThreadEnd`; the primitives are modelled without it.
* A 32-bit word is the set of its bits (event flags), a count of a pipe is its
  number of bytes; the counts that are bounded in TLC's instances are naturals
  in the proofs.
* Assertions are off in release builds; where one fails (`update_status`,
  message pipes) the models go on as the code does and a property says that it
  failed.

### The thread module

`pc` is where a guest thread's host thread is: in `run_loop` with its mutex
(`loop`), asleep on `something_to_do` (`asleep`), in guest code (`guest`),
between the two (`back`, `returned`), in a call about another thread, or ending.
`locked` holds the threads whose mutex is kept from one step to the next, which
is what `wait_thread_end` (waiter first, then target) and
`raise_waiting_threads` (own mutex kept, each waiter's taken) are about. `to_do`
is written by three kinds of code: by the thread in its loop, by others with
its mutex (`start`, `exit_delete`, `resume`) and by `suspend()` without it, so
`PauseLook` and `Suspend` are two steps. The host's three walks over
`kernel.threads` keep `kernel.mutex` throughout; `KernelFree` keeps every step
that needs that mutex out of them.

`suspend()` and `exit_delete()` also call `stop(*cpu)`, which ends `run()` in the
middle of guest code, with `call_level` as it was. When depends on the backend:
Unicorn stops at once, while Dynarmic's `stop()` sets a flag nobody reads
(`dynarmic_cpu.cpp:333-340`, `381-383`), so that a thread leaves its code at the
next call of the kernel. `GuestStops` is therefore a step a thread inside its code
may take at any time and need never take: it goes back to its loop, and a worker
that was paused in the middle of its code waits there with the code unfinished
(`BackInLoop` with `res` 0, lines 282-285). The end callback runs in a `run_loop` of
its own, with the same turns (`endcbLoop`, `endcb`, `endcbAsleep`): a thread
suspended before or during its callback sleeps and comes back to it.

What the module takes of guests, and leaves out: they do not start or delete a
thread that was asked to go (`deleted`), `Workers` are the threads whose code
comes to an end, and `Joins` says who may wait for whom, without circles. The
start callback counts as guest code and a cpu error as a return from it. The
debugger's breakpoints and single steps, `run_guest_function`,
`sceKernelSuspendThreadForVM` and spurious wake-ups of condition variables are
left out. Ids are not used again.

### The display modules

In `GxmDisplay` a guest thread's call goes from label to label (`pc`) wherever
another thread can come between: `AddEntry` reads the time stamps, `StampEntry`
counts them up, `Enqueue` pushes, `Submit` hands the command list to the
renderer. `host` is where `display_entry_thread` is, `vita` the guest thread that
runs the application's callback. `ahead`, `current` and `lastDisplay` are the three
time stamps of a sync object. `asked`, `begun` and `finished` are a history that the
code does not keep: for every buffer the order in which drawing and flips were
asked for, and how far each is. `FramePromise` is stated over that history alone,
so that it says what a user of the pipeline sees: no flip before the drawing asked
for earlier is finished, no drawing before the flips asked for earlier are.

Taken of the application: it uses one buffer from one thread at a time, as the
library requires (otherwise `sceGxmDisplayQueueAddEntry` hands out a time stamp
twice, `SceGxm.cpp:2057`), initializes once before it uses the queue, begins no call
after it has terminated (`Running`), and its display callback returns.
A second `sceGxmInitialize` after `sceGxmTerminate` is left out: the old display
thread may still be at work when the queue is reset. `accurate` chooses between
the two ways a signal goes (`sync.cpp:44`).

In `HostQueue` a caller is `outside`, about to sleep with the mutex held, or
asleep. The place in between exists because `abort()` takes no mutex: an abort
that comes there wakes nobody, and the caller falls asleep for good. That is
reachable (the display thread of an application that terminates), and no text of
the code denies it; `AllWorkDone` ends at the abort.

In `DisplayVblank` `step` is where a guest thread is and `want` what its call asked
for (its definitions have names of their own, so that one module can be about both
displays). The vblank thread counts, takes a sample (`TakeSample`, then
`AdvanceIndex`: a reader may come between), notifies callback after callback and
wakes the waiters. `owed` counts notifications that nobody has delivered or
cancelled, `slept` is the vblank a read has slept for. Left out: callbacks that
themselves wait or notify (they stop the clock: `execute` holds the callback's
mutex and the vblank thread `display.mutex`), a second port and peeks, and the
read of the ring while it is turned over completely.

### The memory module

Every entry point of `mem.cpp` holds `generation_mutex` from end to end, so a call
is a step; what is hard is the data. The bitmap is the set of its one bits, the
scan (`Finds`) a recursive function over positions: it stops at a run that is long
enough or goes on behind the bit that ended it, from the first bit of a word on, as
the code does. `Runs` counts the free bits ahead of each position, the inner loop. Addresses have as many bits as there are bytes, so sizes wrap
where `uint32_t` does. The size that a page of the table keeps after it was freed
is left out, except for the null page (`Vacant`): legal calls never read it again,
which is the third part of `PagesAccounted`. `PagePool` is refined with
`taken` as the allocated entries of the table and `answer` as a history variable.

## 3. Runs

Bounds: two or three guest threads (four for the semaphore), because every hand-over
needs an owner, one who is served and one who could have been served instead. The
thread module has two, a main thread and a worker it starts over and over
again: every race it is about is between one thread and one other, or the host.
Its safety is proved for any number of threads (section 5).
Counts go to 2, so that partial unlocks, partial service of a semaphore and
short transfers of a pipe happen. Time-outs, polls, a deleter and unequal
priorities (one urgent thread, the others equal) are in the same run unless the
table says otherwise. `MaxLockCount`, `MaxCount` and `MaxQueue` stop recursion,
owner counts and abandoned pipe entries.

The display runs have as few guests as their races need. `gxm_display`: one thread
that draws and waits for the display queue to drain (`Drainers`), one that presents
(`Presenters`), two buffers, a display queue of two entries
(`displayQueueMaxPendingCount` is 3), two command lists, and three pieces of work. Three
are few, so not everything happens in one behaviour, but each of these happens in
some: a buffer is drawn to, shown and drawn to again; one is drawn to while the
other is on show; two entries are queued, in the order in which they were
pushed, and a third waits for room beside a thread that waits for
emptiness, on one condition variable; the command queue is full and more is to be
submitted. Two threads that wait for room together do not occur in the run; the
proof is about any number of presenters. `display_vblank`: one thread
that waits and owns a callback, one that reads, three vblanks, a ring of three
samples; waits are for two vblanks, so that they can be too early and too late.
`guest_memory`: sixteen pages in four words, two regions that both reach the end
of memory, at most three blocks at a time, sizes that fill one page and
more, and alignments that leave nothing or a page in front:
runs of free pages begin in one word, end in another or at the last bit, and requests
are refused. `MaxWork`, `MaxOwed` and `MaxHeld` are bounds of the guests, not of the code.

| Run | Asks | Answer |
|---|---|---|
| `mutex` | a recursive light mutex with everything on | exclusion, no sleeper on a free mutex, the work area names the holder, most urgent first, `LockPromise` is implemented, sleepers are served |
| `semaphore` | units, stranding and service | all hold; a sleeper that could be served stays asleep only after a time-out of the head, which wakes nobody |
| `rwlock` | guests that do not hold both kinds at once | a writer is alone, no reader sleeps on a lock that readers hold once the walk is over, `ReadWritePromise` is implemented, readers that sleep are let in (writers may starve) |
| `condvar` | a condition variable and its recursive mutex: two wait, two signal, one deletes | a thread is in one queue at a time, the mutex stays right, a signal to all misses nobody who has let the mutex go, signalled threads return |
| `eventflag` | two bits; two waiters, for any or all of the bits and with every clear mode, one of which also clears, cancels and deletes; all three threads set | one walk serves everybody the flags satisfy, a wait that succeeds was shown flags that satisfy it, sleepers are answered |
| `msgpipe` | two receivers, a sender, time-outs, deletion, peeks | entries and sleepers without time-outs agree, MODE_FULL calls without a time-out are full, calls with one return |
| `msgpipe_wakeup` | does a receive without a time-out return when its bytes are there? | no: the notification can fall between look and block |
| `thread` | a main thread and a worker that is created, started, waited for, deleted and started again, returns, exits or exits and deletes itself, with an end callback; the host pauses, resumes and closes at any time | nobody is left waiting for a thread that has ended, who waits returns, a resume leaves nobody suspended |
| `gxm_display` | frames with and without the fence thread | `timestamp_current` never runs ahead of finished work, nobody oversleeps in the display queue of two entries, which refines `BoundedFifo`; the pipeline refines `FramePromise`; all work asked for is done unless the application terminates |
| `display_vblank` | waits in every form, notifications from vblank and guests, reads | waits end neither early nor late, notifications are kept, callbacks are notified before their thread wakes, samples are of consecutive vblanks and as new as the read waited for, who is listed is woken |
| `guest_memory` | every order of allocations and frees | bitmap, table and holders agree, holders are apart, `PagePool` is refined |
| `guest_memory_zero` | are two allocations ever given one address, which an assertion excludes? | yes: a request of no bytes takes no page and still marks one |

`CHECK_DEADLOCK FALSE` is set where all threads may legitimately be asleep, or
gone when the application is closed, or where a bound ends all calls.

What the primitives' models showed, and no run repeats. `mutex_delete` and
its like look at the queue without the object's lock (`sync_primitives.cpp:775`): a
thread can fall asleep between the look and the erase, on an object that no
longer has a name. A signal to any one waiter of a condition variable (1296)
runs the loop of a signal to all, against the comment in the header
(`sync_primitives.h:165`, "signal any one waiting thread"); `SignalReachesAll` speaks
of a signal to all only. A signal to a thread that is not in
the queue logs the thread's name (1292) without looking whether the
thread was found at all; the model's `SignalThread` is only of threads that exist. In the message pipe, a receive that timed out stays in the
queue (1767), and the next sender wakes a thread that is not waiting, which
`update_status` asserts against; after a time-out
the same thread may be queued twice, so a receive can finish with an entry
still queued, against the comment at line 1740 ("we've already
been erased by the sender"); a woken MODE_FULL call with a time-out does not
look at the buffer again (line 1771) and may report a short transfer as full;
`msgpipe_delete` (1896-1907) waits for as many threads as there are entries
while threads woken earlier, threads that timed out and threads about to block
make that number wrong, and spins for ever with the pipe's lock held.

What guests that nest the two kinds of a reader/writer lock break: the state
follows the last lock (line 865), so a thread that read-locks under its own
write lock lets other readers in beside its write lock. Owner counts, queue and
wake-ups stay right, which is proved for them too.

What the thread module showed, and no run repeats: `suspend()` may overwrite the
`remove` of a thread inside `sceKernelExitDeleteThread` (`thread.cpp:402`; the line
before asserts that it is to run), which then goes on with its program; the end
callback puts back
the `to_do` it saved and with it forgets a request to delete the thread
(`thread.cpp:213`); `exit_delete` notifies a thread only if its `to_do` is
`wait`, so one that was suspended before it ran (`thread.cpp:302`) sleeps on;
a thread that is started in the window between its own end and its erasure from
`kernel.threads` never runs, and who waits for it does not return; two threads
that wait for each other's end crosswise stop with their mutexes held, and a
host that then closes the application stops with them. The first three happen in
the `thread` run and break none of its properties; the last two are excluded by
`deleted` and by `Joins`.

What the display modules showed, and no run repeats: the display thread takes an
entry out of its queue before it runs the callback (`SceGxm.cpp:918`), and
`sceGxmTerminate` waits for an empty queue only, so it may remove the callback's
guest thread before or during the callback, although the comment above it says
"Make sure everything is done"; a
`displayQueueMaxPendingCount` of zero makes line 2655 wrap around, and the queue has
no limit (the assumption of the module takes at least one); a read of the touch screen that did not have to sleep
may come between the count and the sample and then repeats what the read before
it returned; a wait with callbacks that comes too late runs none
(`display.cpp:99`); a deleted callback stays registered for vblanks.

### Fairness

Every fair run assumes of the kernel only that the host scheduler runs a thread
that can run: weak fairness of the steps of a walk, of a woken thread's return
where no lock is needed, strong fairness where the return needs a host lock
that others keep taking. Of the guests it assumes what the property
names: whoever holds the lock gives it back (mutex, reader/writer lock), and
threads that never wait go on signalling (semaphore) or setting all the bits
(event flag), whoever holds a condition variable's mutex outside a wait
gives it back, and (threads) code that comes to an end comes to it, also if it
is suspended again and again, and the user resumes what he pauses or closes it.
A thread that calls a condition variable goes on with its call, strongly fair where
it needs a lock that others keep taking; what excuses a signalled thread that
does not return is only a thread asleep in `condvar_wait` which still holds
the mutex (recursion).
The walks of the host are strongly fair: a thread that keeps going round its loop
takes its mutex again and again, and a mutex that is free infinitely often is
given to the host in the end. A closed application owes nothing to anybody, so `JoinersReturn` and
`NobodyLeftSuspended` end there. No fairness is assumed of time-outs, except in the pipe, where
the host's timer ends a blocked wait.

In `GxmDisplay` every host thread, and every guest thread inside a call, is weakly
fair: what each waits for stays there until it has seen it (time stamps only
rise; the display queue's mutex is held for single steps). Fences pass and the
display callback returns. The application need do nothing: a scene that is never
ended has not asked for anything. In `DisplayVblank` the vblank
thread is strongly fair: all it waits for is a callback's mutex, which the
callback's owner may take again and again, and a mutex that is free infinitely often
is given to a waiting thread in the end. The callbacks' functions return; of the
guests' other steps nothing is assumed, for nobody else has to move to wake a listed thread.
Vblanks are bounded, so nothing is claimed of a
wait for a vblank that does not come: `ListedAreWoken` asks for the wake-up within the
instance's vblanks, and `DisplayWait` does not ask for later ones.

## 4. Mutants

Every property of a passing run is broken by a plausible bug in one definition
of the model (`PROJECT.json`, "mutants"): a hand-over to nobody, an unsorted
push, a signal with the newest stamp, a sample in the wrong slot, a block whose
size is not cut, and so on.

## 5. Proofs

Assumed: the ASSUMEs of the modules only (constants of the right kind, counts
at least one). For all sets of threads, priorities and bounds:

* `WaitQueueTheorems`: pushing adds one entry and keeps distinctness and order,
  erasing removes the thread's entry and keeps the rest and their order. These
  are facts about `Push`, which inserts after the last entry of the same rank,
  proved from the definition of `InsertAt` and `RemoveAt` by index arithmetic.
* `KernelMutexProofs`: type correctness, `MutualExclusion`, `HolderIsOwner`,
  `NoSleeperOnFree` with `QueueMatchesStatus` and `WokenOwns`,
  `WorkareaNamesHolder`, `WakeMostUrgent`, and that the mutex implements
  `LockPromise`. None of the properties is inductive alone: exclusion needs
  that a woken sleeper already owns the mutex, which needs that its entry
  carried the count it asked for, which needs that queue and status agree, which
  needs that a sleeper is not the owner. The inductive invariant `IInv` is
  their conjunction with `SleepersAsk` (who sleeps asked for at least one),
  `WaiterNotOwner`, `OwnerKnows` (the owner holds the mutex or has just been
  woken) and the order of the queue. `IInv` speaks of the status of threads
  asleep in the mutex only, so that it survives the steps of a condition variable
  around it; `AwakeOutside` adds the rest for a mutex on its own.
* `KernelMutexProofs`, second half: the condition variable. `CondTypeOK`,
  `OneQueueMatchesStatus`, `WaitersKeepMutexRight`, `NoSignalLost`, and that the
  mutex under a condition variable still implements `LockPromise`. The invariant
  `CondIInv` joins `IInv` with `CondSleepersRight` (the condition variable's queue
  holds exactly who sleeps in it, once each) and `StepsRight` (where a thread
  inside `condvar_wait` or a signal can be in the mutex, and that the lock of the
  condition variable is held from the unlock to the sleep, which is what
  `NoSignalLost` comes from). The mutex's own unlock and lock run inside a wait, so
  their lemmas (`UnlockKeepsIInv`, `MutexStepKeepsIInv`, `MutexStepMapsToPromise`) serve
  both specifications.
* `KernelSemaphoreProofs`: type correctness, `ValueInRange`,
  `QueueMatchesStatus`, `UnitsConserved`, and that only a time-out strands a waiter.
  The last needs the state between a signal's addition and the end of its loop: nobody
  at the head can be served unless a signal is under way. `UnitsConserved` is about
  a sum over the threads that are woken and not back yet. The sum is a
  recursion over sets, and what a recursion computes takes an induction: it is made
  as the search for a least counterexample (`Least`, from the library's
  `NatLessThanWellFounded`). Of sums it is shown that the function exists, that any
  element may be added last (`TotalWithout`) and that only the values at the
  elements matter (`TotalSame`); then each step starts a flight, ends one,
  or leaves all alone.

* `KernelRWLockProofs`: type correctness, `OwnersAsTold`, `FreeMeansEmpty`,
  `QueueMatchesStatus` and `WakeMostUrgent` for all guests, `ReadersNotStranded`,
  `WriterAlone` and that the lock implements `ReadWritePromise` for guests that do
  not nest. The walk writes a woken thread into the owners map as a new owner,
  which is right only if sleepers own nothing (`SleepersOwnNothing`); exclusion
  needs that the state tells the kind of every lock that is held or on its way
  to a woken thread (`KindsApart`), which is what nesting breaks.

* `KernelEventFlagProofs`: type correctness, `QueueMatchesStatus`, that
  between calls nobody sleeps whom the flags satisfy (`NoneSatisfiedAsleep`),
  that what a successful wait shows the guest satisfies it (`OutBitsSatisfy`),
  and `WakeMostUrgent`. The argument is about the iterator of a walk:
  `LookedAt` says that the sleepers before it are not satisfied by the flags as
  they are now. It survives because a sleeper that is served only takes bits
  away (`ClearedSubset`, `SatisfiedMonotone`) and removing the entry at the
  iterator leaves those before it where they are; when the walk ends the
  iterator has passed everybody.

* `KernelMsgPipeProofs`: type correctness, which says that the buffer is never
  filled beyond its capacity nor emptied below nothing, `QueuesMatchStatus` and
  `FullMeansFull` for threads without time-outs. `PipeInv` adds that such a thread
  is marked as waiting only from the push of its entry until it has seen the mark
  gone, and never expires (`StatusRight`), and that a call has no outcome while it
  runs (`CallsOpen`). A transfer erases one entry and moves those behind it:
  `ServedEntry` and `QueuedEntry` say what that does to the entries of one thread.
  Entries that time-outs leave behind may be anywhere, so both properties are about
  the others, with any number of threads that do time out around them.

* `DisplayProofs`, the pipeline: type correctness, `NobodyOversleeps`, that the display queue
  implements `BoundedFifo`, `CurrentIsProcessed`, and that the pipeline implements
  `FramePromise`, for any number of guests and buffers and any limits. The queue's own
  properties need that at most one caller is between its
  look and its sleep, and that nothing it looked for comes meanwhile.
  `NobodyOversleeps` says that who sleeps to push finds the queue full, for any
  limit, and who sleeps for emptiness finds it not empty; pushers and drainers share
  a condition variable, so it also needs that a sleeper there is in one of the
  calls that sleep there, and that a pusher's look saw no room (`PushersRight`). The order
  of frames needs what is in flight: `PipeInv` says of the renderer's pipe (what
  is left of the list it is at, the lists behind it, and the signals that
  wait for a fence) that each draw not yet begun is in it once, behind the wait
  for the flips asked for before it, and that each signal is behind its draw,
  in the order of the stamps; `CallsRight` says the same of what a call has in its
  hands, `FlipsRight` and `EntryRight` of entries in the display queue and with
  the display thread, `HistoryRight` of the logs, and `UsedApart` is what the
  application owes: one thread at a time between stamping a buffer and
  submitting its work. From these every wait the renderer or the
  display thread has passed tells that the work named by it is over.

* `DisplayProofs`, the clock: type correctness, `NotificationsKept`, `WaitsInTime`,
  `SamplesRight` and, of steps, `WaitsLongEnough` and `NotifiedBeforeWake`.
  `InfosRight` says that a listed thread waits, for what its call asked;
  `WaitsRight` that who waits and is listed no more has what it waited for, and
  that what a thread waited for last is over unless it waits for it now;
  `NotifiedSoFar` says how far the walk over the callbacks is, so that the
  wake-ups that follow find all of them done; `BuffersRight` says which vblank's
  sample each slot of the ring holds, before and after the index moves, by
  arithmetic modulo the number of slots; and `ReadRight` that a read asks for no
  more samples than there have been vblanks.

* `GuestProofs`, threads: type correctness; that a thread which has ended and raised
  who waited for it has an empty list (`EndedRight`), for any guests; and
  for guests with one manager (`OneManager`: at most one thread starts and deletes
  others, whoever waits for whom) that whoever is in a list of waiters sleeps there
  and the reverse (`JoinersAsleep`), and `NoJoinerOfEnded`. `LifeInv` holds what the first two
  need: an ending thread keeps its mutex until it has raised everybody, so nobody
  can enter its list between the last look and the end. `ManagedInv` adds that a
  thread found fit to be started is not running when it is (`StartsRight`) and
  that until the application is closed threads go only if they were asked to,
  and nobody starts them then (`DeletedRight`).

  `OneManager` is needed, and TLC showed it: with two threads that start others,
  one may pass the look of `sceKernelStartThread` at a thread which the other deletes; the
  thread goes, the start then marks it as running, and who waits for its end from
  then on waits for ever. `sceKernelStartThread` and `sceKernelDeleteThread` look at the
  status without the thread's mutex, so the code leaves this to its guests. The
  `thread` run has one manager.

* `GuestProofs`, memory: `PagesAccounted`, `HoldersApart`, `AddressesDiffer`, and that the
  allocator implements `PagePool`, for any number of pages, page and word size, and any
  set of ordinary requests. It begins with what the search computes, for every
  bitmap (`ScanFindsLowestRoom`): a recursive function is shown to exist by giving its
  values outright (`RunFrom`, `LowestFrom`), and to have them by its greatest
  counterexample (`Greatest`, from the library's `NatLessThanWellFounded`), the
  search going upwards. Then a call that succeeds is `Taking`, one that frees is
  `Giving`: one block, all of whose pages were free, more in the table, or one less.
  `MemoryInv` is `PagesAccounted` with `TableRight` (blocks lie in memory and have
  pages) and `HoldersRight` (an address handed out begins a block that is long enough,
  and no two begin the same). The arithmetic is that of rounding: room for size and
  alignment leaves size bytes wherever the aligned page falls in it (`WhereItGoes`), and
  rounding an address is rounding a page (`FirstPageAligned`).

  Two hypotheses say which requests: `OrdinaryRequests`, nobody asks for zero bytes or
  for so much that size, alignment and a page together wrap around (`uint32_t`
  sizes that near four gigabytes, which no application has); and, for the refinement,
  `AlignmentsMatchPages`, an alignment divides a page or is a number of whole
  pages, as powers of two do, since `PagePool` counts in pages. Without the first
  `AddressesDiffer` fails: that is the run `guest_memory_zero`. The instance of
  `guest_memory` satisfies both.

Some of the proved invariants (`HolderIsOwner`, `QueueMatchesStatus`, `ValueInRange`,
`OwnersAsTold`, `FreeMeansEmpty`, and `WakeMostUrgent` of the reader/writer lock and
the event flag) have no run of their own, since a proof says more; the runs
check what is deeper, and liveness.

Only model-checked: everything under fairness (`SleeperServed`, `WaiterServed`,
`ReaderServed`, `SignalledReturns`, `WaiterAnswered`, `TimedReturns`, `JoinersReturn`,
`NobodyLeftSuspended`, `AllWorkDone`, `ListedAreWoken`), which is out of the prover's
reach, as is ENABLED. Every invariant, every action property and every refinement that a
passing run checks is also a theorem, those about guest threads and guest memory under
the hypotheses named above.

The inductive invariants were themselves checked by TLC, on the runs' instances or
on ones close to them, before they were proved: `DisplayInv /\ FramesInv` on 2.0
million states, `VblankInv` on 3.7, `PipeInv` on 6.8 with three senders and both modes,
`LifeInv /\ ManagedInv` on 7.1 with three threads, `MemoryInv` on those of the run.
The counts of states are those of the models as they were then. They have no run of
their own, because each is about the proof and not about the code.

One proof changed a model. `condvar_wait` uses the mutex its condition variable was
created with, which stays that object when its name is deleted; `KernelCondvar`
once let a new mutex take its variables meanwhile, and the invariant did not hold.
Now a new mutex is created only when its predecessor's condition variable is out of
use, too (`MutexCall`). Two definitions were rewritten to be reasoned about, and TLC finds
them equal to what they were: the scan is split into `Runs` and `Finds`, and the lowest
bit of a size is said without powers of two (`LowestBit`).

## 6. Not modelled, and why

The components with status `not_modelled` in `PROJECT.json` carry their reason.
In short: the rest of Vita3K transforms data; the port's renderers, packages
and file system are sequential, and its managers are for the most part stubs that
return constants; Mesa is vendored. `alloc_at`, VM memory blocks and `best_fit` of
the page allocator, deferred contexts, notifications and queries of GXM, and frame prediction
are left out of the modules named after them.

## 7. Plan

Models to come:

1. The protection of pages: `add_protect`, the fault handler and open accesses on one
   tree of regions, with the texture cache as their client.
2. `KernelSimpleEvent` with the pulse that restores what it read before its
   lock, and the timer.
3. `ByteRing`, which implements a FIFO of bytes by refinement.
4. The port's power manager, as far as it is more than a stub.
