# libtx: a TLA+ verification project

libtx is a single-threaded event loop library: tasks, timers, I/O readiness and
small call stacks, all run from `tx_loop_main`. In the library nothing runs in
parallel with the loop (only the two netcat programs start threads); what is hard is
the order in which callbacks, pollers, the kernel and the clock act on shared lists,
flags and counters.

## Inventory

| Component | State | Operations | Hard behaviour | Module |
|---|---|---|---|---|
| Task loop (`tx_loop.cpp`, `tx_poll.cpp`) | run queue, wait queues, task flags, `tx_busy`, `tx_actives`, stop and break, holder | init, mark, active, drop, record, wakeup, break, stop, main, poll active | when may the loop sleep, fairness of a pass, stop | `TxLoop`, `TxQueue` |
| Lists (`libtx/queue.h`) | forward and back pointers | insert, remove, walk | stale pointers, one link for several lists | `TxList`, `TxTaskLists` |
| Task stack (`tx_loop.cpp`) | balls, top, user flags, result | push, pop0, pop1, raise, drop, active, callback | flags of nested frames, bounds | `TxStack`, `TxCallStack` |
| Timer ring (`tx_timer.cpp`, `tx_getticks`) | two wheels, far list, cached ticks; the ring's place in the run queue | reset, stop, polling, ring get and new | wrapping ticks, lag, stale ticks; deletion by its own poll | `TxTimer`, `TxRing` |
| Control blocks (`tx_aiocb.cpp`) | flags, one waiter per direction | init, active, cancel, connect, listen, fini | ready flag against waiter | `TxAiocb` |
| epoll (`tx_epoll.cpp`) | poll flags, reference count, kernel interest | attach, pollin, pollout, detach, polling | one-shot rearming, hangup, failures | `TxEpoll` |
| kqueue (`tx_kqueue.cpp`) | poll flags, reference count, filters | the same | failed `EV_ADD`, counting | `TxKqueue` |
| Completion port (`tx_completion_port.cpp`) | overlapped objects, their counts and accepted sockets | attach, sendout, connect, accept, pollin, pollout, detach, polling | completions after fini, failing AcceptEx, waiting without an operation | `TxPort` |
| netcat (`netcat.cpp`) | a buffer, offset and eof flag per direction | pipling, update_netcat, main | one task for four conditions, eof against data | `TxRelay` |
| Windows netcat (`netcat-win32.cpp`) | two buffers, packets in the port, threads | callback, WorkerThread, post | threads over one buffer, exit while blocked | `TxCatPort` |
| Platform, debug, options, examples | | | none | the tick counter and `pipe` only |

The timer and the I/O backends are pollers of the loop. They activate tasks; a
backend with armed descriptors holds the loop so that it blocks in the kernel.

## Models

* `TxQueue`: the `LIST_*` macros as sequences. `Unlink` on every list an element
  may be on is one `LIST_REMOVE`.
* `TxLoop`: one action per library call, made from user code (outside the loop or in
  a callback), and the phases of `tx_loop_main`: `LoopEnter`, `Rotate`, `Dispatch`,
  `Return`, `LoopExit`. `Phony` is the marker task that ends a pass. `tx_actives` never
  falls below 0 (`TypeOK`); it may count too much, since `tx_task_drop` leaves it alone.
* `TxStack`: one action per `tx_task_stack_*` function. Assertions of push, pop and
  raise are obligations of the caller and so guards. `tx_task_stack_active` is a plain
  `tx_task_active` and has none: if the application activates an empty stack, the callback
  fails its assertion. `bare` is a history variable that says so, and `FrameToCall` says
  that it is the only way there. `TxCallStack` says what the stack promises.
* `TxRing` extends `TxLoop`: one of the pollers is the timer ring, which is made by the
  first `tx_timer_ring_get`, found by its place in the run queue, and deletes itself
  when `tx_poll_active` leaves it idle. `rings` counts the rings in memory.
* `TxList`: the macros of `queue.h` on pointers (`cell` holds `lh_first` and `le_next`,
  `prev` holds `le_prev`), and the operations of `tx_loop.cpp` built from them.
  `TxTaskLists` states the same operations on sequences, which is how `TxLoop` sees
  them; both implement it. As in the code, where a `TX_CHECK` only logs it, a task that is
  pending on a wait queue may be activated; it is then unlinked from there. When the loop
  ends, and what it counts, is left to `TxLoop`.
* `TxTimer`: time passes by `Advance`; each turn of a wheel is an action. Ticks wrap
  at `TickMod`, `size_t` at `SizeMod`, chosen once in `Init`.
* `TxAiocb`, extended by `TxEpoll`, `TxKqueue` and `TxPort`: the kernel's part
  (readiness, reporting, one-shot disarming, completion) is marked external in the map.
  `failed` and `refused` are history variables: which filps had their last arming refused.
  A connect in progress waits as `generic_active_out` does, so only if `TX_WRITABLE` is clear.
* `TxRelay` composes `TxPort` with `netcat.cpp`: one action per turn of the while loop of
  `pipling`, each calling the actions of `TxPort`; peers send and close at any time.
  `Shut` says which filps cannot send: `pipe()` shuts the sending side of `filds[0]`.
* `TxCatPort`: threads that take packets from the port; a buffer is one item, so that a
  buffer refilled too early is visible.

Assumed of the application: one waiter per direction (the code's TX_CHECKs ask for
it), connect on a socket nobody waits for, fini once, a task is re-initialised only when
it is on no list, and no other user of the holder in `TxEpoll` and `TxKqueue`. A task
that was woken on a stopped loop is not dropped or recorded afterwards: the code would
then follow stale links (see the hazards in `PROJECT.json`). Both backends are modelled
as built without `DISABLE_MULTI_POLLER`.

## Runs

| Run | Question | Bounds |
|---|---|---|
| `loop` | Do lists, flags, counters, the sleep decision and order agree in every order of calls? Is the ring ever doubled or used after its deletion? Is every active task and poller served, and is the loop left after break or stop? | two tasks (for order), one poller, which is the ring and stands for any poller that may hold the loop, a wait queue; `MaxActives` 3 exceeds the tasks, so overcounting happens |
| `timer` | Is a slot ever missed, a timer early or late beyond its window, a poll endless? | 3 and 2 slots, ticks modulo 72 that wrap within `Horizon`; `size_t` as wide as the tick (72) and wider (288) |
| `epoll` | Are waiters, flags, the kernel's interest and the count consistent? | two pollable descriptors and one refused with EPERM |
| `epoll_faults` | What remains true with failing ADDs and MODs and hang-ups before the first arming, how far can the count go above the armed descriptors, does the poller hold the loop while it is positive, and is a waiter of a ready descriptor woken? | one descriptor, two tasks; `MaxUnder` bounds how far the count falls below zero. The process may abort, so deadlock is not checked |
| `epoll_add_fails` | Violation: a failing `EPOLL_CTL_ADD` is only logged, and the next activation fails the assertion of `tx_epoll_pollin` | one descriptor |
| `kqueue` | As `epoll`, with failing `EV_ADD`; `RefcntLeaks` states the count exactly, with the one it leaks per filp finished with both filters armed | two descriptors, `MaxLeak` 1 |
| `kqueue_live` | Is a waiter of a ready filter woken, unless its own `EV_ADD` failed? | one descriptor, two filters, one event per call |
| `stack` | Do the balls implement a stack of frames? | four balls, so three frames: a frame between two others |
| `port` | Are overlapped objects counted exactly, deleted in the end and never used after it? Has every waiter an operation in flight? Is each connection handed out once? | two filps and two objects, so an object outlives its filp and is not there for the next; `AcceptEx` may fail |
| `list` | Do the pointers form the lists that the flags say, and do they implement sequences? | three tasks (a middle one), the run queue with both marks, one wait queue |
| `relay` | Is anything lost, doubled or reordered between the two directions, and does the relay stall although the network takes what it is sent? | two items each way, a buffer of two, so partial writes and full buffers happen. `netcat` ends, so deadlock is not checked |
| `catport` | Do the threads copy in order, and does the process end with the connection? | two threads, two items each way, posts that may fail. The process ends, so deadlock is not checked |

The timer run uses one timer: timers interact only through the wheels, which no timer
changes. Symmetry (tasks, descriptors) is used only in runs without liveness. With one
poller in `loop`, a poller that sleeps while another holds the loop is not in the run;
the proofs of the safety properties cover any number of pollers.

What the runs show beyond "it holds":

* timers fire up to `MIN_TIME_OUT - 1` early; with a 64-bit `size_t`, after the 32-bit
  tick has wrapped, lateness is bounded only by a scan of the far list (`Lateness`);
* `epoll_refcnt` undercounts after an early hang-up: it may pass below 0 while the poller
  holds the loop, which it then never gives up; the kqueue count leaks;
* a failing `EPOLL_CTL_MOD` or `EV_ADD` can lose the wakeup of that filp only;
* the ring is deleted if the loop was stopped before or in the first pass of a
  `tx_loop_main`, and only then: timers must not be touched after that;
* the empty `tx_completion_port_pollout` is sound because a filp is not writable only
  while a send or a connect is in flight; a task waiting on a listening socket whose
  `AcceptEx` failed is never woken, since `TX_PANIC(1, ...)` does not panic;
* in `netcat.cpp` the direction from the network writes to a socket that `pipe()` has
  shut for sending, so the first data from the network ends the relay; the model has
  this (`Shut`), and `Relayed` is stated of the other direction, on the condition that the
  network takes what it is sent (`NetworkTakes`): a peer that never reads stalls the relay;
* in `netcat-win32.cpp` a post that fails is ignored and stalls its direction for ever.

## Fairness

* Loop: weak fairness of the steps of `tx_loop_main`, and of `Return`: the thread keeps
  running and callbacks return. Application calls and `LoopEnter` have none.
* Timer: weak fairness of the steps of one `tx_timer_polling` call.
* epoll, kqueue: weak fairness of handling events and of ending the poll; strong
  fairness, per descriptor or filter, of a poll that reports it. The loop calls its
  poller in every pass (`PollerServed`), and the kernel serves its ready list in turn
  when more is ready than one call returns. Nothing is assumed of tasks.
* Completion port: weak fairness of beginning and ending the poll and of taking a
  packet; the kernel ends the operations of a closed socket. Operations of an open
  socket need not end.
* Relay: weak fairness of `main` and of the running `pipling`; strong fairness of the
  poller and of calling the task, which the loop serves in turn (`PollerServed`,
  `ActiveTaskServed`); the kernel ends a receive when there is something to read, and
  the operations of a closed socket. Peers need not do anything, and a send of an open
  socket need not end: that sends end is a condition of `Relayed`, not fairness.
* Windows netcat: weak fairness of a receive that can end and of every thread step but
  `ReadFile` on stdin.

## Proofs

Every safety property of the runs is proved for all constants that satisfy the
assumptions of its module. Each proof has the same shape: an inductive invariant (`IndInv`
unless named), one lemma per action that it is kept, and the properties from it. Bounds such as `MaxActives`, `MaxLeak`, `MaxUnder`,
`MaxStall` and `Horizon` are guards or parameters, so the proofs hold for every value.

* `TxLoopProofs`: `TypeOK`, `FlagsMatchLists`, `BusyBits`, `ActivesCover`, `QuietBits`,
  `OncePerPass` and `PollerAlive`. `NoSleepWithWork` and `IdleLoopSleeps` are not
  inductive alone: the sleep decision reads two bits that age by one per pass; `BusyBits`
  (a busy task is behind a set bit until it has run) and `QuietBits` (which bits are left
  after one and two passes without an activation) record what they mean. The loop with
  the ring implements the loop (`RingRefinesLoop`: every ring step is a loop step or a
  stutter), so all of this holds with the ring too; `RingInv` and `IndInv` give
  `RingKept` (a ring that is queued or being called is in memory, and when it may be
  deleted). The loop also implements `TxTaskLists` (`LoopRefinesLists`, pollers queued as
  tasks are): it changes its lists only by the operations that `TxList` implements on
  pointers, so the two halves meet in one specification. What `Unlink`, `Append`, `Cons`
  and `\o` do to membership, order and distinctness are its first lemmas.
* `TxListProofs`: that these sequences are what is in memory. `Holds` says that `cell` and
  `prev` link given sequences forward and back, without a common element; `LIST_REMOVE` is
  shown to `Cut` one of them, the two insertions to `Put` an element into one. `Placed` adds
  that a `BUSY` task is on the run queue, a `PENDING` one on a wait queue and any other on
  none: so every `LIST_REMOVE` is applied to a linked element, the hypothesis of the
  macro's lemma. That `LIST_FOREACH_SAFE` (`Walk`) finds the linked sequence, and that a loop
  of activations moves a whole wait queue, is by induction over the naturals, derived from
  their well-foundedness (`NatLeast`, `SetInduction`, `RecursionExists`: the library's
  induction theorems are not used). `ListSound` and `ListRefinesSequences` follow for any finite
  number of tasks and any wait queues, for every operation but the drop or record of a task
  woken on a stopped loop (see below).
* `TxStackProofs`: `StackTypeOK /\ FrameToCall` (the callback never finds a cleared ball,
  and an empty stack only after a bare activation), and that every step of the balls is a step
  of `TxCallStack` or a stutter, for every depth (`BallsAreFrames`).
* `TxTimerProofs`: see below.
* `TxKqueueProofs`: the flags and filters of each filp (`KernelInv`: `FlagsMatchKernel`,
  `NoKnoteAfterFini`, the events still in hand), `NoLostWakeup`, and the count
  (`CountInv`), whichever `EV_ADD` fail. Arming and detaching change the cardinality of
  the filters by known amounts, and `leaked` is the rest.
* `TxEpollProofs`: the same per filp (`FilpInv`), with every fault allowed. What a fault
  destroys is proved from its absence: `FlagsMatchKernel` and `NoLostWakeup` assume that
  no `EPOLL_CTL_MOD` fails, `NoAssertFails` and `ReadyHasNoWaiter` that no `ADD` fails,
  `RefcntExact` that no `MOD` fails and no hang-up precedes the first arming; these are
  the constants `ModFails`, `AddFails` and `EarlyHup`. `NoEventAfterFini` and
  `RefcntNeverAbove` need no such assumption; the latter says nothing of when the loop is
  released, which is `RefcntExact`.
* `TxPortProofs`: an object and its filp point at each other and the count is the
  operations in flight plus one for the filp (`OlapInv`); a waiter has its flag, and a
  direction that is not ready has an operation posted (`FilpInv`). The relay calls the
  port only through its operations (`RelayRefinesPort`), so the accounting and the
  wakeups hold under it; `RelayInv` (what is in the buffer is exactly what was read and not
  yet written, and end of file is seen only with nothing left to read) gives
  `RelayExact` and `EofDelivered` for streams and buffers of any length.
* `TxCatPortProofs`: each buffer is in one place, that is in the port, held by
  one thread, or in an operation under way (`OnePlace`); so it is not refilled while full
  (`RecvInv`, `SendInv`), for any number of threads. `CopiedInOrder` asks that
  everything read was written only of a process that has not ended: the exit may
  overtake the last write.

The timer. A deadline is compared in wrapped ticks of two widths, so `IndInv` speaks of
true time instead. `LagInv` bounds how far the three ticks are behind the clock,
before, during and after each part of a poll. `WellPlaced` says of each armed timer that
the time to its deadline (`left`, a history variable that never wraps) lies in the span
of the slot it is on, k slots ahead of the wheel; on the far list that it is not behind
the last scan, and that it is behind the end of the major wheel only if `size_t` is as wide
as the tick, since after a wrap the quotients of a wider one are not comparable.
`NeverLate`, `FiringWindow` and `NothingBehindTheWheel` follow. The arithmetic is in
lemmas about remainders (quotients are unique, a difference of two remainders is the
remainder of the difference, a narrower remainder of a wider one). `TimerAssumption` asks that
the widths divide each other and that a delay, the stall and the span of the wheels together
stay below half the range of the tick, so that `(int)` differences keep their sign. The
sizes of the wheels and the slot, the widths, and the phases of the ticks are arbitrary.

Only model-checked: liveness under fairness (`ActiveTaskServed`, `PollerServed`,
`QuitLeavesLoop`, `PollTerminates`, `WaiterWoken`, `OverlappedFreed`, `Relayed`,
`PeerEndExits`), which is out of the prover's reach; the safety part of `WaiterWoken`
is the theorem `TakenIsActivated` of both backends.

## Not modelled

`tx_loop_delete` (frees a loop nobody uses); dropping or recording a task woken on a
stopped loop (the code follows stale pointers there); the uninitialised `tx_call` of the
phony mark, which `tx_timer_ring_get` compares while `tx_loop_main` runs; failing `EPOLL_CTL_DEL`, a second
fini, the descriptor -1, a second backend init; `TX_MEMLOCK` of the completion port and
sends larger than its cache, which `tx_outcb_write` cuts; the `blkio` mode and the stdio
threads of `netcat.cpp` (blocking copies; the threads are the peer of the pipe); the
`ENABLE_ZERO_COPY` and `DISABLE_NONBLOCK` builds of `netcat-win32.cpp`; address parsing,
socket pairs, logging, option parsing and the example programs (no state of their own
beyond a call).

## Plan

All planned modules, and proofs of all safety properties, are there. Left: an abstract
specification of a wakeup (wait, ready, woken) that `TxEpoll`, `TxKqueue` and `TxPort` all
implement, which would state their safety once.

The map covers about 2020 of the 4870 lines of `.cpp` and `.h` files (41%, the vendored
list macros and the example programs included in the total).
