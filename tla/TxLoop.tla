-------------------------------- MODULE TxLoop --------------------------------
(***************************************************************************)
(* The task loop of libtx (tx_loop.cpp, tx_poll.cpp).                      *)
(*                                                                         *)
(* One thread runs tx_loop_main, which takes tasks from the head of        *)
(* loop->tx_taskq and calls them.  A call changes the loop only through    *)
(* the API, one action each below.  A "phony" element that tx_loop_main    *)
(* keeps in the queue marks the end of a pass.  The pollers (tx_poll_t:    *)
(* timer ring, epoll, ...) are queued like tasks but never BUSY, queue     *)
(* themselves again when they return, and ask tx_loop_timeout whether they *)
(* may sleep.                                                              *)
(*                                                                         *)
(* taskq omits the sentinel tx_tailer: it is always the last element, and  *)
(* LIST_INSERT_BEFORE(&tx_tailer, x) is Append(taskq, x).                  *)
(***************************************************************************)
EXTENDS Integers, FiniteSets, TxQueue

CONSTANTS Task,        \* tx_task_t objects of the application
          Poll,        \* tx_poll_t objects: timer ring, epoll, kqueue, ...
          WaitQ,       \* tx_task_q wait queues of the application
          Phony,       \* the phony task of tx_loop_main
          NoTask,      \* NULL (tx_holder, tx_current)
          MaxActives   \* bound on tx_actives (the code: INT_MAX, unchecked)

ASSUME LoopAssumption ==
    /\ IsFiniteSet(Task)
    /\ Task \cap Poll = {}
    /\ Phony \notin Task \cup Poll
    /\ NoTask \notin Task \cup Poll \cup {Phony}
    /\ MaxActives \in Nat

VARIABLES
    taskq,      \* tx_loop_t.tx_taskq, head first
    waitq,      \* the application's wait queues, head first
    flags,      \* tx_task_t.tx_flags as a set
    tx_busy,    \* low two bits of tx_loop_t.tx_busy, the only ones ever read
    tx_actives, \* tx_loop_t.tx_actives
    tx_stop,    \* tx_loop_t.tx_stop
    tx_break,   \* tx_loop_t.tx_break
    tx_holder,  \* tx_loop_t.tx_holder
    first_run,  \* local of tx_loop_main
    current,    \* the task being called (tx_loop_t.tx_current, which nothing reads)
    pc,         \* "out" of tx_loop_main, at its "loop" head, in a "call"
    started,    \* history: pollers that were queued once
    ran,        \* history: what this pass of the loop has called
    quiet       \* history: whole passes since the last activation, up to 2

vars == <<taskq, waitq, flags, tx_busy, tx_actives, tx_stop, tx_break,
          tx_holder, first_run, current, pc, started, ran, quiet>>

Flag == {"IDLE", "BUSY", "PENDING", "USER_MARK"}

Elem == Task \cup Poll \cup {Phony}

-----------------------------------------------------------------------------
Linked(t) == Contains(taskq, t) \/ \E w \in WaitQ : Contains(waitq[w], t)

Odd(n) == n % 2 = 1

\* up->tx_busy |= 1
SetLowBit(b) == IF Odd(b) THEN b ELSE b + 1
-----------------------------------------------------------------------------
\* tx_loop_new / tx_loop_default, and tx_task_init of every task.
Init ==
    /\ taskq = <<>>
    /\ waitq = [w \in WaitQ |-> <<>>]
    /\ flags = [x \in Task \cup Poll |-> {"IDLE"}]
    /\ tx_busy = 0
    /\ tx_actives = 0
    /\ tx_stop = FALSE
    /\ tx_break = FALSE
    /\ tx_holder = NoTask
    /\ first_run = FALSE
    /\ current = NoTask
    /\ pc = "out"
    /\ started = {}
    /\ ran = {}
    /\ quiet = 0

\* Who may call the API: code outside the loop, and callbacks.  The callback of
\* a poller only activates tasks and gives up tx_holder.
InUserCode == pc = "out" \/ (pc = "call" /\ current \in Task)
InCode == pc \in {"out", "call"}

loopVars == <<tx_stop, tx_break, tx_holder, first_run, current, pc, started>>

\* tx_task_init again, of a task that is on no list.
TaskInit(t) ==
    /\ InUserCode
    /\ ~Linked(t)
    /\ flags' = [flags EXCEPT ![t] = {"IDLE"}]
    /\ UNCHANGED <<taskq, waitq, tx_busy, tx_actives, loopVars, ran, quiet>>

TaskMark(t) ==
    /\ InUserCode
    /\ flags' = [flags EXCEPT ![t] = @ \cup {"USER_MARK"}]
    /\ UNCHANGED <<taskq, waitq, tx_busy, tx_actives, loopVars, ran, quiet>>

\* Mutant: no BUSY test, so an active task goes to the back of the queue.
MayActivateTwice(t) == ~tx_stop

\* The condition of tx_task_active and, with tx_task_drop first, its insertion.
MayActivate(t) == ~tx_stop /\ "BUSY" \notin flags[t]

\* Mutant: LIST_INSERT_HEAD, so that a task activated in a pass runs in it.
QueuedAtHead(t) == Cons(t, Unlink(taskq, t))

Queued(t) == Append(Unlink(taskq, t), t)

\* Mutant: up->tx_actives++ is missing.
CountedNot(n) == n

Counted(n) == n + 1

\* tx_task_active.  Its early return (stopped, or BUSY already) changes nothing.
TaskActive(t) ==
    /\ InCode
    /\ MayActivate(t)
    /\ tx_actives < MaxActives
    /\ taskq' = Queued(t)
    /\ waitq' = [w \in WaitQ |-> Unlink(waitq[w], t)]
    /\ flags' = [flags EXCEPT ![t] = (@ \ {"PENDING", "IDLE"}) \cup {"BUSY"}]
    /\ tx_actives' = Counted(tx_actives)
    /\ tx_busy' = SetLowBit(tx_busy)
    /\ quiet' = 0
    /\ UNCHANGED <<loopVars, ran>>

\* tx_task_drop of a task on a list; of an idle task it changes nothing.  A task
\* that tx_task_wakeup left on no list and not idle (the loop was stopped) is
\* not to be dropped: its list pointers are stale.
TaskDrop(t) ==
    /\ InUserCode
    /\ Linked(t)
    /\ flags' = [flags EXCEPT ![t] = (@ \ {"PENDING", "BUSY"}) \cup {"IDLE"}]
    /\ taskq' = Unlink(taskq, t)
    /\ waitq' = [w \in WaitQ |-> Unlink(waitq[w], t)]
    /\ UNCHANGED <<tx_busy, tx_actives, loopVars, ran, quiet>>

\* Mutant: the task is not dropped from the list it is on first.
TaskRecordNoDrop(w, t) ==
    /\ InUserCode
    /\ "IDLE" \in flags[t] \/ Linked(t)
    /\ waitq' = [waitq EXCEPT ![w] = Cons(t, @)]
    /\ flags' = [flags EXCEPT ![t] = (@ \ {"IDLE"}) \cup {"PENDING"}]
    /\ UNCHANGED <<taskq, tx_busy, tx_actives, loopVars, ran, quiet>>

\* tx_task_record: drop, then insert at the head of the wait queue.
TaskRecord(w, t) ==
    /\ InUserCode
    /\ "IDLE" \in flags[t] \/ Linked(t)
    /\ taskq' = Unlink(taskq, t)
    /\ waitq' = [v \in WaitQ |-> IF v = w THEN Cons(t, Unlink(waitq[v], t))
                                          ELSE Unlink(waitq[v], t)]
    /\ flags' = [flags EXCEPT ![t] = (@ \ {"IDLE", "BUSY"}) \cup {"PENDING"}]
    /\ UNCHANGED <<tx_busy, tx_actives, loopVars, ran, quiet>>

\* tx_task_wakeup: tx_task_active for each task of the wait queue, from its
\* head.  On a stopped loop tx_task_active returns early: the tasks lose PENDING
\* and the wait queue, and become neither BUSY nor IDLE.
TaskWakeup(w) ==
    LET woken == {t \in Task : Contains(waitq[w], t)} IN
    /\ InUserCode
    /\ woken # {}
    /\ tx_stop \/ tx_actives + Len(waitq[w]) <= MaxActives
    /\ waitq' = [waitq EXCEPT ![w] = <<>>]
    /\ flags' = [x \in Task \cup Poll |->
                   IF x \in woken
                   THEN IF tx_stop THEN flags[x] \ {"PENDING"}
                                   ELSE (flags[x] \ {"PENDING"}) \cup {"BUSY"}
                   ELSE flags[x]]
    /\ taskq' = IF tx_stop THEN taskq ELSE taskq \o waitq[w]
    /\ tx_actives' = IF tx_stop THEN tx_actives ELSE tx_actives + Len(waitq[w])
    /\ tx_busy' = IF tx_stop THEN tx_busy ELSE SetLowBit(tx_busy)
    /\ quiet' = IF tx_stop THEN quiet ELSE 0
    /\ UNCHANGED <<loopVars, ran>>

LoopBreak ==
    /\ InUserCode
    /\ tx_break' = TRUE
    /\ UNCHANGED <<taskq, waitq, flags, tx_busy, tx_actives, tx_stop, tx_holder,
                   first_run, current, pc, started, ran, quiet>>

LoopStop ==
    /\ InUserCode
    /\ tx_stop' = TRUE
    /\ UNCHANGED <<taskq, waitq, flags, tx_busy, tx_actives, tx_break, tx_holder,
                   first_run, current, pc, started, ran, quiet>>
-----------------------------------------------------------------------------
(* Pollers.                                                                *)

\* tx_poll_active changes only the queue and IDLE.
PollActive(p) ==
    IF ~tx_stop /\ "IDLE" \in flags[p]
    THEN /\ taskq' = Append(taskq, p)
         /\ flags' = [flags EXCEPT ![p] = @ \ {"IDLE"}]
         /\ started' = started \cup {p}
    ELSE UNCHANGED <<taskq, flags, started>>

\* tx_poll_init + tx_poll_active by the poller's constructor.
PollStart(p) ==
    /\ InUserCode
    /\ p \notin started
    /\ PollActive(p)
    /\ UNCHANGED <<waitq, tx_busy, tx_actives, tx_stop, tx_break, tx_holder,
                   first_run, current, pc, ran, quiet>>

\* A poller takes tx_holder when descriptors wait on it, and gives it up.
Hold(p) ==
    /\ InUserCode
    /\ p \in started
    /\ tx_holder = NoTask
    /\ tx_holder' = p
    /\ UNCHANGED <<taskq, waitq, flags, tx_busy, tx_actives, tx_stop, tx_break,
                   first_run, current, pc, started, ran, quiet>>

Release(p) ==
    /\ InUserCode \/ (pc = "call" /\ current = p)
    /\ tx_holder = p
    /\ tx_holder' = NoTask
    /\ UNCHANGED <<taskq, waitq, flags, tx_busy, tx_actives, tx_stop, tx_break,
                   first_run, current, pc, started, ran, quiet>>

\* tx_loop_timeout(up, verify), in milliseconds.
tx_loop_timeout(verify) ==
    CASE tx_busy # 0 /\ tx_actives > 0 -> 0
      [] ~(tx_busy # 0 /\ tx_actives > 0) /\ tx_break -> 0
      [] OTHER -> IF tx_holder \in {NoTask, verify} THEN 10000 ELSE 0
-----------------------------------------------------------------------------
(* tx_loop_main.                                                           *)

LoopEnter ==
    /\ pc = "out"
    /\ taskq' = Append(taskq, Phony)
    /\ first_run' = TRUE
    /\ pc' = "loop"
    /\ ran' = {}
    /\ UNCHANGED <<waitq, flags, tx_busy, tx_actives, tx_stop, tx_break,
                   tx_holder, current, started, quiet>>

\* Mutant: a stopped loop is left only at the end of a pass.
AtLoopHeadOfPass == pc = "loop"

\* while (!up->tx_stop || first_run)
AtLoopHead == pc = "loop" /\ (~tx_stop \/ first_run)

\* Mutant: tx_busy is not aged.
NotAged(b) == b

\* tx_actives after a pass, and tx_busy <<= 1.
KeptActives == IF Odd(tx_busy) THEN tx_actives ELSE 0
Aged(b) == (2 * b) % 4

\* Mutant: a break in a pass without activations is reset and not obeyed.
LeavesIfBusy == tx_break /\ Odd(tx_busy)

\* if (up->tx_break) { up->tx_break = 0; break; }
Leaves == tx_break

\* The phony task is at the head: the end of a pass.  tx_break leaves the loop,
\* which then removes the phony task.
Rotate ==
    /\ AtLoopHead
    /\ Head(taskq) = Phony
    /\ tx_actives' = KeptActives
    /\ tx_busy' = Aged(tx_busy)
    /\ first_run' = FALSE
    /\ ran' = {}
    /\ quiet' = IF quiet < 2 THEN quiet + 1 ELSE 2
    /\ tx_break' = FALSE
    /\ taskq' = IF Leaves THEN Tail(taskq) ELSE Append(Tail(taskq), Phony)
    /\ pc' = IF Leaves THEN "out" ELSE "loop"
    /\ UNCHANGED <<waitq, flags, tx_stop, tx_holder, current, started>>

\* Mutant: every element that is called is subtracted.
DiscountedAlways(x) == tx_actives - 1

\* Only a BUSY element was counted: pollers are not.
Discounted(x) == IF "BUSY" \in flags[x] THEN tx_actives - 1 ELSE tx_actives

\* The head of the queue is called.
Dispatch ==
    LET x == Head(taskq) IN
    /\ AtLoopHead
    /\ x # Phony
    /\ taskq' = Tail(taskq)
    /\ flags' = [flags EXCEPT ![x] = (@ \ {"BUSY", "USER_MARK"}) \cup {"IDLE"}]
    /\ tx_actives' = Discounted(x)
    /\ current' = x
    /\ pc' = "call"
    /\ ran' = ran \cup {x}
    /\ UNCHANGED <<waitq, tx_busy, tx_stop, tx_break, tx_holder, first_run,
                   started, quiet>>

\* Mutant: a poller with nothing to report is not queued again.
ReturnUnqueued ==
    /\ pc = "call"
    /\ pc' = "loop"
    /\ current' = NoTask
    /\ IF current \in Poll /\ tx_busy # 0 THEN PollActive(current)
                           ELSE UNCHANGED <<taskq, flags, started>>
    /\ UNCHANGED <<waitq, tx_busy, tx_actives, tx_stop, tx_break, tx_holder,
                   first_run, ran, quiet>>

\* The callback returns.  A poller's last act is tx_poll_active of itself.
Return ==
    /\ pc = "call"
    /\ pc' = "loop"
    /\ current' = NoTask
    /\ IF current \in Poll THEN PollActive(current)
                           ELSE UNCHANGED <<taskq, flags, started>>
    /\ UNCHANGED <<waitq, tx_busy, tx_actives, tx_stop, tx_break, tx_holder,
                   first_run, ran, quiet>>

\* The while condition fails: the phony task is removed from wherever it is.
LoopExit ==
    /\ pc = "loop"
    /\ tx_stop /\ ~first_run
    /\ taskq' = Unlink(taskq, Phony)
    /\ pc' = "out"
    /\ ran' = {}
    /\ UNCHANGED <<waitq, flags, tx_busy, tx_actives, tx_stop, tx_break,
                   tx_holder, first_run, current, started, quiet>>
-----------------------------------------------------------------------------
LoopStep == LoopEnter \/ Rotate \/ Dispatch \/ Return \/ LoopExit

TaskStep ==
    \E t \in Task :
        \/ TaskInit(t) \/ TaskMark(t) \/ TaskActive(t) \/ TaskDrop(t)
        \/ \E w \in WaitQ : TaskRecord(w, t)

WakeStep == \E w \in WaitQ : TaskWakeup(w)

PollStep == \E p \in Poll : PollStart(p) \/ Hold(p) \/ Release(p)

Next == LoopStep \/ TaskStep \/ WakeStep \/ PollStep \/ LoopBreak \/ LoopStop

Spec == Init /\ [][Next]_vars

\* The thread in tx_loop_main keeps running, and every callback returns.
Fairness == WF_vars(Rotate \/ Dispatch \/ LoopExit) /\ WF_vars(Return)

FairSpec == Spec /\ Fairness
-----------------------------------------------------------------------------
(* Properties.                                                             *)

\* Types; with them, that tx_actives never falls below 0, although every BUSY task
\* that is called is subtracted and a quiet pass resets the count in between.
TypeOK ==
    /\ taskq \in Seq(Elem)
    /\ waitq \in [WaitQ -> Seq(Task)]
    /\ flags \in [Task \cup Poll -> SUBSET Flag]
    /\ tx_busy \in 0..3
    /\ tx_actives \in Nat
    /\ tx_stop \in BOOLEAN /\ tx_break \in BOOLEAN /\ first_run \in BOOLEAN
    /\ tx_holder \in Poll \cup {NoTask}
    /\ current \in Task \cup Poll \cup {NoTask}
    /\ pc \in {"out", "loop", "call"}
    /\ pc = "call" <=> current # NoTask
    /\ started \in SUBSET Poll
    /\ ran \in SUBSET (Task \cup Poll)
    /\ quiet \in 0..2

\* No element is linked twice.
DistinctLists ==
    /\ Distinct(taskq)
    /\ \A w \in WaitQ : Distinct(waitq[w])
    /\ \A v, w \in WaitQ, t \in Task :
          Contains(waitq[v], t) /\ Contains(waitq[w], t) => v = w

PhonyQueued == Contains(taskq, Phony) <=> pc # "out"

PollFlags ==
    \A p \in Poll : /\ Contains(taskq, p) <=> "IDLE" \notin flags[p]
                    /\ "BUSY" \notin flags[p]

TaskFlags ==
    \A t \in Task :
        /\ Contains(taskq, t) <=> "BUSY" \in flags[t]
        /\ (\E w \in WaitQ : Contains(waitq[w], t)) <=> "PENDING" \in flags[t]
        /\ ~("BUSY" \in flags[t] /\ "PENDING" \in flags[t])
        /\ Linked(t) => "IDLE" \notin flags[t]
        /\ ~tx_stop /\ ~Linked(t) => "IDLE" \in flags[t]

\* The flags say where a task is linked, which is what every LIST_REMOVE relies
\* on: BUSY tasks are on the run queue, PENDING ones on one wait queue, and
\* until the loop is stopped a task that is on no list is IDLE.  No element is
\* linked twice, and the phony task is queued exactly while tx_loop_main runs.
FlagsMatchLists == DistinctLists /\ PhonyQueued /\ PollFlags /\ TaskFlags

Busy == {t \in Task : "BUSY" \in flags[t]}

\* What tx_busy's two bits know of the run queue: a queued task has set one of
\* them, and a task queued behind the phony task, in this pass, the low one.
BusyBits ==
    \A t \in Task : Contains(taskq, t) =>
        tx_busy # 0 /\ (Precedes(taskq, Phony, t) => Odd(tx_busy))

\* ... and what they know of the passes since the last activation.
QuietBits == /\ quiet >= 1 => ~Odd(tx_busy)
             /\ quiet = 2 => tx_busy = 0

\* No poller sleeps while a task waits to run: whatever activations, drops and
\* passes led here, tx_loop_timeout is 0 for every poller if a task is BUSY.
NoSleepWithWork ==
    Busy # {} => \A p \in Poll : tx_loop_timeout(p) = 0

\* tx_actives may count dropped tasks too, but never fewer than the BUSY ones.
ActivesCover == tx_actives >= Cardinality(Busy)

\* Tasks that were activated and dropped again do not keep the loop spinning:
\* two whole passes after the last activation the pollers may sleep.
IdleLoopSleeps ==
    quiet = 2 /\ ~tx_break =>
        \A p \in Poll : tx_holder \in {NoTask, p} => tx_loop_timeout(p) = 10000

\* A pass is finite and fair: nothing that has run in this pass comes before the
\* phony task, however often callbacks activate it.
OncePerPass ==
    pc # "out" =>
        \A x \in ran : Contains(taskq, x) => Precedes(taskq, Phony, x)

\* Until the loop is stopped a poller, once started, is never lost: it is queued
\* or it is what the loop is calling.
PollerAlive ==
    ~tx_stop => \A p \in started : \/ Contains(taskq, p)
                                   \/ pc = "call" /\ current = p

NoOvertaking ==
    \A x, y \in Task \cup Poll :
        Precedes(taskq, x, y) /\ Contains(taskq', x) /\ Contains(taskq', y)
            => Precedes(taskq', x, y)

NothingQueuedAfterStop ==
    tx_stop => /\ tx_stop'
               /\ \A x \in Task \cup Poll : Contains(taskq', x) => Contains(taskq, x)

\* No step lets one queued element overtake another: in particular activating a
\* BUSY task again does not cost it its place.
OrderKept == [][NoOvertaking]_vars

\* A stopped loop stays stopped, and neither tx_task_active, tx_task_wakeup nor a
\* returning poller queues anything on it.
StopIsFinal == [][NothingQueuedAfterStop]_vars

\* Every active task is called, or dropped, unless the loop is left.
ActiveTaskServed ==
    \A t \in Task :
        (pc # "out" /\ "BUSY" \in flags[t]) ~> (pc = "out" \/ "BUSY" \notin flags[t])

\* Busy tasks do not starve the pollers, however often they activate each other.
PollerServed ==
    \A p \in Poll :
        (pc # "out" /\ p \in started)
            ~> (pc = "out" \/ tx_stop \/ (pc = "call" /\ current = p))

\* tx_loop_break and tx_loop_stop make tx_loop_main return.
QuitLeavesLoop == (pc # "out" /\ (tx_break \/ tx_stop)) ~> (pc = "out")
===============================================================================
