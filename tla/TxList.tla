-------------------------------- MODULE TxList --------------------------------
(***************************************************************************)
(* The lists of the task loop as they are in memory: the LIST macros of    *)
(* libtx/queue.h, and the operations of tx_loop.cpp that link and unlink   *)
(* tasks with them.  TxLoop takes these lists for sequences; this module   *)
(* shows when that is right.                                               *)
(*                                                                         *)
(* A list head and an element each hold one forward pointer (lh_first,     *)
(* le_next); le_prev of an element is the address of the forward pointer   *)
(* that points at it.  So cell[h] is the forward pointer of the head or    *)
(* element h, and prev[x] names a head or an element.                      *)
(***************************************************************************)
EXTENDS Integers, FiniteSets, SequencesExt

CONSTANTS Task,      \* tx_task_t objects
          WaitQ,     \* the heads of the application's wait queues
          taskq,     \* the head loop->tx_taskq
          tx_tailer, \* the last element of taskq, always
          phony,     \* the mark of tx_loop_main in taskq
          NULL

ASSUME ListAssumption ==
    /\ IsFiniteSet(Task)
    /\ Cardinality({taskq, tx_tailer, phony, NULL}) = 4
    /\ {taskq, tx_tailer, phony, NULL} \cap (Task \cup WaitQ) = {}
    /\ Task \cap WaitQ = {}

VARIABLES
    mem,      \* the pointers: mem.cell and mem.prev
    flags,    \* tx_task_t.tx_flags as a set
    tx_stop,  \* tx_loop_t.tx_stop
    running   \* in tx_loop_main: phony is on the list

vars == <<mem, flags, tx_stop, running>>

Elem == Task \cup {tx_tailer, phony}
Heads == WaitQ \cup {taskq}
-----------------------------------------------------------------------------
(* The macros.                                                             *)

\* Mutant: the element after x keeps pointing back at x.
LIST_REMOVE_forward(m, x) == [m EXCEPT !.cell[m.prev[x]] = m.cell[x]]

LIST_REMOVE(m, x) ==
    LET n == m.cell[x]
        back == IF n = NULL THEN m.prev ELSE [m.prev EXCEPT ![n] = m.prev[x]]
    IN [cell |-> [m.cell EXCEPT ![m.prev[x]] = n], prev |-> back]

LIST_INSERT_BEFORE(m, y, x) ==
    [cell |-> [m.cell EXCEPT ![x] = y, ![m.prev[y]] = x],
     prev |-> [m.prev EXCEPT ![x] = m.prev[y], ![y] = x]]

LIST_INSERT_HEAD(m, h, x) ==
    LET n == m.cell[h]
        back == IF n = NULL THEN m.prev ELSE [m.prev EXCEPT ![n] = x]
    IN [cell |-> [m.cell EXCEPT ![x] = n, ![h] = x], prev |-> [back EXCEPT ![x] = h]]

LIST_INIT(m, h) == [cell |-> [m.cell EXCEPT ![h] = NULL], prev |-> m.prev]

\* What the forward pointers lead to from h, and the elements LIST_FOREACH_SAFE visits:
\* as many as there are, if the list ends.
Walk(m, h) ==
    LET at[n \in Nat] ==
          IF n = 0 THEN h ELSE IF at[n - 1] = NULL THEN NULL ELSE m.cell[at[n - 1]]
    IN at

Path(m, h) ==
    LET at == Walk(m, h)
    IN [n \in 1..Cardinality({k \in 1..Cardinality(Elem) : at[k] # NULL}) |-> at[n]]
-----------------------------------------------------------------------------
(* The operations.                                                         *)

\* tx_loop_new.  The pointers of an idle task are never read: any value would do.
Init ==
    /\ mem = [cell |-> [x \in Elem \cup Heads |-> IF x = taskq THEN tx_tailer ELSE NULL],
              prev |-> [x \in Elem |-> taskq]]
    /\ flags = [t \in Task |-> {"IDLE"}]
    /\ tx_stop = FALSE
    /\ running = FALSE

\* The pointers after tx_task_drop of a task with the flags fl.
Dropped(m, fl, t) == IF "IDLE" \in fl THEN m ELSE LIST_REMOVE(m, t)

\* Mutant: LIST_INSERT_HEAD of the run queue.
ActivatedAtHead(m, fl, t) ==
    IF tx_stop \/ "BUSY" \in fl THEN m
    ELSE LIST_INSERT_HEAD(Dropped(m, fl, t), taskq, t)

\* ... and after tx_task_active of it.
Activated(m, fl, t) ==
    IF tx_stop \/ "BUSY" \in fl THEN m
    ELSE LIST_INSERT_BEFORE(Dropped(m, fl, t), tx_tailer, t)

ActivatedFlags(fl) == IF tx_stop \/ "BUSY" \in fl THEN fl ELSE {"BUSY"}

\* tx_task_active.  A PENDING task is only logged: it goes from its wait queue to the
\* run queue as any other.
TaskActive(t) ==
    /\ mem' = Activated(mem, flags[t], t)
    /\ flags' = [flags EXCEPT ![t] = ActivatedFlags(@)]
    /\ UNCHANGED <<tx_stop, running>>

\* What tx_task_wakeup leaves of a task on a stopped loop: on no list, but linked to its
\* former neighbours.  The application must not drop or record it: LIST_REMOVE would
\* write to the wait queue that was just emptied, or to a task that is elsewhere now.
Woken(t) == flags[t] = {}

TaskDrop(t) ==
    /\ ~Woken(t)
    /\ mem' = Dropped(mem, flags[t], t)
    /\ flags' = [flags EXCEPT ![t] = {"IDLE"}]
    /\ UNCHANGED <<tx_stop, running>>

TaskRecord(w, t) ==
    /\ ~Woken(t)
    /\ mem' = LIST_INSERT_HEAD(Dropped(mem, flags[t], t), w, t)
    /\ flags' = [flags EXCEPT ![t] = {"PENDING"}]
    /\ UNCHANGED <<tx_stop, running>>

\* tx_task_wakeup: tx_task_active of each task, without PENDING, and LIST_INIT.
Woke(m, ts) ==
    LET after[i \in 0..Len(ts)] ==
          IF i = 0 THEN m ELSE Activated(after[i - 1], flags[ts[i]] \ {"PENDING"}, ts[i])
    IN after[Len(ts)]

TaskWakeup(w) ==
    LET woken == Path(mem, w) IN
    /\ mem' = LIST_INIT(Woke(mem, woken), w)
    /\ flags' = [t \in Task |-> IF Contains(woken, t)
                                THEN ActivatedFlags(flags[t] \ {"PENDING"}) ELSE flags[t]]
    /\ UNCHANGED <<tx_stop, running>>

LoopStop == tx_stop' = TRUE /\ UNCHANGED <<mem, flags, running>>

\* tx_loop_main: phony is queued, goes round, and is removed from where it is.  When
\* the loop ends, and what it counts, is in TxLoop.
LoopEnter ==
    /\ ~running
    /\ running' = TRUE
    /\ mem' = LIST_INSERT_BEFORE(mem, tx_tailer, phony)
    /\ UNCHANGED <<flags, tx_stop>>

LoopHead ==
    LET x == mem.cell[taskq] IN
    /\ running
    /\ mem' = IF x = phony THEN LIST_INSERT_BEFORE(LIST_REMOVE(mem, x), tx_tailer, x)
                           ELSE LIST_REMOVE(mem, x)
    /\ flags' = [t \in Task |-> IF t = x THEN (flags[t] \ {"BUSY"}) \cup {"IDLE"} ELSE flags[t]]
    /\ UNCHANGED <<tx_stop, running>>

LoopLeave ==
    /\ running
    /\ running' = FALSE
    /\ mem' = LIST_REMOVE(mem, phony)
    /\ UNCHANGED <<flags, tx_stop>>

Next ==
    \/ \E t \in Task : TaskActive(t) \/ TaskDrop(t) \/ (\E w \in WaitQ : TaskRecord(w, t))
    \/ \E w \in WaitQ : TaskWakeup(w)
    \/ LoopStop \/ LoopEnter \/ LoopHead \/ LoopLeave

Spec == Init /\ [][Next]_vars
-----------------------------------------------------------------------------
(* Properties.                                                             *)

\* The lists in memory are the sequences TxLoop takes them for: every list ends without
\* repeating an element, taskq with tx_tailer; each element on it points back at the cell
\* that points at it; a task is on taskq if it is BUSY, on one wait queue if it is
\* PENDING, and otherwise on none.
ListsSound ==
    /\ \A h \in Heads : IsInjective(Path(mem, h))
    /\ \A h \in Heads, x \in Elem : Contains(Path(mem, h), x) =>
          /\ mem.cell[mem.prev[x]] = x
          /\ mem.prev[x] = h \/ Contains(Path(mem, h), mem.prev[x])
    /\ Last(Path(mem, taskq)) = tx_tailer /\ mem.cell[tx_tailer] = NULL
    /\ Contains(Path(mem, taskq), phony) <=> running
    /\ \A t \in Task :
          LET on == {h \in Heads : Contains(Path(mem, h), t)} IN
          CASE "BUSY" \in flags[t] -> on = {taskq}
            [] "PENDING" \in flags[t] -> \E w \in WaitQ : on = {w}
            [] OTHER -> on = {}

Seqs == INSTANCE TxTaskLists
            WITH runq <- Front(Path(mem, taskq)),
                 waitq <- [w \in WaitQ |-> Path(mem, w)],
                 stopped <- tx_stop

\* Every operation on the pointers is the one on sequences that TxLoop states, order
\* included: no task is lost, doubled or overtaken, whether it was idle, active or
\* pending before.  Of a woken task on a stopped loop this holds until it is dropped.
SequencesRefined == Seqs!Spec
===============================================================================
