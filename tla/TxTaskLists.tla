----------------------------- MODULE TxTaskLists ------------------------------
(***************************************************************************)
(* What the lists of the task loop promise: sequences of tasks, as TxLoop  *)
(* uses them, and the operations of tx_loop.cpp on these.  tx_tailer, the  *)
(* last element of the run queue, is left out.                             *)
(***************************************************************************)
EXTENDS TxQueue

CONSTANTS Task, WaitQ, phony

VARIABLES runq,     \* the run queue, head first
          waitq,    \* the wait queues, head first
          stopped   \* nothing is queued any more

vars == <<runq, waitq, stopped>>

Off(t) == [w \in WaitQ |-> Unlink(waitq[w], t)]

Init == runq = <<>> /\ waitq = [w \in WaitQ |-> <<>>] /\ stopped = FALSE

\* A task goes to the end of the run queue.
Active(t) ==
    /\ ~stopped
    /\ runq' = Append(Unlink(runq, t), t) /\ waitq' = Off(t)
    /\ UNCHANGED stopped

Drop(t) == runq' = Unlink(runq, t) /\ waitq' = Off(t) /\ UNCHANGED stopped

Record(w, t) ==
    /\ runq' = Unlink(runq, t)
    /\ waitq' = [Off(t) EXCEPT ![w] = Cons(t, @)]
    /\ UNCHANGED stopped

\* A whole wait queue goes to the end of the run queue, in its order.
Wakeup(w) ==
    /\ runq' = IF stopped THEN runq ELSE runq \o waitq[w]
    /\ waitq' = [waitq EXCEPT ![w] = <<>>]
    /\ UNCHANGED stopped

Stop == stopped' = TRUE /\ UNCHANGED <<runq, waitq>>

\* The mark of a pass comes, goes round, and goes; or the first task is taken.
Enter == ~Contains(runq, phony) /\ runq' = Append(runq, phony) /\ UNCHANGED <<waitq, stopped>>

Take ==
    /\ Contains(runq, phony)
    /\ runq' = IF Head(runq) = phony THEN Append(Tail(runq), phony) ELSE Tail(runq)
    /\ UNCHANGED <<waitq, stopped>>

Leave == runq' = Unlink(runq, phony) /\ UNCHANGED <<waitq, stopped>>

Next ==
    \/ \E t \in Task : Active(t) \/ Drop(t) \/ \E w \in WaitQ : Record(w, t)
    \/ \E w \in WaitQ : Wakeup(w)
    \/ Stop \/ Enter \/ Take \/ Leave

Spec == Init /\ [][Next]_vars
===============================================================================
