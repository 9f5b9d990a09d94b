-------------------------------- MODULE TxQueue --------------------------------
(***************************************************************************)
(* The intrusive lists of libtx/queue.h as sequences, head first.  An      *)
(* element's only link is its LIST_ENTRY, so LIST_REMOVE names no list:    *)
(* the element leaves the one it is on.  Applying Unlink to every list     *)
(* that x could be on is therefore one LIST_REMOVE(x).                     *)
(***************************************************************************)
EXTENDS Integers, SequencesExt

Unlink(q, x) ==
    IF Contains(q, x) THEN RemoveAt(q, CHOOSE i \in 1..Len(q) : q[i] = x)
                      ELSE q

Distinct(q) == \A i, j \in 1..Len(q) : q[i] = q[j] => i = j

\* x is somewhere before y in q.
Precedes(q, x, y) == \E i, j \in 1..Len(q) : i < j /\ q[i] = x /\ q[j] = y
===============================================================================
