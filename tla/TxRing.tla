-------------------------------- MODULE TxRing --------------------------------
(***************************************************************************)
(* The life of the timer ring (tx_timer.cpp) on the task loop: it is made  *)
(* by the first tx_timer_ring_get, found again by its place in the run     *)
(* queue, and deletes itself when its poll cannot be queued again.  Its    *)
(* wheels are the subject of TxTimer.                                      *)
(***************************************************************************)
EXTENDS TxLoop

CONSTANT Ring   \* the poller that is the ring's tx_tm_callout

ASSUME RingAssumption == Ring \in Poll

VARIABLES
    rings,  \* the rings in memory
    late    \* history: the loop was stopped after the first pass of this tx_loop_main

ringVars == <<rings, late>>

RingInit == Init /\ rings = 0 /\ late = FALSE

\* tx_timer_ring_new: a new ring, deleted at once if its poll is not queued.
tx_timer_ring_new == rings' = rings + (IF tx_stop THEN 0 ELSE 1)

\* A poller is made; the ring, by the first tx_timer_ring_get.
RingStart(p) ==
    /\ PollStart(p)
    /\ IF p = Ring THEN tx_timer_ring_new ELSE UNCHANGED rings
    /\ UNCHANGED late

\* tx_timer_ring_get again.  A ring that is in the run queue is found and returned; if
\* it is not there, another one is made.
RingGet ==
    /\ InUserCode
    /\ Ring \in started /\ ~Contains(taskq, Ring)
    /\ tx_timer_ring_new
    /\ UNCHANGED <<vars, late>>

\* The end of tx_timer_polling: the ring is deleted if tx_poll_active left it IDLE.
RingReturn ==
    /\ current = Ring
    /\ Return
    /\ rings' = rings - (IF "IDLE" \in flags'[Ring] THEN 1 ELSE 0)
    /\ UNCHANGED late

RingStop ==
    /\ LoopStop
    /\ late' = (late \/ (pc = "call" /\ ~first_run /\ ~tx_stop))
    /\ UNCHANGED rings

RingEnter == LoopEnter /\ late' = FALSE /\ UNCHANGED rings

\* What does not concern the ring.
OtherStep ==
    /\ \/ Rotate \/ Dispatch \/ LoopExit \/ (current # Ring /\ Return)
       \/ TaskStep \/ WakeStep \/ LoopBreak
       \/ \E p \in Poll : Hold(p) \/ Release(p)
    /\ UNCHANGED ringVars

RingNext ==
    \/ \E p \in Poll : RingStart(p)
    \/ RingGet \/ RingReturn \/ RingStop \/ RingEnter \/ OtherStep

RingSpec == RingInit /\ [][RingNext]_<<vars, ringVars>>

\* As in TxLoop: tx_loop_main keeps running and every callback returns.
RingFairSpec ==
    /\ RingSpec
    /\ WF_<<vars, ringVars>>((Rotate \/ Dispatch \/ LoopExit) /\ UNCHANGED ringVars)
    /\ WF_<<vars, ringVars>>(RingReturn \/ (current # Ring /\ Return /\ UNCHANGED ringVars))
-----------------------------------------------------------------------------
\* There is never a second ring; the loop never calls a deleted one; and timers may use
\* the ring they were made with (tx_timer_stop, tx_timer_reset), after tx_loop_main has
\* returned too, unless the loop was stopped in or before the first pass of a tx_loop_main.
RingKept ==
    /\ rings <= 1
    /\ Contains(taskq, Ring) \/ current = Ring => rings = 1
    /\ Ring \in started /\ rings = 0 => tx_stop /\ ~late
===============================================================================
