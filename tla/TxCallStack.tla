----------------------------- MODULE TxCallStack -----------------------------
(***************************************************************************)
(* What a task stack promises (tx_task_stack_t, tx_loop.h): a stack of     *)
(* frames, each a callback with user flags of its own, of which the        *)
(* innermost is called when the stack's task runs.  A frame sees in result *)
(* how the frame it pushed has ended.                                      *)
(***************************************************************************)
EXTENDS Integers, SequencesExt

CONSTANTS Call,      \* callbacks
          Uflag,     \* values of the user flags, 0 among them
          Code,      \* codes a frame may return
          MaxFrames  \* frames the stack has room for

VARIABLES frames,  \* sequence of [call, uflag], innermost last
          outer,   \* the user flags below the first frame
          result,  \* "wait" for the callee, "none", or the code it returned
          queued,  \* the task of the stack is active
          called   \* the callback called last

vars == <<frames, outer, result, queued, called>>

Frame == [call : Call, uflag : Uflag]
Result == {"wait", "none"} \cup Code

\* Nothing is said about the user flags and the result of a new stack.
Init ==
    /\ frames = <<>>
    /\ outer \in Uflag
    /\ result \in Result
    /\ queued = FALSE
    /\ called \in Call

\* A new frame starts with user flags 0.
Push(c) ==
    /\ Len(frames) < MaxFrames
    /\ frames' = Append(frames, [call |-> c, uflag |-> 0])
    /\ result' = "wait"
    /\ UNCHANGED <<outer, queued, called>>

\* The innermost frame ends, and its caller has its own user flags back.
Pop(r) ==
    /\ Len(frames) > 1
    /\ frames' = Front(frames)
    /\ result' = r
    /\ UNCHANGED <<outer, queued, called>>

\* All frames but the first end.  The first is called again as if pushed anew,
\* except that it starts with the user flags below it.
Raise ==
    /\ frames # <<>>
    /\ frames' = <<[call |-> Head(frames).call, uflag |-> outer]>>
    /\ result' = "none"
    /\ queued' = TRUE
    /\ UNCHANGED <<outer, called>>

Drop ==
    /\ outer' = IF frames = <<>> THEN outer ELSE Last(frames).uflag
    /\ frames' = <<>>
    /\ queued' = FALSE
    /\ UNCHANGED <<result, called>>

\* The innermost frame changes its user flags.
SetUflag(u) ==
    /\ frames # <<>>
    /\ frames' = [frames EXCEPT ![Len(frames)].uflag = u]
    /\ UNCHANGED <<outer, result, queued, called>>

\* The stack need not have a frame yet, ...
Activate ==
    /\ queued' = TRUE
    /\ UNCHANGED <<frames, outer, result, called>>

\* ... but it runs only with one: the innermost frame is called.
Run ==
    /\ queued
    /\ frames # <<>>
    /\ called' = Last(frames).call
    /\ queued' = FALSE
    /\ UNCHANGED <<frames, outer, result>>

Next == \/ \E c \in Call : Push(c)
        \/ \E r \in {"none"} \cup Code : Pop(r)
        \/ \E u \in Uflag : SetUflag(u)
        \/ Raise \/ Drop \/ Activate \/ Run

Spec == Init /\ [][Next]_vars
===============================================================================
