------------------------------- MODULE TxStack -------------------------------
(***************************************************************************)
(* The task stack of libtx (tx_task_stack_t, tx_loop.cpp): an array of     *)
(* "balls".  A ball keeps the callback of its frame and the user flags of  *)
(* the frame below it; those of the innermost frame are in tx_uflag.       *)
(*                                                                         *)
(* An assert() that fails ends the process, so each is a guard.  Those of  *)
(* push, pop and raise are obligations of their caller; the one of the     *)
(* callback, which the loop calls, is FrameToCall's business.              *)
(***************************************************************************)
EXTENDS Integers, Sequences

CONSTANTS Call,             \* callbacks
          NoCall,           \* NULL
          Uflag,            \* values of the user flags
          Code,             \* arguments of tx_task_stack_pop1
          MAX_STACK_DEPTH

ASSUME StackAssumption ==
    /\ NoCall \notin Call
    /\ 0 \in Uflag
    /\ Code \cap {"wait", "none"} = {}
    /\ MAX_STACK_DEPTH \in Nat \ {0}

VARIABLES
    tx_top,
    tx_balls,  \* ball -> [tx_uflag, tx_call]
    tx_uflag,
    tx_flag,   \* tx_flag with tx_code: "wait", "none", or the code
    busy,      \* tx_sched is BUSY
    called,    \* history: the callback called last
    bare       \* history: the application activated the empty stack

vars == <<tx_top, tx_balls, tx_uflag, tx_flag, busy, called, bare>>

Index == 0..(MAX_STACK_DEPTH - 1)
Value == {"wait", "none"} \cup Code

\* tx_task_stack_init: only tx_top and tx_sched are initialised.
Init ==
    /\ tx_top = 0
    /\ tx_balls = [i \in Index |-> [tx_uflag |-> 0, tx_call |-> NoCall]]
    /\ tx_uflag \in Uflag
    /\ tx_flag \in Value
    /\ busy = FALSE
    /\ called \in Call
    /\ bare = FALSE

\* Mutant: off by one.
HasRoomForAll == tx_top < MAX_STACK_DEPTH

\* The assertion of push follows the increment: the last ball is never used.
HasRoom == tx_top + 1 < MAX_STACK_DEPTH

tx_task_stack_push(c) ==
    /\ HasRoom
    /\ tx_top' = tx_top + 1
    /\ tx_flag' = "wait"
    /\ tx_balls' = [tx_balls EXCEPT ![tx_top] = [tx_uflag |-> tx_uflag, tx_call |-> c]]
    /\ tx_uflag' = 0
    /\ UNCHANGED <<busy, called, bare>>

\* Mutant: the user flags are restored from the ball that stays.
PoppedUflagBelow(i) == tx_balls[i - 1].tx_uflag

PoppedUflag(i) == tx_balls[i].tx_uflag

\* tx_task_stack_pop0 (r = "none") and tx_task_stack_pop1 (r a code).
Pop(r) ==
    LET top == tx_top - 1 IN
    /\ top > 0
    /\ tx_top' = top
    /\ tx_balls' = [tx_balls EXCEPT ![top].tx_call = NoCall]
    /\ tx_uflag' = PoppedUflag(top)
    /\ tx_flag' = r
    /\ UNCHANGED <<busy, called, bare>>

\* Mutant: the first ball is cleared as well.
RaiseClearsAll(i) == i < tx_top

RaiseClears(i) == 1 <= i /\ i < tx_top

tx_task_stack_raise ==
    /\ tx_top > 0
    /\ tx_balls' = [i \in Index |-> IF RaiseClears(i) THEN [tx_balls[i] EXCEPT !.tx_call = NoCall]
                                                     ELSE tx_balls[i]]
    /\ busy' = TRUE
    /\ tx_uflag' = tx_balls[0].tx_uflag
    /\ tx_flag' = "none"
    /\ tx_top' = 1
    /\ UNCHANGED <<called, bare>>

\* Mutant: the frames are dropped, the task is not.
DroppedStays(b) == b

\* tx_task_drop of tx_sched.
Dropped(b) == FALSE

tx_task_stack_drop ==
    /\ busy' = Dropped(busy)
    /\ tx_top' = 0
    /\ bare' = FALSE
    /\ UNCHANGED <<tx_balls, tx_uflag, tx_flag, called>>

\* A callback writes the user flags of its frame.
SetUflag(u) ==
    /\ tx_top > 0
    /\ tx_uflag' = u
    /\ UNCHANGED <<tx_top, tx_balls, tx_flag, busy, called, bare>>

\* tx_task_active of tx_sched, which does not look at the frames.
tx_task_stack_active ==
    /\ busy' = TRUE
    /\ bare' = (bare \/ tx_top = 0)
    /\ UNCHANGED <<tx_top, tx_balls, tx_uflag, tx_flag, called>>

\* _tx_task_stack_callback, by the loop.  assert(tx_top > 0) ends the process if
\* there is no frame.
Callback ==
    /\ busy
    /\ tx_top > 0
    /\ busy' = FALSE
    /\ bare' = FALSE
    /\ called' = tx_balls[tx_top - 1].tx_call
    /\ UNCHANGED <<tx_top, tx_balls, tx_uflag, tx_flag>>

Next == \/ \E c \in Call : tx_task_stack_push(c)
        \/ \E r \in {"none"} \cup Code : Pop(r)
        \/ \E u \in Uflag : SetUflag(u)
        \/ tx_task_stack_raise \/ tx_task_stack_drop \/ tx_task_stack_active
        \/ Callback

Spec == Init /\ [][Next]_vars
-----------------------------------------------------------------------------
(* Properties.                                                             *)

\* Types; with them, that the index of the balls stays inside the array, the last
\* ball unused.
StackTypeOK ==
    /\ tx_top \in 0..(MAX_STACK_DEPTH - 1)
    /\ tx_balls \in [Index -> [tx_uflag : Uflag, tx_call : Call \cup {NoCall}]]
    /\ tx_uflag \in Uflag
    /\ tx_flag \in Value
    /\ busy \in BOOLEAN
    /\ called \in Call \cup {NoCall}
    /\ bare \in BOOLEAN

\* When the loop may run the stack's task, the assertion of _tx_task_stack_callback
\* holds, unless the application itself activated the stack while it had no frame and
\* neither dropped nor pushed since: push, pop, raise and drop never leave an active
\* stack empty.  And no frame is called through a cleared ball (NULL is not tested).
FrameToCall ==
    /\ busy /\ tx_top = 0 => bare
    /\ \A i \in Index : i < tx_top => tx_balls[i].tx_call # NoCall

\* The user flags of a frame are in the ball above it, or in tx_uflag.
frames == [i \in 1..tx_top |->
             [call |-> tx_balls[i - 1].tx_call,
              uflag |-> IF i = tx_top THEN tx_uflag ELSE tx_balls[i].tx_uflag]]

CallStack == INSTANCE TxCallStack WITH
    MaxFrames <- MAX_STACK_DEPTH - 1,
    outer <- IF tx_top = 0 THEN tx_uflag ELSE tx_balls[0].tx_uflag,
    result <- tx_flag,
    queued <- busy

\* The balls implement a stack of MAX_STACK_DEPTH - 1 frames: every frame has its
\* own user flags back when the frame it pushed ends, whatever that frame pushed,
\* and the innermost frame is the one that is called.
StackRefined == CallStack!Spec
===============================================================================
