---------------------------- MODULE TxStackProofs ----------------------------
(***************************************************************************)
(* The task stack: its types, when the callback finds a frame to call, and *)
(* that the balls implement the stack of TxCallStack, for every depth.     *)
(***************************************************************************)
EXTENDS TxStack, SequenceTheorems, TLAPS

\* Both invariants are inductive together.
Inv == StackTypeOK /\ FrameToCall

\* What every action keeps; raise is the one that clears balls below the top.
LEMMA InvInductive == ASSUME Inv, [Next]_vars PROVE Inv'
<1> USE StackAssumption DEF Index, Value
<1>1. CASE \E c \in Call : tx_task_stack_push(c)
  BY <1>1 DEF Inv, StackTypeOK, FrameToCall, tx_task_stack_push, HasRoom
<1>2. CASE \E r \in {"none"} \cup Code : Pop(r)
  BY <1>2 DEF Inv, StackTypeOK, FrameToCall, Pop, PoppedUflag
<1>3. CASE \E u \in Uflag : SetUflag(u)
  BY <1>3 DEF Inv, StackTypeOK, FrameToCall, SetUflag
<1>4. CASE tx_task_stack_raise
  BY <1>4 DEF Inv, StackTypeOK, FrameToCall, tx_task_stack_raise, RaiseClears
<1>5. CASE tx_task_stack_drop
  <2>1. busy' \in BOOLEAN /\ ~busy' /\ bare' \in BOOLEAN
    BY <1>5, Zenon DEF tx_task_stack_drop, Dropped
  <2>2. tx_top' = 0 /\ UNCHANGED <<tx_balls, tx_uflag, tx_flag, called>>
    BY <1>5 DEF tx_task_stack_drop
  <2> QED BY <2>1, <2>2 DEF Inv, StackTypeOK, FrameToCall
<1>6. CASE tx_task_stack_active
  <2>1. busy' \in BOOLEAN /\ bare' \in BOOLEAN /\ (tx_top = 0 => bare')
    BY <1>6, Zenon DEF tx_task_stack_active
  <2>2. UNCHANGED <<tx_top, tx_balls, tx_uflag, tx_flag, called>>
    BY <1>6 DEF tx_task_stack_active
  <2> QED BY <2>1, <2>2 DEF Inv, StackTypeOK, FrameToCall
<1>7. CASE Callback
  <2>1. busy' \in BOOLEAN /\ ~busy' /\ bare' \in BOOLEAN
    BY <1>7, Zenon DEF Callback
  <2>2. /\ called' \in Call \cup {NoCall}
        /\ UNCHANGED <<tx_top, tx_balls, tx_uflag, tx_flag>>
    BY <1>7 DEF Inv, StackTypeOK, Callback, Index
  <2> QED BY <2>1, <2>2 DEF Inv, StackTypeOK, FrameToCall
<1>8. CASE UNCHANGED vars
  BY <1>8 DEF Inv, StackTypeOK, FrameToCall, vars
<1> QED BY <1>1, <1>2, <1>3, <1>4, <1>5, <1>6, <1>7, <1>8 DEF Next

\* The induction: every reachable state of a task stack satisfies both.
THEOREM StackInvariant == Spec => []Inv
<1>1. Init => Inv
  <2> SUFFICES ASSUME Init PROVE Inv
    OBVIOUS
  <2>1. busy \in BOOLEAN /\ ~busy /\ bare \in BOOLEAN
    BY Zenon DEF Init
  <2>2. /\ tx_top = 0 /\ tx_balls = [i \in Index |-> [tx_uflag |-> 0, tx_call |-> NoCall]]
        /\ tx_uflag \in Uflag /\ tx_flag \in Value /\ called \in Call
    BY DEF Init
  <2> QED BY <2>1, <2>2, StackAssumption DEF Inv, StackTypeOK, FrameToCall, Index, Value
<1> QED BY <1>1, InvInductive, PTL DEF Spec

\* The variables keep their types, and tx_top never reaches past the balls.
THEOREM StackTypes == Spec => []StackTypeOK
BY StackInvariant, PTL DEF Inv

\* _tx_task_stack_callback never finds a cleared ball, and an empty stack only if the
\* application activated it so.
THEOREM CalleePresent == Spec => []FrameToCall
BY StackInvariant, PTL DEF Inv
-----------------------------------------------------------------------------
(* The refinement.                                                         *)

\* The frame that the refinement mapping sees at i, of a stack with n frames.
FrameAt(i, n, balls, uflag) ==
    [call |-> balls[i - 1].tx_call, uflag |-> IF i = n THEN uflag ELSE balls[i].tx_uflag]

FramesOf(n, balls, uflag) == [i \in 1..n |-> FrameAt(i, n, balls, uflag)]

\* The mapped frames are a sequence as long as the stack is deep.
LEMMA FramesSeq ==
    ASSUME NEW n \in 0..(MAX_STACK_DEPTH - 1), NEW uflag \in Uflag,
           NEW balls \in [Index -> [tx_uflag : Uflag, tx_call : Call \cup {NoCall}]],
           \A i \in Index : i < n => balls[i].tx_call # NoCall
    PROVE  /\ FramesOf(n, balls, uflag) \in Seq(CallStack!Frame)
           /\ Len(FramesOf(n, balls, uflag)) = n
           /\ \A i \in 1..n : FramesOf(n, balls, uflag)[i] = FrameAt(i, n, balls, uflag)
<1> DEFINE fr == FramesOf(n, balls, uflag)
<1>1. n \in Nat /\ n <= MAX_STACK_DEPTH - 1
  BY StackAssumption
<1>2. \A i \in 1..n : FrameAt(i, n, balls, uflag) \in CallStack!Frame
  BY <1>1, StackAssumption DEF FrameAt, Index, CallStack!Frame
<1>3. fr = [i \in 1..n |-> FrameAt(i, n, balls, uflag)]
  BY DEF FramesOf
<1> HIDE DEF fr
<1>4. fr \in [1..n -> CallStack!Frame]
  BY <1>2, <1>3
<1>5. fr \in Seq(CallStack!Frame)
  BY <1>1, <1>4, SeqDef
<1>6. Len(fr) = n
  BY <1>1, <1>4, <1>5, LenProperties
<1> QED BY <1>3, <1>5, <1>6 DEF fr

\* Two sequences of frames of the same length with the same elements are equal.
LEMMA SameFrames ==
    ASSUME NEW s \in Seq(CallStack!Frame), NEW t \in Seq(CallStack!Frame), Len(s) = Len(t),
           \A i \in 1..Len(s) : s[i] = t[i]
    PROVE  s = t
BY SeqEqual

\* Every step of the balls is a step of the stack of frames, or changes nothing of it.
LEMMA StepRefines == ASSUME Inv, Inv', [Next]_vars PROVE [CallStack!Next]_(CallStack!vars)
<1> DEFINE fr == FramesOf(tx_top, tx_balls, tx_uflag)
           frn == FramesOf(tx_top', tx_balls', tx_uflag')
<1>f. frames = fr /\ frames' = frn
  BY DEF frames, FramesOf, FrameAt
<1>s. /\ fr \in Seq(CallStack!Frame)
      /\ Len(fr) = tx_top
      /\ \A i \in 1..tx_top : fr[i] = FrameAt(i, tx_top, tx_balls, tx_uflag)
  BY FramesSeq DEF Inv, StackTypeOK, FrameToCall
<1>t. /\ frn \in Seq(CallStack!Frame)
      /\ Len(frn) = tx_top'
      /\ \A i \in 1..tx_top' : frn[i] = FrameAt(i, tx_top', tx_balls', tx_uflag')
  BY FramesSeq DEF Inv, StackTypeOK, FrameToCall
<1> HIDE DEF fr, frn
<1>n. /\ tx_top \in Nat /\ tx_top <= MAX_STACK_DEPTH - 1 /\ MAX_STACK_DEPTH \in Nat \ {0}
      /\ tx_balls \in [Index -> [tx_uflag : Uflag, tx_call : Call \cup {NoCall}]]
  BY StackAssumption DEF Inv, StackTypeOK
<1>1. ASSUME NEW c \in Call, tx_task_stack_push(c) PROVE CallStack!Push(c)
  <2>1. /\ tx_top + 1 < MAX_STACK_DEPTH /\ tx_top' = tx_top + 1
        /\ tx_flag' = "wait" /\ tx_uflag' = 0
        /\ tx_balls' = [tx_balls EXCEPT ![tx_top] = [tx_uflag |-> tx_uflag, tx_call |-> c]]
        /\ UNCHANGED <<busy, called>>
    BY <1>1 DEF tx_task_stack_push, HasRoom
  <2> DEFINE new == [call |-> c, uflag |-> 0]
  <2>2. new \in CallStack!Frame
    BY StackAssumption DEF CallStack!Frame
  <2> HIDE DEF new
  <2> DEFINE app == Append(fr, new)
  <2>3. /\ app \in Seq(CallStack!Frame)
        /\ Len(app) = tx_top + 1
        /\ \A i \in 1..tx_top : app[i] = fr[i]
        /\ app[tx_top + 1] = new
    BY <2>2, <1>s, <1>n, AppendProperties
  <2> HIDE DEF app
  <2>4. tx_balls'[tx_top] = [tx_uflag |-> tx_uflag, tx_call |-> c]
        /\ \A i \in Index : i # tx_top => tx_balls'[i] = tx_balls[i]
    BY <2>1, <1>n DEF Index
  <2>5. ASSUME NEW i \in 1..(tx_top + 1) PROVE frn[i] = app[i]
    <3>1. CASE i = tx_top + 1
      BY <3>1, <2>1, <2>3, <2>4, <1>t, <1>n DEF FrameAt, new
    <3>2. CASE i = tx_top
      <4>1. app[i] = FrameAt(tx_top, tx_top, tx_balls, tx_uflag)
        BY <3>2, <2>3, <1>s, <1>n
      <4>2. frn[i] = FrameAt(tx_top, tx_top + 1, tx_balls', 0)
        BY <3>2, <2>1, <1>t, <1>n
      <4>3. tx_balls'[tx_top - 1] = tx_balls[tx_top - 1]
        BY <3>2, <2>4, <1>n DEF Index
      <4> QED BY <4>1, <4>2, <4>3, <2>4, <1>n DEF FrameAt
    <3>3. CASE i < tx_top
      BY <3>3, <2>1, <2>3, <2>4, <1>s, <1>t, <1>n DEF FrameAt, Index
    <3> QED BY <3>1, <3>2, <3>3, <1>n
  <2>6. frn = app
    BY <2>1, <2>3, <2>5, <1>t, SameFrames
  <2>7. (IF tx_top = 0 THEN tx_uflag ELSE tx_balls[0].tx_uflag)'
           = IF tx_top = 0 THEN tx_uflag ELSE tx_balls[0].tx_uflag
    BY <2>1, <2>4, <1>n DEF Index
  <2> QED BY <1>f, <1>s, <1>n, <2>1, <2>6, <2>7 DEF CallStack!Push, new, app
<1>2. ASSUME NEW r \in {"none"} \cup Code, Pop(r) PROVE CallStack!Pop(r)
  <2>1. /\ tx_top > 1 /\ tx_top' = tx_top - 1 /\ tx_flag' = r
        /\ tx_balls' = [tx_balls EXCEPT ![tx_top - 1].tx_call = NoCall]
        /\ tx_uflag' = tx_balls[tx_top - 1].tx_uflag
        /\ UNCHANGED <<busy, called>>
    BY <1>2, <1>n DEF Pop, PoppedUflag
  <2>2. /\ CallStack!Front(fr) \in Seq(CallStack!Frame)
        /\ Len(CallStack!Front(fr)) = tx_top - 1
        /\ \A i \in 1..(tx_top - 1) : CallStack!Front(fr)[i] = fr[i]
    BY <2>1, <1>s, <1>n, SubSeqProperties DEF CallStack!Front
  <2>3. \A i \in Index : i # tx_top - 1 => tx_balls'[i] = tx_balls[i]
    BY <2>1, <1>n DEF Index
  <2>4. ASSUME NEW i \in 1..(tx_top - 1) PROVE frn[i] = CallStack!Front(fr)[i]
    BY <2>1, <2>2, <2>3, <1>s, <1>t, <1>n DEF FrameAt, Index
  <2>5. frn = CallStack!Front(fr)
    BY <2>1, <2>2, <2>4, <1>t, SameFrames
  <2>6. tx_top' # 0 /\ tx_top # 0 /\ tx_balls'[0].tx_uflag = tx_balls[0].tx_uflag
    BY <2>1, <2>3, <1>n DEF Index
  <2> QED BY <1>f, <1>s, <1>n, <2>1, <2>5, <2>6 DEF CallStack!Pop
<1>3. ASSUME NEW u \in Uflag, SetUflag(u) PROVE CallStack!SetUflag(u)
  <2>1. /\ tx_top > 0 /\ tx_uflag' = u
        /\ UNCHANGED <<tx_top, tx_balls, tx_flag, busy, called>>
    BY <1>3 DEF SetUflag
  <2> DEFINE new == [fr EXCEPT ![tx_top].uflag = u]
  <2>2. fr[tx_top] \in CallStack!Frame /\ fr \in [1..tx_top -> CallStack!Frame]
    BY <2>1, <1>s, <1>n, ElementOfSeq, LenProperties
  <2>3. new \in [1..tx_top -> CallStack!Frame]
    BY <2>1, <2>2 DEF CallStack!Frame
  <2>d. new = [fr EXCEPT ![tx_top].uflag = u]
    OBVIOUS
  <2> HIDE DEF new
  <2>4. new \in Seq(CallStack!Frame) /\ Len(new) = tx_top
    BY <2>3, <1>n, SeqDef, LenProperties
  <2>5. ASSUME NEW i \in 1..tx_top PROVE frn[i] = new[i]
    <3>1. frn[i] = FrameAt(i, tx_top, tx_balls, u) /\ fr[i] = FrameAt(i, tx_top, tx_balls, tx_uflag)
      BY <2>1, <1>s, <1>t
    <3>2. CASE i = tx_top
      BY <3>1, <3>2, <2>2, <2>d DEF FrameAt
    <3>3. CASE i # tx_top
      BY <3>1, <3>3, <2>2, <2>d DEF FrameAt
    <3> QED BY <3>2, <3>3
  <2>6. frn = new
    BY <2>1, <2>4, <2>5, <1>t, SameFrames
  <2>7. fr # <<>> /\ tx_top # 0
    BY <2>1, <1>s, <1>n
  <2> QED BY <1>f, <1>s, <1>n, <2>1, <2>6, <2>7, <2>d DEF CallStack!SetUflag
<1>4. ASSUME tx_task_stack_raise PROVE CallStack!Raise
  <2>1. /\ tx_top > 0 /\ tx_top' = 1 /\ tx_flag' = "none" /\ busy' = TRUE
        /\ tx_uflag' = tx_balls[0].tx_uflag
        /\ tx_balls'[0] = tx_balls[0]
        /\ UNCHANGED called
    BY <1>4, <1>n DEF tx_task_stack_raise, RaiseClears, Index
  <2> DEFINE new == <<[call |-> Head(fr).call, uflag |-> tx_balls[0].tx_uflag]>>
  <2>2. Head(fr) = FrameAt(1, tx_top, tx_balls, tx_uflag) /\ fr # <<>>
    BY <2>1, <1>s, <1>n
  <2>3. frn[1] = [call |-> Head(fr).call, uflag |-> tx_balls[0].tx_uflag]
    BY <2>1, <2>2, <1>t DEF FrameAt
  <2>4. frn = new
    BY <2>1, <2>3, <1>t
  <2> QED BY <1>f, <1>s, <1>n, <2>1, <2>2, <2>4 DEF CallStack!Raise
<1>5. ASSUME tx_task_stack_drop PROVE CallStack!Drop
  <2>1. tx_top' = 0 /\ busy' = FALSE /\ UNCHANGED <<tx_balls, tx_uflag, tx_flag, called>>
    BY <1>5 DEF tx_task_stack_drop, Dropped
  <2>2. frn = <<>>
    BY <2>1, <1>t
  <2>3. fr = <<>> <=> tx_top = 0
    BY <1>s, <1>n
  <2>4. tx_top # 0 => CallStack!Last(fr).uflag = tx_uflag
    BY <1>s, <1>n DEF CallStack!Last, FrameAt
  <2> QED BY <1>f, <2>1, <2>2, <2>3, <2>4 DEF CallStack!Drop
<1>6. ASSUME tx_task_stack_active PROVE CallStack!Activate
  <2>1. busy' = TRUE /\ UNCHANGED <<tx_top, tx_balls, tx_uflag, tx_flag, called>>
    BY <1>6 DEF tx_task_stack_active
  <2>2. frames' = frames
    BY <2>1 DEF frames
  <2> QED BY <1>f, <2>1, <2>2 DEF CallStack!Activate
<1>7. ASSUME Callback PROVE CallStack!Run
  <2>1. /\ busy /\ busy' = FALSE /\ tx_top > 0
        /\ called' = tx_balls[tx_top - 1].tx_call
        /\ UNCHANGED <<tx_top, tx_balls, tx_uflag, tx_flag>>
    BY <1>7 DEF Callback
  <2>2. frames' = frames /\ fr # <<>> /\ CallStack!Last(fr).call = tx_balls[tx_top - 1].tx_call
    BY <2>1, <1>s, <1>n DEF frames, CallStack!Last, FrameAt
  <2> QED BY <1>f, <2>1, <2>2 DEF CallStack!Run
<1>8. CASE UNCHANGED vars
  BY <1>8 DEF vars, CallStack!vars, frames
<1> QED BY <1>1, <1>2, <1>3, <1>4, <1>5, <1>6, <1>7, <1>8 DEF Next, CallStack!Next

\* The balls of a task stack implement a stack of frames with flags of their own.
THEOREM BallsAreFrames == Spec => StackRefined
<1>1. Init => CallStack!Init
  <2> SUFFICES ASSUME Init PROVE CallStack!Init
    OBVIOUS
  <2>1. frames = <<>>
    BY DEF Init, frames
  <2> QED BY <2>1 DEF Init, CallStack!Init, Value, CallStack!Result
<1>2. Inv /\ Inv' /\ [Next]_vars => [CallStack!Next]_(CallStack!vars)
  BY StepRefines
<1> QED BY <1>1, <1>2, StackInvariant, PTL DEF Spec, StackRefined, CallStack!Spec
===============================================================================
