---------------------------- MODULE TxKqueueProofs ----------------------------
(***************************************************************************)
(* The kqueue poller: its flags are the kernel's filters, no wakeup is     *)
(* lost, no filter outlives its filp, and what epoll_refcnt counts, for    *)
(* every set of descriptors and tasks and every number of events.          *)
(***************************************************************************)
EXTENDS TxKqueue, FiniteSetTheorems, TLAPS

Filter == [filp : Filp, filter : Dir]

\* The types of the variables.
KqueueTypes ==
    /\ flags \in [Filp -> SUBSET Flag]
    /\ filterin \in [Filp -> Task \cup {NoTask}]
    /\ filterout \in [Filp -> Task \cup {NoTask}]
    /\ active \subseteq Task
    /\ epoll_refcnt \in Int
    /\ held \in BOOLEAN
    /\ pc \in {"user", "poll"}
    /\ events \subseteq Filter
    /\ knote \in [Filp -> SUBSET Dir]
    /\ ready \in [Filp -> SUBSET Dir]
    /\ leaked \in Nat
    /\ failed \subseteq Filter

\* The poller's list of events is empty outside the poller, and a filter that was
\* delivered is not registered: EV_ONESHOT.
EventsInHand ==
    /\ pc = "user" => events = {}
    /\ \A f \in Filp, d \in Dir : [filp |-> f, filter |-> d] \in events => d \notin knote[f]

\* The count as the cardinality of a finite set, and what the holder may rely on in
\* every state, the ones inside the poller included.
CountInv ==
    /\ IsFiniteSet(Filters)
    /\ epoll_refcnt = Cardinality(Filters) + leaked
    /\ epoll_refcnt > 0 => held
    /\ pc = "user" /\ held => epoll_refcnt > 0

KernelInv == KqueueTypes /\ EventsInHand /\ FlagsMatchKernel /\ NoKnoteAfterFini

IndInv == KernelInv /\ NoLostWakeup /\ CountInv
-----------------------------------------------------------------------------
(* Types.                                                                  *)

LEMMA TypesInit == Init => KqueueTypes
<1> SUFFICES ASSUME Init PROVE KqueueTypes
  OBVIOUS
<1>1. held \in BOOLEAN
  BY Zenon DEF Init
<1>2. /\ epoll_refcnt = 0 /\ pc = "user" /\ events = {} /\ leaked = 0 /\ failed = {}
      /\ knote = [f \in Filp |-> {}] /\ ready = [f \in Filp |-> {}]
      /\ AiocbInitially
  BY DEF Init
<1> QED BY <1>1, <1>2 DEF AiocbInitially, KqueueTypes

\* The three outcomes of arming: nothing to do, EV_ADD succeeds, EV_ADD fails.
Kept(f, fl) == flags' = [flags EXCEPT ![f] = fl] /\ UNCHANGED pollVars

Added(f, fl, d) ==
    /\ d \notin fl
    /\ flags' = [flags EXCEPT ![f] = fl \cup {d}]
    /\ knote' = [knote EXCEPT ![f] = @ \cup {d}]
    /\ epoll_refcnt' = epoll_refcnt + 1
    /\ held' = (held \/ epoll_refcnt' > 0)
    /\ failed' = failed \ {[filp |-> f, filter |-> d]}

Refused(f, fl, d) ==
    /\ d \notin fl
    /\ flags' = [flags EXCEPT ![f] = fl]
    /\ held' = (held \/ epoll_refcnt > 0)
    /\ failed' = failed \cup {[filp |-> f, filter |-> d]}
    /\ UNCHANGED <<knote, epoll_refcnt>>

LEMMA ArmCases ==
    ASSUME NEW f \in Filp, NEW fl, NEW d \in Dir, Arm(f, fl, d)
    PROVE  (d \in fl /\ Kept(f, fl)) \/ Added(f, fl, d) \/ Refused(f, fl, d)
<1>1. CASE d \in fl
  BY <1>1 DEF Arm, Kept
<1>2. CASE d \notin fl
  <2>1. KqueuePoll(f, fl, d)
    BY <1>2 DEF Arm, tx_kqueue_pollin, tx_kqueue_pollout, Dir
  <2>2. fl \cup {} = fl
    OBVIOUS
  <2> QED BY <1>2, <2>1, <2>2, Zenon DEF KqueuePoll, Counts, FlagsIfFailed, Added, Refused
<1> QED BY <1>1, <1>2

LEMMA TypesStep == ASSUME KqueueTypes, [Next]_vars PROVE KqueueTypes'
<1> USE AiocbAssumption DEF KqueueTypes, Filter, Dir, POLL, Flag
<1>1. ASSUME NEW f \in Filp, AiocbInit(f) PROVE KqueueTypes'
  BY <1>1 DEF AiocbInit, Initialise
<1>2. ASSUME NEW f \in Filp, Fini(f) PROVE KqueueTypes'
  BY <1>2 DEF Fini, Deleted
<1>3. ASSUME NEW f \in Filp, Eagain(f) PROVE KqueueTypes'
  BY <1>3 DEF Eagain, tx_aincb_update, tx_outcb_update, GotEagain, pollVars
<1>4. ASSUME NEW f \in Filp, NEW d \in Dir, BecomesReady(f, d) \/ UsedUp(f, d)
      PROVE  KqueueTypes'
  BY <1>4 DEF BecomesReady, UsedUp, aiocbVars, pollVars
<1>5. ASSUME NEW f \in Filp, NEW fl \in SUBSET Flag, NEW d \in Dir, Arm(f, fl, d)
      PROVE  /\ flags' \in [Filp -> SUBSET Flag]
             /\ epoll_refcnt' \in Int /\ held' \in BOOLEAN
             /\ knote' \in [Filp -> SUBSET Dir] /\ failed' \subseteq Filter
  <2>1. CASE Kept(f, fl)
    BY <2>1 DEF Kept, pollVars
  <2>2. CASE Added(f, fl, d)
    <3>1. held' \in BOOLEAN
      BY <2>2, Zenon DEF Added
    <3> QED BY <2>2, <3>1 DEF Added
  <2>3. CASE Refused(f, fl, d)
    <3>1. held' \in BOOLEAN
      BY <2>3, Zenon DEF Refused
    <3> QED BY <2>3, <3>1 DEF Refused
  <2> QED BY <1>5, ArmCases, <2>1, <2>2, <2>3
<1>6. ASSUME NEW f \in Filp, NEW t \in Task, ActiveIn(f, t) PROVE KqueueTypes'
  BY <1>5, <1>6 DEF ActiveIn, ReadNow, ReadLater, filpVars, pollVars
<1>7. ASSUME NEW f \in Filp, NEW t \in Task, ActiveOut(f, t) PROVE KqueueTypes'
  BY <1>5, <1>7 DEF ActiveOut, WriteNow, WriteLater, filpVars, pollVars
<1>8. ASSUME NEW f \in Filp, NEW t \in Task, Connect(f, t) PROVE KqueueTypes'
  <2>1. CASE ConnectNow(f, t) /\ UNCHANGED pollVars
    <3>1. PICK r \in SUBSET {"READABLE"} :
                  flags' = [flags EXCEPT ![f] = @ \cup {"WRITABLE"} \cup r]
      BY <2>1 DEF ConnectNow
    <3>2. flags[f] \cup {"WRITABLE"} \cup r \in SUBSET Flag
      OBVIOUS
    <3>3. flags' \in [Filp -> SUBSET Flag]
      BY <3>1, <3>2
    <3> QED BY <1>8, <2>1, <3>3 DEF Connect, ConnectNow, pollVars
  <2>2. CASE ConnectLater(f, t) /\ Arm(f, Connecting(flags[f]), "POLLOUT")
    <3>1. Connecting(flags[f]) \in SUBSET Flag
      BY DEF Connecting
    <3> QED BY <1>5, <1>8, <2>2, <3>1 DEF Connect, ConnectLater
  <2> QED BY <1>8, <2>1, <2>2 DEF Connect
<1>9. ASSUME NEW f \in Filp, NEW t \in Task, Cancel(f, t) PROVE KqueueTypes'
  BY <1>9 DEF Cancel, CancelIn, CancelOut, pollVars
<1>10. ASSUME NEW t \in Task, Run(t) PROVE KqueueTypes'
  BY <1>10 DEF Run, RunTask, filpVars, pollVars
<1>11. ASSUME NEW S \in SUBSET Reportable, PollWait(S) PROVE KqueueTypes'
  BY <1>11 DEF PollWait, Reportable, aiocbVars
<1>12. ASSUME NEW ev \in events, HandleRead(ev) \/ HandleWrite(ev) PROVE KqueueTypes'
  BY <1>12 DEF HandleRead, HandleWrite, Activated, Cleared
<1>13. CASE PollDone
  BY <1>13 DEF PollDone, aiocbVars
<1>14. CASE UNCHANGED vars
  BY <1>14 DEF vars, aiocbVars
<1> QED
  BY <1>1, <1>2, <1>3, <1>4, <1>6, <1>7, <1>8, <1>9, <1>10, <1>11, <1>12, <1>13, <1>14
     DEF Next, Use, Poll, Handle
-----------------------------------------------------------------------------
(* Flags and filters.                                                      *)

\* What the flags, the filters and the events say of each other.
Agree == EventsInHand /\ FlagsMatchKernel /\ NoKnoteAfterFini

LEMMA AgreeStep == ASSUME KernelInv, [Next]_vars PROVE Agree'
<1> USE DEF Agree, KernelInv, KqueueTypes, Filter, EventsInHand, FlagsMatchKernel,
            NoKnoteAfterFini, InKernel, Attached, Dir, POLL
<1>1. ASSUME NEW f \in Filp, AiocbInit(f) PROVE Agree'
  BY <1>1 DEF AiocbInit, Initialise, InUser
<1>2. ASSUME NEW f \in Filp, Fini(f) PROVE Agree'
  <2>1. events = {} /\ events' = {} /\ pc' = "user" /\ knote[f] = flags[f] \cap POLL
    BY <1>2 DEF Fini, InUser
  <2>2. /\ flags' = [flags EXCEPT ![f] = @ \cup {"DETACHED"}]
        /\ knote' = [knote EXCEPT ![f] = {}]
    BY <1>2, <2>1 DEF Fini, Deleted
  <2> QED BY <2>1, <2>2
<1>3. ASSUME NEW f \in Filp, Eagain(f) PROVE Agree'
  BY <1>3 DEF Eagain, tx_aincb_update, tx_outcb_update, GotEagain, pollVars
<1>4. ASSUME NEW f \in Filp, NEW d \in Dir, BecomesReady(f, d) \/ UsedUp(f, d)
      PROVE  Agree'
  BY <1>4 DEF BecomesReady, UsedUp, aiocbVars, pollVars
<1>5. ASSUME NEW f \in Filp, NEW fl \in SUBSET Flag, NEW d \in Dir, Arm(f, fl, d),
             Attached(f), pc = "user", UNCHANGED <<pc, events>>,
             fl \cap (POLL \cup {"ATTACHED", "DETACHED"})
               = flags[f] \cap (POLL \cup {"ATTACHED", "DETACHED"})
      PROVE  Agree'
  <2>1. CASE Kept(f, fl)
    BY <1>5, <2>1 DEF Kept, pollVars
  <2>2. CASE Added(f, fl, d)
    BY <1>5, <2>2 DEF Added
  <2>3. CASE Refused(f, fl, d)
    BY <1>5, <2>3 DEF Refused
  <2> QED BY <1>5, ArmCases, <2>1, <2>2, <2>3
<1>6. ASSUME NEW f \in Filp, NEW t \in Task, ActiveIn(f, t) PROVE Agree'
  BY <1>5, <1>6 DEF ActiveIn, ReadNow, ReadLater, filpVars, pollVars, InUser
<1>7. ASSUME NEW f \in Filp, NEW t \in Task, ActiveOut(f, t) PROVE Agree'
  BY <1>5, <1>7 DEF ActiveOut, WriteNow, WriteLater, filpVars, pollVars, InUser
<1>8. ASSUME NEW f \in Filp, NEW t \in Task, Connect(f, t) PROVE Agree'
  <2>1. CASE ConnectNow(f, t) /\ UNCHANGED pollVars
    BY <1>8, <2>1 DEF Connect, ConnectNow, pollVars
  <2>2. CASE ConnectLater(f, t) /\ Arm(f, Connecting(flags[f]), "POLLOUT")
    <3>1. /\ Connecting(flags[f]) \in SUBSET Flag
          /\ Connecting(flags[f]) \cap (POLL \cup {"ATTACHED", "DETACHED"})
               = flags[f] \cap (POLL \cup {"ATTACHED", "DETACHED"})
      BY DEF Connecting
    <3> QED BY <1>5, <1>8, <2>2, <3>1 DEF Connect, InUser
  <2> QED BY <1>8, <2>1, <2>2 DEF Connect
<1>9. ASSUME NEW f \in Filp, NEW t \in Task, Cancel(f, t) PROVE Agree'
  BY <1>9 DEF Cancel, CancelIn, CancelOut, pollVars
<1>10. ASSUME NEW t \in Task, Run(t) PROVE Agree'
  BY <1>10 DEF Run, RunTask, filpVars, pollVars
<1>11. ASSUME NEW S \in SUBSET Reportable, PollWait(S) PROVE Agree'
  BY <1>11 DEF PollWait, Reportable, aiocbVars
<1>12. ASSUME NEW ev \in events, HandleRead(ev) \/ HandleWrite(ev) PROVE Agree'
  <2> DEFINE f == ev.filp
             d == ev.filter
  <2>1. f \in Filp /\ d \in Dir /\ ev = [filp |-> f, filter |-> d]
    OBVIOUS
  <2>2. /\ pc = "poll" /\ events' = events \ {ev} /\ UNCHANGED <<pc, knote>>
        /\ \E r \in {"READABLE", "WRITABLE"} : flags' = [flags EXCEPT ![f] = (@ \cup {r}) \ {d}]
    BY <1>12 DEF HandleRead, HandleWrite, Cleared
  <2> HIDE DEF f, d
  <2>3. d \in InKernel(f) /\ d \notin knote[f]
    BY <2>1
  <2>4. InKernel(f)' = InKernel(f) \ {d}
    BY <2>1, <2>2, <2>3
  <2>5. \A g \in Filp \ {f} : InKernel(g)' = InKernel(g) /\ flags'[g] = flags[g]
    BY <2>1, <2>2
  <2>6. /\ (flags[f] \cap POLL)' = (flags[f] \cap POLL) \ {d}
        /\ Attached(f)' = Attached(f)
    BY <2>1, <2>2
  <2>7. EventsInHand'
    BY <2>2
  <2>8. \A g \in Filp : Attached(g)' => (flags[g] \cap POLL)' = InKernel(g)'
    BY <2>4, <2>5, <2>6
  <2>9. \A g \in Filp : ~Attached(g)' => InKernel(g)' = {}
    BY <2>3, <2>4, <2>5, <2>6
  <2> QED BY <2>7, <2>8, <2>9
<1>13. CASE PollDone
  BY <1>13 DEF PollDone, aiocbVars
<1>14. CASE UNCHANGED vars
  BY <1>14 DEF vars, aiocbVars
<1> QED
  BY <1>1, <1>2, <1>3, <1>4, <1>6, <1>7, <1>8, <1>9, <1>10, <1>11, <1>12, <1>13, <1>14
     DEF Next, Use, Poll, Handle
-----------------------------------------------------------------------------
(* No wakeup is lost.                                                      *)

\* NoLostWakeup of one filp and direction.
Served(f, d) ==
    /\ Attached(f)
    /\ Waiter(f, d) # NoTask
    /\ [filp |-> f, filter |-> d] \notin failed
    => d \in InKernel(f)

\* NoLostWakeup quantifies over filters, the actions over filps and directions.
LEMMA PerFilp == NoLostWakeup <=> \A f \in Filp, d \in Dir : Served(f, d)
<1>1. ASSUME NoLostWakeup, NEW f \in Filp, NEW d \in Dir PROVE Served(f, d)
  <2> DEFINE e == [filp |-> f, filter |-> d]
  <2>1. e \in [filp : Filp, filter : Dir] /\ e.filp = f /\ e.filter = d
    OBVIOUS
  <2> HIDE DEF e
  <2> QED BY <1>1, <2>1 DEF NoLostWakeup, Served, e
<1>2. ASSUME \A f \in Filp, d \in Dir : Served(f, d) PROVE NoLostWakeup
  <2> SUFFICES ASSUME NEW e \in [filp : Filp, filter : Dir] \ failed,
                      Attached(e.filp), Waiter(e.filp, e.filter) # NoTask
               PROVE  e.filter \in InKernel(e.filp)
    BY DEF NoLostWakeup
  <2>1. e.filp \in Filp /\ e.filter \in Dir /\ e = [filp |-> e.filp, filter |-> e.filter]
    OBVIOUS
  <2> QED BY <1>2, <2>1 DEF Served
<1> QED BY <1>1, <1>2

\* The step of NoLostWakeup: a waiter comes with its filter, and goes with its event.
LEMMA WakeupStep == ASSUME KernelInv, NoLostWakeup, [Next]_vars PROVE NoLostWakeup'
<1> DEFINE All == \A f \in Filp, d \in Dir : Served(f, d)
<1>a. All
  BY PerFilp
<1>b. All' => NoLostWakeup'
  BY PerFilp, PTL
<1> SUFFICES All'
  BY <1>b
<1> USE DEF KernelInv, KqueueTypes, Served, Filter, EventsInHand, FlagsMatchKernel,
            InKernel, Attached, Waiter, Dir, POLL
<1>1. ASSUME NEW f \in Filp, AiocbInit(f) PROVE All'
  BY <1>a, <1>1 DEF AiocbInit, Initialise
<1>2. ASSUME NEW f \in Filp, Fini(f) PROVE All'
  <2>1. /\ ~Attached(f)'
        /\ \A g \in Filp \ {f} : flags'[g] = flags[g] /\ knote'[g] = knote[g]
        /\ UNCHANGED <<filterin, filterout, events, failed>>
    <3>1. events = {} /\ knote[f] = flags[f] \cap POLL
      BY <1>2 DEF Fini, InUser
    <3>2. flags' = [flags EXCEPT ![f] = @ \cup {"DETACHED"}]
      BY <1>2, <3>1 DEF Fini, Deleted
    <3> QED BY <1>2, <3>2 DEF Fini
  <2> QED BY <1>a, <2>1
<1>3. ASSUME NEW f \in Filp, Eagain(f) PROVE All'
  <2>1. /\ \A g \in Filp : Attached(g)' = Attached(g)
        /\ UNCHANGED <<filterin, filterout, events, knote, failed>>
    BY <1>3 DEF Eagain, tx_aincb_update, tx_outcb_update, GotEagain, pollVars
  <2> QED BY <1>a, <2>1
<1>4. ASSUME NEW f \in Filp, NEW d \in Dir, BecomesReady(f, d) \/ UsedUp(f, d)
      PROVE  All'
  BY <1>a, <1>4 DEF BecomesReady, UsedUp, aiocbVars, pollVars
<1>5. ASSUME NEW f \in Filp, NEW fl \in SUBSET Flag, NEW d \in Dir, Arm(f, fl, d),
             Attached(f), pc = "user", UNCHANGED events,
             fl \cap (POLL \cup {"ATTACHED", "DETACHED"})
               = flags[f] \cap (POLL \cup {"ATTACHED", "DETACHED"}),
             \A g \in Filp, c \in Dir :
                 <<g, c>> # <<f, d>> => Waiter(g, c)' = Waiter(g, c)
      PROVE  All'
  <2>1. \A g \in Filp : Attached(g)' = Attached(g) /\ knote[g] \subseteq knote'[g]
    <3>1. CASE Kept(f, fl)
      BY <1>5, <3>1 DEF Kept, pollVars
    <3>2. CASE Added(f, fl, d)
      BY <1>5, <3>2 DEF Added
    <3>3. CASE Refused(f, fl, d)
      BY <1>5, <3>3 DEF Refused
    <3> QED BY <1>5, ArmCases, <3>1, <3>2, <3>3
  <2>2. \A g \in Filp, c \in Dir : <<g, c>> # <<f, d>>
            => ([filp |-> g, filter |-> c] \in failed' <=> [filp |-> g, filter |-> c] \in failed)
    <3>1. CASE Kept(f, fl)
      BY <1>5, <3>1 DEF Kept, pollVars
    <3>2. CASE Added(f, fl, d)
      BY <1>5, <3>2 DEF Added
    <3>3. CASE Refused(f, fl, d)
      BY <1>5, <3>3 DEF Refused
    <3>4. (d \in fl /\ Kept(f, fl)) \/ Added(f, fl, d) \/ Refused(f, fl, d)
      BY <1>5, ArmCases
    <3> QED BY <3>1, <3>2, <3>3, <3>4
  <2>3. d \in knote'[f] \/ [filp |-> f, filter |-> d] \in failed'
    <3>1. CASE d \in fl /\ Kept(f, fl)
      BY <1>5, <3>1 DEF Kept, pollVars
    <3>2. CASE Added(f, fl, d)
      BY <1>5, <3>2 DEF Added
    <3>3. CASE Refused(f, fl, d)
      BY <1>5, <3>3 DEF Refused
    <3> QED BY <1>5, ArmCases, <3>1, <3>2, <3>3
  <2>4. ASSUME NEW g \in Filp, NEW c \in Dir, <<g, c>> # <<f, d>> PROVE Served(g, c)'
    BY <1>a, <1>5, <2>1, <2>2, <2>4
  <2>5. Served(f, d)'
    BY <2>3
  <2> QED BY <2>4, <2>5
<1>6. ASSUME NEW f \in Filp, NEW t \in Task, ActiveIn(f, t) PROVE All'
  <2>1. CASE ReadNow(f, t) /\ UNCHANGED pollVars
    BY <1>a, <1>6, <2>1 DEF ActiveIn, ReadNow, filpVars, pollVars
  <2>2. CASE ReadLater(f, t) /\ Arm(f, flags[f], "POLLIN")
    <3>1. \A g \in Filp, c \in Dir : <<g, c>> # <<f, "POLLIN">> => Waiter(g, c)' = Waiter(g, c)
      BY <2>2 DEF ReadLater
    <3> QED BY <1>5, <1>6, <2>2, <3>1 DEF ActiveIn, InUser
  <2> QED BY <1>6, <2>1, <2>2 DEF ActiveIn
<1>7. ASSUME NEW f \in Filp, NEW t \in Task, ActiveOut(f, t) PROVE All'
  <2>1. CASE WriteNow(f, t) /\ UNCHANGED pollVars
    BY <1>a, <1>7, <2>1 DEF ActiveOut, WriteNow, filpVars, pollVars
  <2>2. CASE WriteLater(f, t) /\ Arm(f, flags[f], "POLLOUT")
    <3>1. \A g \in Filp, c \in Dir : <<g, c>> # <<f, "POLLOUT">> => Waiter(g, c)' = Waiter(g, c)
      BY <2>2 DEF WriteLater
    <3> QED BY <1>5, <1>7, <2>2, <3>1 DEF ActiveOut, InUser
  <2> QED BY <1>7, <2>1, <2>2 DEF ActiveOut
<1>8. ASSUME NEW f \in Filp, NEW t \in Task, Connect(f, t) PROVE All'
  <2>1. CASE ConnectNow(f, t) /\ UNCHANGED pollVars
    BY <1>a, <1>8, <2>1 DEF Connect, ConnectNow, pollVars
  <2>2. CASE ConnectLater(f, t) /\ Arm(f, Connecting(flags[f]), "POLLOUT")
    <3>1. /\ Connecting(flags[f]) \in SUBSET Flag
          /\ Connecting(flags[f]) \cap (POLL \cup {"ATTACHED", "DETACHED"})
               = flags[f] \cap (POLL \cup {"ATTACHED", "DETACHED"})
      BY DEF Connecting
    <3>2. \A g \in Filp, c \in Dir : <<g, c>> # <<f, "POLLOUT">> => Waiter(g, c)' = Waiter(g, c)
      BY <2>2 DEF ConnectLater
    <3> QED BY <1>5, <1>8, <2>2, <3>1, <3>2 DEF Connect, InUser
  <2> QED BY <1>8, <2>1, <2>2 DEF Connect
<1>9. ASSUME NEW f \in Filp, NEW t \in Task, Cancel(f, t) PROVE All'
  <2>1. /\ \A g \in Filp, c \in Dir : Waiter(g, c)' \in {NoTask, Waiter(g, c)}
        /\ UNCHANGED <<flags, events, knote, failed>>
    BY <1>9 DEF Cancel, CancelIn, CancelOut, pollVars
  <2> QED BY <1>a, <2>1
<1>10. ASSUME NEW t \in Task, Run(t) PROVE All'
  BY <1>a, <1>10 DEF Run, RunTask, filpVars, pollVars
<1>11. ASSUME NEW S \in SUBSET Reportable, PollWait(S) PROVE All'
  <2>1. \A f \in Filp, d \in Dir : d \in InKernel(f) => d \in InKernel(f)'
    BY <1>11 DEF PollWait
  <2> QED BY <1>a, <1>11, <2>1 DEF PollWait, aiocbVars
<1>12. ASSUME NEW ev \in events, HandleRead(ev) \/ HandleWrite(ev) PROVE All'
  <2> DEFINE f == ev.filp
             d == ev.filter
  <2>1. f \in Filp /\ d \in Dir /\ ev = [filp |-> f, filter |-> d]
    OBVIOUS
  <2>2. /\ events' = events \ {ev} /\ UNCHANGED <<knote, failed>>
        /\ \A g \in Filp : Attached(g)' = Attached(g)
        /\ \A g \in Filp, c \in Dir : <<g, c>> # <<f, d>> => Waiter(g, c)' = Waiter(g, c)
        /\ Waiter(f, d)' = NoTask
    <3>1. CASE HandleRead(ev)
      BY <2>1, <3>1 DEF HandleRead, Cleared
    <3>2. CASE HandleWrite(ev)
      BY <2>1, <3>2 DEF HandleWrite, Cleared
    <3> QED BY <1>12, <3>1, <3>2
  <2> HIDE DEF f, d
  <2> QED BY <1>a, <2>1, <2>2
<1>13. CASE PollDone
  BY <1>a, <1>13 DEF PollDone, aiocbVars
<1>14. CASE UNCHANGED vars
  BY <1>a, <1>14 DEF vars, aiocbVars
<1> QED
  BY <1>1, <1>2, <1>3, <1>4, <1>6, <1>7, <1>8, <1>9, <1>10, <1>11, <1>12, <1>13, <1>14
     DEF Next, Use, Poll, Handle
-----------------------------------------------------------------------------
(* What epoll_refcnt counts.                                               *)

\* A filter is registered or in hand.
LEMMA InFilters ==
    ASSUME NEW f \in Filp, NEW d \in Dir
    PROVE  [filp |-> f, filter |-> d] \in Filters <=> d \in InKernel(f)
BY DEF Filters

\* Filters is determined by InKernel.
LEMMA SameFilters ==
    ASSUME \A f \in Filp : InKernel(f)' = InKernel(f)
    PROVE  Filters' = Filters
<1>1. \A e \in [filp : Filp, filter : Dir] : e.filp \in Filp
  OBVIOUS
<1> QED BY <1>1 DEF Filters

\* A step that leaves the filters, the count and the holder alone keeps CountInv.
LEMMA CountKept ==
    ASSUME CountInv, Filters' = Filters, UNCHANGED <<epoll_refcnt, held, leaked>>,
           pc' = "user" => pc = "user"
    PROVE  CountInv'
BY DEF CountInv

\* EV_ADD of a filter that does not exist.
LEMMA FilterAdded ==
    ASSUME NEW f \in Filp, NEW d \in Dir, d \notin InKernel(f),
           InKernel(f)' = InKernel(f) \cup {d},
           \A g \in Filp \ {f} : InKernel(g)' = InKernel(g)
    PROVE  LET e == [filp |-> f, filter |-> d]
           IN  e \notin Filters /\ Filters' = Filters \cup {e}
<1> DEFINE e == [filp |-> f, filter |-> d]
<1>1. e \notin Filters
  BY InFilters
<1>2. \A x \in [filp : Filp, filter : Dir] :
          x.filter \in InKernel(x.filp)' <=> x.filter \in InKernel(x.filp) \/ x = e
  OBVIOUS
<1>3. e \in [filp : Filp, filter : Dir]
  OBVIOUS
<1> HIDE DEF e
<1>4. Filters' = Filters \cup {e}
  BY <1>2, <1>3 DEF Filters
<1> QED BY <1>1, <1>4 DEF e

\* The end of a filter.
LEMMA FilterRemoved ==
    ASSUME NEW f \in Filp, NEW d \in Dir, d \in InKernel(f),
           InKernel(f)' = InKernel(f) \ {d},
           \A g \in Filp \ {f} : InKernel(g)' = InKernel(g)
    PROVE  LET e == [filp |-> f, filter |-> d]
           IN  e \in Filters /\ Filters' = Filters \ {e}
<1> DEFINE e == [filp |-> f, filter |-> d]
<1>1. e \in Filters
  BY InFilters
<1>2. \A x \in [filp : Filp, filter : Dir] :
          x.filter \in InKernel(x.filp)' <=> x.filter \in InKernel(x.filp) /\ x # e
  OBVIOUS
<1>3. e \in [filp : Filp, filter : Dir]
  OBVIOUS
<1> HIDE DEF e
<1>4. Filters' = Filters \ {e}
  BY <1>2, <1>3 DEF Filters
<1> QED BY <1>1, <1>4 DEF e

\* The end of both filters of a filp.
LEMMA FiltersRemoved ==
    ASSUME NEW f \in Filp, InKernel(f) = Dir, InKernel(f)' = {},
           \A g \in Filp \ {f} : InKernel(g)' = InKernel(g), IsFiniteSet(Filters)
    PROVE  /\ IsFiniteSet(Filters')
           /\ Cardinality(Filters') = Cardinality(Filters) - 2
<1> DEFINE i == [filp |-> f, filter |-> "POLLIN"]
           o == [filp |-> f, filter |-> "POLLOUT"]
<1>1. i \in Filters /\ o \in Filters /\ i # o
  BY InFilters DEF Dir
<1>2. \A x \in [filp : Filp, filter : Dir] :
          x.filter \in InKernel(x.filp)' <=> x.filter \in InKernel(x.filp) /\ x # i /\ x # o
  BY DEF Dir
<1> HIDE DEF i, o
<1>3. Filters' = (Filters \ {i}) \ {o}
  BY <1>2 DEF Filters
<1>4. /\ IsFiniteSet(Filters \ {i})
      /\ Cardinality(Filters \ {i}) = Cardinality(Filters) - 1
  BY <1>1, FS_RemoveElement
<1>5. /\ IsFiniteSet((Filters \ {i}) \ {o})
      /\ Cardinality((Filters \ {i}) \ {o}) = Cardinality(Filters \ {i}) - 1
  BY <1>1, <1>4, FS_RemoveElement
<1>6. Cardinality(Filters) \in Nat
  BY FS_CardinalityType
<1> QED BY <1>3, <1>4, <1>5, <1>6

\* The sizes of the sets tx_kqueue_detach can find armed.
LEMMA ArmedSizes ==
    /\ Cardinality({}) = 0
    /\ Cardinality({"POLLIN"}) = 1 /\ Cardinality({"POLLOUT"}) = 1
    /\ Cardinality(POLL) = 2
<1>1. POLL = {"POLLIN"} \cup {"POLLOUT"}
  BY DEF POLL
<1>2. IsFiniteSet({"POLLIN"}) /\ Cardinality({"POLLIN"}) = 1 /\ Cardinality({"POLLOUT"}) = 1
  BY FS_Singleton
<1>3. Cardinality({"POLLIN"} \cup {"POLLOUT"}) = 2
  BY <1>2, FS_AddElement
<1> QED BY <1>1, <1>2, <1>3, FS_EmptySet

\* tx_kqueue_detach: one is subtracted for one filter or for two.
LEMMA CountFini ==
    ASSUME KernelInv, CountInv, NEW f \in Filp, Fini(f)
    PROVE  CountInv'
<1> DEFINE armed == flags[f] \cap POLL
           n == Cardinality(Filters)
<1> USE DEF KernelInv, KqueueTypes
<1>1. n \in Nat /\ leaked \in Nat /\ epoll_refcnt = n + leaked
  BY FS_CardinalityType DEF CountInv
<1>2. /\ InKernel(f) = armed
      /\ InKernel(f)' = {}
      /\ \A g \in Filp \ {f} : InKernel(g)' = InKernel(g)
  <2>1. events = {} /\ knote[f] = armed
    BY DEF Fini, InUser, EventsInHand, FlagsMatchKernel, InKernel, Dir, POLL
  <2>2. knote' = [knote EXCEPT ![f] = {}] /\ events' = {}
    BY <2>1 DEF Fini, Deleted
  <2> QED BY <2>1, <2>2 DEF InKernel, Dir, POLL
<1>3. /\ epoll_refcnt' = epoll_refcnt - (IF armed # {} THEN 1 ELSE 0)
      /\ leaked' = leaked + (IF Cardinality(armed) = 2 THEN 1 ELSE 0)
      /\ pc = "user" /\ pc' = "user"
  BY DEF Fini, InUser
<1>4. (epoll_refcnt > 0 => held) /\ (held => epoll_refcnt > 0)
  BY <1>3 DEF CountInv
<1>5. held' <=> held /\ ~(armed # {} /\ epoll_refcnt' = 0)
  BY Zenon DEF Fini
<1>6. /\ IsFiniteSet(Filters')
      /\ epoll_refcnt' = Cardinality(Filters') + leaked'
  <2>1. CASE armed = {}
    <3>1. Filters' = Filters
      BY <1>2, <2>1, SameFilters
    <3>2. epoll_refcnt' = epoll_refcnt - 0 /\ leaked' = leaked + 0
      <4> HIDE DEF armed
      <4>1. Cardinality(armed) = 0
        BY <2>1, ArmedSizes
      <4> QED BY <1>3, <2>1, <4>1
    <3> HIDE DEF armed
    <3> QED BY <1>1, <3>1, <3>2 DEF CountInv
  <2>2. ASSUME NEW d \in Dir, armed = {d}
        PROVE  /\ IsFiniteSet(Filters')
               /\ epoll_refcnt' = Cardinality(Filters') + leaked'
    <3> DEFINE e == [filp |-> f, filter |-> d]
    <3>1. e \in Filters /\ Filters' = Filters \ {e}
      BY <1>2, <2>2, FilterRemoved
    <3> HIDE DEF e
    <3>2. IsFiniteSet(Filters') /\ Cardinality(Filters') = n - 1
      BY <3>1, FS_RemoveElement DEF CountInv
    <3>3. Cardinality(armed) = 1
      BY <2>2, ArmedSizes DEF Dir
    <3>4. epoll_refcnt' = epoll_refcnt - 1 /\ leaked' = leaked + 0
      BY <1>3, <2>2, <3>3
    <3> HIDE DEF armed
    <3> QED BY <1>1, <3>2, <3>4
  <2>3. CASE armed = POLL
    <3>1. IsFiniteSet(Filters') /\ Cardinality(Filters') = n - 2
      BY <1>2, <2>3, FiltersRemoved DEF CountInv, POLL, Dir
    <3>2. epoll_refcnt' = epoll_refcnt - 1 /\ leaked' = leaked + 1
      <4>1. Cardinality(armed) = 2 /\ armed # {}
        BY <2>3, ArmedSizes DEF POLL
      <4> QED BY <1>3, <4>1
    <3> HIDE DEF armed
    <3> QED BY <1>1, <3>1, <3>2
  <2>4. armed \in {{}, {"POLLIN"}, {"POLLOUT"}, POLL}
    BY DEF POLL
  <2> QED BY <2>1, <2>2, <2>3, <2>4 DEF Dir
<1>7. Cardinality(Filters') \in Nat /\ leaked' \in Nat
  BY <1>1, <1>3, <1>6, FS_CardinalityType
<1> HIDE DEF armed, n
<1>8. /\ epoll_refcnt' > 0 => held'
      /\ held' => epoll_refcnt' > 0
  BY <1>1, <1>3, <1>4, <1>5, <1>6, <1>7
<1> QED BY <1>6, <1>8 DEF CountInv

\* EV_ADD, or nothing, from inside the application.
LEMMA CountArm ==
    ASSUME KernelInv, CountInv, NEW f \in Filp, NEW fl, NEW d \in Dir, Arm(f, fl, d),
           Attached(f), pc = "user", fl \cap POLL = flags[f] \cap POLL,
           UNCHANGED <<pc, events, leaked>>
    PROVE  CountInv'
<1> USE DEF KernelInv, KqueueTypes
<1>1. CASE Kept(f, fl)
  <2>1. \A g \in Filp : InKernel(g)' = InKernel(g)
    BY <1>1 DEF Kept, pollVars, InKernel
  <2> QED BY <1>1, <2>1, SameFilters, CountKept DEF Kept, pollVars
<1>2. CASE Added(f, fl, d)
  <2> DEFINE e == [filp |-> f, filter |-> d]
  <2>1. d \notin InKernel(f)
    BY <1>2 DEF Added, FlagsMatchKernel, POLL, Dir
  <2>2. /\ InKernel(f)' = InKernel(f) \cup {d}
        /\ \A g \in Filp \ {f} : InKernel(g)' = InKernel(g)
    BY <1>2 DEF Added, InKernel
  <2>3. e \notin Filters /\ Filters' = Filters \cup {e}
    BY <2>1, <2>2, FilterAdded
  <2> HIDE DEF e
  <2>4. IsFiniteSet(Filters') /\ Cardinality(Filters') = Cardinality(Filters) + 1
    BY <2>3, FS_AddElement DEF CountInv
  <2>5. Cardinality(Filters) \in Nat
    BY FS_CardinalityType DEF CountInv
  <2>6. epoll_refcnt' = epoll_refcnt + 1 /\ epoll_refcnt' = Cardinality(Filters') + leaked'
    BY <1>2, <2>4, <2>5 DEF Added, CountInv
  <2>7. epoll_refcnt' > 0
    BY <2>5, <2>6 DEF CountInv
  <2>8. held'
    BY <1>2, <2>7, Zenon DEF Added
  <2> QED BY <2>4, <2>6, <2>7, <2>8 DEF CountInv
<1>3. CASE Refused(f, fl, d)
  <2>1. \A g \in Filp : InKernel(g)' = InKernel(g)
    BY <1>3 DEF Refused, InKernel
  <2>2. Filters' = Filters /\ epoll_refcnt' = epoll_refcnt
    BY <1>3, <2>1, SameFilters DEF Refused
  <2>3. held' <=> held \/ epoll_refcnt > 0
    BY <1>3, Zenon DEF Refused
  <2> QED BY <2>2, <2>3 DEF CountInv
<1> QED BY ArmCases, <1>1, <1>2, <1>3

\* The step of CountInv.
LEMMA CountStep == ASSUME KernelInv, CountInv, [Next]_vars PROVE CountInv'
<1> USE DEF KernelInv, KqueueTypes
<1>a. ASSUME UNCHANGED <<knote, events, epoll_refcnt, held, leaked, pc>> PROVE CountInv'
  <2>1. \A g \in Filp : InKernel(g)' = InKernel(g)
    BY <1>a DEF InKernel
  <2> QED BY <1>a, <2>1, SameFilters, CountKept
<1>1. ASSUME NEW f \in Filp, AiocbInit(f) PROVE CountInv'
  BY <1>1, <1>a DEF AiocbInit
<1>2. ASSUME NEW f \in Filp, Fini(f) PROVE CountInv'
  BY <1>2, CountFini
<1>3. ASSUME NEW f \in Filp, Eagain(f) PROVE CountInv'
  BY <1>3, <1>a DEF Eagain, pollVars
<1>4. ASSUME NEW f \in Filp, NEW d \in Dir, BecomesReady(f, d) \/ UsedUp(f, d)
      PROVE  CountInv'
  BY <1>4, <1>a DEF BecomesReady, UsedUp, pollVars
<1>5. ASSUME NEW f \in Filp, NEW t \in Task, ActiveIn(f, t) PROVE CountInv'
  BY <1>5, <1>a, CountArm DEF ActiveIn, InUser, pollVars, Dir
<1>6. ASSUME NEW f \in Filp, NEW t \in Task, ActiveOut(f, t) PROVE CountInv'
  BY <1>6, <1>a, CountArm DEF ActiveOut, InUser, pollVars, Dir
<1>7. ASSUME NEW f \in Filp, NEW t \in Task, Connect(f, t) PROVE CountInv'
  <2>1. Connecting(flags[f]) \cap POLL = flags[f] \cap POLL
    BY DEF Connecting, POLL
  <2> QED BY <1>7, <1>a, <2>1, CountArm DEF Connect, InUser, pollVars, Dir
<1>8. ASSUME NEW f \in Filp, NEW t \in Task, Cancel(f, t) PROVE CountInv'
  BY <1>8, <1>a DEF Cancel, pollVars
<1>9. ASSUME NEW t \in Task, Run(t) PROVE CountInv'
  BY <1>9, <1>a DEF Run, pollVars
<1>10. ASSUME NEW S \in SUBSET Reportable, PollWait(S) PROVE CountInv'
  <2>1. \A g \in Filp : InKernel(g)' = InKernel(g)
    BY <1>10 DEF PollWait, InKernel, Reportable, EventsInHand
  <2> QED BY <1>10, <2>1, SameFilters, CountKept DEF PollWait
<1>11. ASSUME NEW ev \in events, HandleRead(ev) \/ HandleWrite(ev) PROVE CountInv'
  <2> DEFINE f == ev.filp
             d == ev.filter
  <2>1. f \in Filp /\ d \in Dir /\ ev = [filp |-> f, filter |-> d]
    BY DEF Filter
  <2>2. /\ pc = "poll" /\ events' = events \ {ev} /\ UNCHANGED <<pc, knote, leaked, held>>
        /\ epoll_refcnt' = epoll_refcnt - 1
    BY <1>11 DEF HandleRead, HandleWrite
  <2> HIDE DEF f, d
  <2>3. d \in InKernel(f) /\ d \notin knote[f]
    BY <2>1 DEF InKernel, EventsInHand
  <2>4. InKernel(f)' = InKernel(f) \ {d}
    BY <2>1, <2>2, <2>3 DEF InKernel
  <2>5. \A g \in Filp \ {f} : InKernel(g)' = InKernel(g)
    BY <2>1, <2>2 DEF InKernel
  <2>6. ev \in Filters /\ Filters' = Filters \ {ev}
    BY <2>1, <2>3, <2>4, <2>5, FilterRemoved
  <2>7. IsFiniteSet(Filters') /\ Cardinality(Filters') = Cardinality(Filters) - 1
    BY <2>6, FS_RemoveElement DEF CountInv
  <2>8. Cardinality(Filters) \in Nat
    BY FS_CardinalityType DEF CountInv
  <2> QED BY <2>2, <2>7, <2>8 DEF CountInv
<1>12. CASE PollDone
  <2>1. \A g \in Filp : InKernel(g)' = InKernel(g)
    BY <1>12 DEF PollDone, InKernel
  <2>2. Filters' = Filters
    BY <2>1, SameFilters
  <2>3. Cardinality(Filters) \in Nat
    BY FS_CardinalityType DEF CountInv
  <2>4. held' <=> held /\ epoll_refcnt # 0
    BY <1>12, Zenon DEF PollDone
  <2>5. epoll_refcnt' = epoll_refcnt /\ leaked' = leaked
    BY <1>12 DEF PollDone
  <2> QED BY <2>2, <2>3, <2>4, <2>5 DEF CountInv
<1>13. CASE UNCHANGED vars
  BY <1>13, <1>a DEF vars
<1> QED
  BY <1>1, <1>2, <1>3, <1>4, <1>5, <1>6, <1>7, <1>8, <1>9, <1>10, <1>11, <1>12, <1>13
     DEF Next, Use, Poll, Handle
-----------------------------------------------------------------------------
(* The theorems.                                                           *)

\* A new poller has no filters, and does not hold the loop.
LEMMA InitInv == Init => IndInv
<1> SUFFICES ASSUME Init PROVE IndInv
  OBVIOUS
<1>1. KqueueTypes
  BY TypesInit
<1>2. \A f \in Filp : InKernel(f) = {} /\ ~Attached(f)
  BY DEF Init, AiocbInitially, InKernel, Attached
<1>3. EventsInHand /\ FlagsMatchKernel /\ NoKnoteAfterFini /\ NoLostWakeup
  BY <1>2 DEF Init, EventsInHand, FlagsMatchKernel, NoKnoteAfterFini, NoLostWakeup
<1>4. Filters = {}
  BY <1>2 DEF Filters
<1>5. epoll_refcnt = 0 /\ leaked = 0
  BY DEF Init
<1>6. ~held
  BY Zenon DEF Init
<1> QED BY <1>1, <1>3, <1>4, <1>5, <1>6, FS_EmptySet DEF IndInv, KernelInv, CountInv

\* Every step of the program and of the kernel keeps it.
LEMMA StepInv == ASSUME IndInv, [Next]_vars PROVE IndInv'
BY TypesStep, AgreeStep, WakeupStep, CountStep DEF IndInv, KernelInv, Agree

\* The conjunction of all the parts is an invariant.
THEOREM KqueueInvariant == Spec => []IndInv
BY InitInv, StepInv, PTL DEF Spec

\* TX_POLLIN and TX_POLLOUT are exactly the filters of an attached filp, whichever
\* EV_ADDs failed.
THEOREM KqueueFlags == Spec => []FlagsMatchKernel
<1>1. IndInv => FlagsMatchKernel
  BY DEF IndInv, KernelInv
<1> QED BY <1>1, KqueueInvariant, PTL

\* tx_aiocb_fini leaves no filter of the filp behind, registered or in hand.
THEOREM KqueueFini == Spec => []NoKnoteAfterFini
<1>1. IndInv => NoKnoteAfterFini
  BY DEF IndInv, KernelInv
<1> QED BY <1>1, KqueueInvariant, PTL

\* Every waiting task has a filter or an event in hand, unless its EV_ADD failed.
THEOREM KqueueNoLostWakeup == Spec => []NoLostWakeup
<1>1. IndInv => NoLostWakeup
  BY DEF IndInv
<1> QED BY <1>1, KqueueInvariant, PTL

\* epoll_refcnt is the number of filters plus what was leaked, and decides whether the
\* loop is held.
THEOREM KqueueRefcnt == Spec => []RefcntLeaks
<1>1. IndInv => RefcntLeaks
  BY DEF IndInv, CountInv, RefcntLeaks
<1> QED BY <1>1, KqueueInvariant, PTL

\* While the poller handles events a task leaves its filp only into the set of active
\* tasks: the safety part of WaiterWoken.
THEOREM KqueueTakenIsActivated == Spec => TakenIsActivated
<1> DEFINE A == \A f \in Filp, d \in Dir :
                   pc = "poll" => Waiter(f, d) \in {NoTask, Waiter(f, d)'} \cup active'
<1>1. ASSUME IndInv, [Next]_vars PROVE [A]_vars
  <2> SUFFICES ASSUME Next, pc = "poll" PROVE A
    BY <1>1
  <2> USE DEF Waiter, Dir
  <2>1. ASSUME NEW f \in Filp,
               \/ AiocbInit(f) \/ Fini(f) \/ Eagain(f)
               \/ \E d \in Dir : UsedUp(f, d)
               \/ \E t \in Task : Use(f, t)
        PROVE  FALSE
    BY <2>1 DEF AiocbInit, Fini, Eagain, UsedUp, Use, ActiveIn, ActiveOut, Connect, Cancel, InUser
  <2>2. ASSUME NEW f \in Filp, NEW d \in Dir, BecomesReady(f, d) PROVE A
    BY <2>2 DEF BecomesReady, aiocbVars
  <2>3. ASSUME NEW ev \in events, HandleRead(ev) PROVE A
    BY <1>1, <2>3 DEF HandleRead, Activated, IndInv, KernelInv, KqueueTypes, Filter
  <2>4. ASSUME NEW ev \in events, HandleWrite(ev) PROVE A
    BY <1>1, <2>4 DEF HandleWrite, Activated, IndInv, KernelInv, KqueueTypes, Filter
  <2>5. CASE PollDone
    BY <2>5 DEF PollDone, aiocbVars
  <2>6. ASSUME NEW t \in Task, Run(t) PROVE FALSE
    BY <2>6 DEF Run
  <2>7. ASSUME NEW S \in SUBSET Reportable, PollWait(S) PROVE FALSE
    BY <2>7 DEF PollWait
  <2> QED BY <2>1, <2>2, <2>3, <2>4, <2>5, <2>6, <2>7 DEF Next, Poll, Handle
<1> QED BY <1>1, KqueueInvariant, PTL DEF Spec, TakenIsActivated
===============================================================================
