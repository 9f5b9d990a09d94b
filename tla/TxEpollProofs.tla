---------------------------- MODULE TxEpollProofs ----------------------------
(***************************************************************************)
(* The epoll poller, for every set of descriptors and tasks.  One          *)
(* invariant holds whatever fails, filp by filp for those EPOLL_CTL_MOD    *)
(* did not fail for; each theorem then names the faults it excludes.       *)
(***************************************************************************)
EXTENDS TxEpoll, FiniteSetTheorems, TLAPS

Event == [filp : Filp, flags : SUBSET Cond]

\* The types of the variables.
EpollTypes ==
    /\ flags \in [Filp -> SUBSET Flag]
    /\ filterin \in [Filp -> Task \cup {NoTask}]
    /\ filterout \in [Filp -> Task \cup {NoTask}]
    /\ active \subseteq Task
    /\ epoll_refcnt \in Int
    /\ held \in BOOLEAN
    /\ pc \in {"user", "poll"}
    /\ events \subseteq Event
    /\ mode \in [Filp -> {"none", "level", "armed", "fired"}]
    /\ interest \in [Filp -> SUBSET {"IN", "OUT"}]
    /\ ready \in [Filp -> SUBSET Cond]
    /\ aborted \in BOOLEAN
    /\ failed \subseteq Filp

\* The poller's list of events is empty outside the poller, and has one event for a
\* filp: the for loop meets each filp once.
EventsInHand ==
    /\ pc = "user" => events = {}
    /\ \A e1 \in events, e2 \in events : e1.filp = e2.filp => e1 = e2

\* What the kernel knows of a filp: nothing before tx_epoll_attach and after
\* tx_epoll_detach, and no event in hand as long as it can report another one.
Registered(f) ==
    /\ ~Attached(f) => mode[f] = "none" /\ ~Pending(f)
    /\ Attached(f) => mode[f] # "none"
    /\ mode[f] = "none" => ready[f] = {}
    /\ mode[f] = "armed" => ~Pending(f)

\* What TX_POLLIN and TX_POLLOUT say of the kernel, with an event in hand or without.
Matched(f) ==
    Attached(f) /\ f \notin failed =>
        IF flags[f] \cap POLL = {}
        THEN mode[f] # "armed" /\ (Pending(f) => mode[f] = "level")
        ELSE /\ mode[f] = (IF Pending(f) THEN "fired" ELSE "armed")
             /\ interest[f] = EventsOf(flags[f])

\* A task waits for a direction only if the flag of that direction is set.
WaiterFlagged(f) ==
    ~aborted /\ Attached(f) /\ f \notin failed =>
        \A d \in POLL : Waiter(f, d) # NoTask => d \in flags[f]

\* The TX_CHECKs of generic_active_in and generic_active_out.
NoStaleWaiter(f) ==
    ~aborted /\ Open(f) =>
        /\ "READABLE" \in flags[f] => filterin[f] = NoTask
        /\ "WRITABLE" \in flags[f] => filterout[f] = NoTask

\* A filp epoll did not take was a file, if EPOLL_CTL_ADD fails for no other reason.
Unpolled(f) ==
    ~AddFails /\ Open(f) /\ ~Attached(f) =>
        f \notin Pollable /\ {"READABLE", "WRITABLE"} \subseteq flags[f]

\* A descriptor that was never armed does not hang up, if it cannot.
NotHungUp(f) ==
    ~EarlyHup => /\ mode[f] = "level" => "HUP" \notin ready[f]
                 /\ mode[f] = "level" => ~Pending(f)

FilpInv(f) ==
    /\ Registered(f) /\ Matched(f) /\ WaiterFlagged(f) /\ NoStaleWaiter(f)
    /\ Unpolled(f) /\ NotHungUp(f)

\* What does not concern one filp: each fault happens only where it is allowed.
Faults ==
    /\ ~ModFails => failed = {}
    /\ ~AddFails => ~aborted

KernelInv == EpollTypes /\ EventsInHand /\ Faults /\ \A f \in Filp : FilpInv(f)

\* What epoll_refcnt counts, whatever fails ...
CountInv ==
    /\ IsFiniteSet(Armed)
    /\ epoll_refcnt <= Cardinality(Armed)
    /\ epoll_refcnt > 0 => held

\* ... and without the two faults it does not survive.
ExactInv ==
    ~ModFails /\ ~EarlyHup =>
        /\ epoll_refcnt = Cardinality(Armed)
        /\ pc = "user" /\ held => epoll_refcnt > 0

IndInv == KernelInv /\ CountInv /\ ExactInv
-----------------------------------------------------------------------------
(* Types.                                                                  *)

LEMMA TypesInit == Init => EpollTypes
<1> SUFFICES ASSUME Init PROVE EpollTypes
  OBVIOUS
<1>1. held \in BOOLEAN /\ aborted \in BOOLEAN
  BY Zenon DEF Init
<1>2. /\ epoll_refcnt = 0 /\ pc = "user" /\ events = {} /\ failed = {}
      /\ mode = [f \in Filp |-> "none"] /\ interest = [f \in Filp |-> {}]
      /\ ready = [f \in Filp |-> {}]
      /\ AiocbInitially
  BY DEF Init
<1> QED BY <1>1, <1>2 DEF AiocbInitially, EpollTypes

\* The four outcomes of arming: nothing to do, EPOLL_CTL_MOD succeeds, EPOLL_CTL_MOD
\* fails, and the assertion on a filp that epoll did not take.
Kept(f, fl) == flags' = [flags EXCEPT ![f] = fl] /\ UNCHANGED pollVars

Armed1(f, fl, d) ==
    /\ d \notin fl /\ Attached(f)
    /\ flags' = [flags EXCEPT ![f] = fl \cup {d}]
    /\ mode' = [mode EXCEPT ![f] = "armed"]
    /\ interest' = [interest EXCEPT ![f] = EventsOf(fl \cup {d})]
    /\ epoll_refcnt' = epoll_refcnt + (IF fl \cap POLL = {} THEN 1 ELSE 0)
    /\ held' = (held \/ epoll_refcnt' > 0)
    /\ UNCHANGED <<failed, aborted>>

Refused(f, fl, d) ==
    /\ d \notin fl /\ Attached(f) /\ ModFails
    /\ flags' = [flags EXCEPT ![f] = fl]
    /\ failed' = failed \cup {f}
    /\ held' = (held \/ epoll_refcnt' > 0)
    /\ UNCHANGED <<mode, interest, epoll_refcnt, aborted>>

Aborts(f) ==
    /\ ~Attached(f)
    /\ aborted' = TRUE
    /\ UNCHANGED <<flags, epoll_refcnt, held, mode, interest, failed>>

LEMMA ArmCases ==
    ASSUME NEW f \in Filp, NEW fl, NEW d \in POLL, Arm(f, fl, d)
    PROVE  (d \in fl /\ Kept(f, fl)) \/ Armed1(f, fl, d) \/ Refused(f, fl, d) \/ Aborts(f)
<1>1. CASE d \in fl
  BY <1>1 DEF Arm, Kept
<1>2. CASE d \notin fl
  <2>1. PollMod(f, fl, d)
    BY <1>2 DEF Arm, tx_epoll_pollin, tx_epoll_pollout, POLL
  <2>2. CASE ~Attached(f)
    BY <2>1, <2>2, Zenon DEF PollMod, Aborts, kernelVars
  <2>3. CASE Attached(f)
    BY <1>2, <2>1, <2>3, Zenon DEF PollMod, ModArms, ModRefused, Mask, Armed1, Refused
  <2> QED BY <2>2, <2>3
<1> QED BY <1>1, <1>2

LEMMA TypesStep == ASSUME EpollTypes, [Next]_vars PROVE EpollTypes'
<1> USE AiocbAssumption DEF EpollTypes, Event, Cond, POLL, Flag
<1>1. ASSUME NEW f \in Filp, AiocbInit(f) PROVE EpollTypes'
  BY <1>1 DEF AiocbInit, Initialise, EpermFlags
<1>2. ASSUME NEW f \in Filp, Fini(f) PROVE EpollTypes'
  <2>1. held' \in BOOLEAN
    BY <1>2, Zenon DEF Fini
  <2> QED BY <1>2, <2>1 DEF Fini, Del
<1>3. ASSUME NEW f \in Filp, Eagain(f) PROVE EpollTypes'
  BY <1>3 DEF Eagain, tx_aincb_update, tx_outcb_update, GotEagain, pollVars, kernelVars
<1>4. ASSUME NEW f \in Filp, NEW c \in Cond, BecomesReady(f, c) \/ UsedUp(f, c)
      PROVE  EpollTypes'
  BY <1>4 DEF BecomesReady, UsedUp, aiocbVars, pollVars, kernelVars
<1>5. ASSUME NEW f \in Filp, NEW fl \in SUBSET Flag, NEW d \in POLL, Arm(f, fl, d)
      PROVE  /\ flags' \in [Filp -> SUBSET Flag]
             /\ epoll_refcnt' \in Int /\ held' \in BOOLEAN
             /\ mode' \in [Filp -> {"none", "level", "armed", "fired"}]
             /\ interest' \in [Filp -> SUBSET {"IN", "OUT"}]
             /\ aborted' \in BOOLEAN /\ failed' \subseteq Filp
  <2>1. CASE Kept(f, fl)
    BY <2>1 DEF Kept, pollVars, kernelVars
  <2>2. CASE Armed1(f, fl, d)
    <3>1. held' \in BOOLEAN
      BY <2>2, Zenon DEF Armed1
    <3>2. EventsOf(fl \cup {d}) \in SUBSET {"IN", "OUT"}
      BY DEF EventsOf
    <3>3. interest' \in [Filp -> SUBSET {"IN", "OUT"}]
      BY <2>2, <3>2 DEF Armed1
    <3>4. flags' \in [Filp -> SUBSET Flag] /\ epoll_refcnt' \in Int
      BY <2>2 DEF Armed1
    <3> QED BY <2>2, <3>1, <3>3, <3>4 DEF Armed1
  <2>3. CASE Refused(f, fl, d)
    <3>1. held' \in BOOLEAN
      BY <2>3, Zenon DEF Refused
    <3> QED BY <2>3, <3>1 DEF Refused
  <2>4. CASE Aborts(f)
    BY <2>4 DEF Aborts
  <2>5. (d \in fl /\ Kept(f, fl)) \/ Armed1(f, fl, d) \/ Refused(f, fl, d) \/ Aborts(f)
    BY <1>5, ArmCases
  <2> QED BY <2>1, <2>2, <2>3, <2>4, <2>5
<1>6. ASSUME NEW f \in Filp, NEW t \in Task, ActiveIn(f, t) PROVE EpollTypes'
  BY <1>5, <1>6 DEF ActiveIn, ReadNow, ReadLater, filpVars, pollVars, kernelVars
<1>7. ASSUME NEW f \in Filp, NEW t \in Task, ActiveOut(f, t) PROVE EpollTypes'
  BY <1>5, <1>7 DEF ActiveOut, WriteNow, WriteLater, filpVars, pollVars, kernelVars
<1>8. ASSUME NEW f \in Filp, NEW t \in Task, Connect(f, t) PROVE EpollTypes'
  <2>1. CASE ConnectNow(f, t) /\ UNCHANGED pollVars
    <3>1. PICK r \in SUBSET {"READABLE"} :
                  flags' = [flags EXCEPT ![f] = @ \cup {"WRITABLE"} \cup r]
      BY <2>1 DEF ConnectNow
    <3>2. flags[f] \cup {"WRITABLE"} \cup r \in SUBSET Flag
      OBVIOUS
    <3>3. flags' \in [Filp -> SUBSET Flag]
      BY <3>1, <3>2
    <3> QED BY <1>8, <2>1, <3>3 DEF Connect, ConnectNow, pollVars, kernelVars
  <2>2. CASE ConnectLater(f, t) /\ Arm(f, Connecting(flags[f]), "POLLOUT")
    <3>1. Connecting(flags[f]) \in SUBSET Flag
      BY DEF Connecting
    <3> QED BY <1>5, <1>8, <2>2, <3>1 DEF Connect, ConnectLater
  <2> QED BY <1>8, <2>1, <2>2 DEF Connect
<1>9. ASSUME NEW f \in Filp, NEW t \in Task, Cancel(f, t) PROVE EpollTypes'
  BY <1>9 DEF Cancel, CancelIn, CancelOut, pollVars, kernelVars
<1>10. ASSUME NEW t \in Task, Run(t) PROVE EpollTypes'
  BY <1>10 DEF Run, RunTask, filpVars, pollVars, kernelVars
<1>11. ASSUME NEW S \in SUBSET Filp, PollWait(S) PROVE EpollTypes'
  <2>1. \A f \in Filp : Reportable(f) \in SUBSET Cond
    BY DEF Reportable
  <2>2. \A f \in S : [filp |-> f, flags |-> Reportable(f)] \in Event
    BY <2>1
  <2>3. events' \subseteq Event
    <3> HIDE DEF Event
    <3> QED BY <1>11, <2>2 DEF PollWait
  <2> QED BY <1>11, <2>3 DEF PollWait, aiocbVars
<1>12. ASSUME NEW ev \in events, HandleHup(ev) PROVE EpollTypes'
  BY <1>12 DEF HandleHup, HupWakes, Waits, Activated, Uncount, kernelVars
<1>13. ASSUME NEW ev \in events, HandleIO(ev) PROVE EpollTypes'
  <2>1. /\ flags' \in [Filp -> SUBSET Flag] /\ active' \subseteq Task
        /\ filterin' \in [Filp -> Task \cup {NoTask}]
        /\ filterout' \in [Filp -> Task \cup {NoTask}]
        /\ events' \subseteq Event /\ UNCHANGED <<held, pc, ready, aborted>>
    BY <1>13 DEF HandleIO, Waits, Activated
  <2>2. /\ mode' \in [Filp -> {"none", "level", "armed", "fired"}]
        /\ interest' \in [Filp -> SUBSET {"IN", "OUT"}]
        /\ failed' \subseteq Filp /\ epoll_refcnt' \in Int
    BY <1>13 DEF HandleIO, tx_epoll_pollit, ModArms, ModRefused, EventsOf, Uncount, kernelVars
  <2> QED BY <2>1, <2>2
<1>14. CASE PollDone
  <2>1. held' \in BOOLEAN
    BY <1>14, Zenon DEF PollDone
  <2> QED BY <1>14, <2>1 DEF PollDone, aiocbVars, kernelVars
<1>15. CASE UNCHANGED vars
  BY <1>15 DEF vars, aiocbVars, kernelVars
<1> QED
  BY <1>1, <1>2, <1>3, <1>4, <1>6, <1>7, <1>8, <1>9, <1>10, <1>11, <1>12, <1>13, <1>14, <1>15
     DEF Next, Use, Poll
-----------------------------------------------------------------------------
(* The events in hand.                                                     *)

\* epoll_wait reports a filp once, and exactly the ones of S.
LEMMA PendingReported ==
    ASSUME NEW S \in SUBSET Filp, PollWait(S)
    PROVE  /\ EventsInHand'
           /\ \A g \in Filp : Pending(g)' <=> g \in S
<1>1. events' = {[filp |-> f, flags |-> Reportable(f)] : f \in S} /\ pc' = "poll"
  BY DEF PollWait
<1>2. ASSUME NEW g \in S PROVE Pending(g)'
  <2>1. [filp |-> g, flags |-> Reportable(g)] \in events'
    BY <1>1
  <2> QED BY <2>1 DEF Pending
<1>3. ASSUME NEW ev \in events' PROVE ev.filp \in S /\ ev.flags = Reportable(ev.filp)
                                     /\ ev = [filp |-> ev.filp, flags |-> Reportable(ev.filp)]
  BY <1>1
<1> QED BY <1>1, <1>2, <1>3 DEF EventsInHand, Pending

\* The event that is handled was the only one of its filp.
LEMMA PendingHandled ==
    ASSUME EventsInHand, NEW ev \in events, pc = "poll", events' = events \ {ev}, UNCHANGED pc
    PROVE  /\ EventsInHand'
           /\ Pending(ev.filp) /\ ~Pending(ev.filp)'
           /\ \A g \in Filp \ {ev.filp} : Pending(g)' <=> Pending(g)
BY DEF EventsInHand, Pending

\* Nothing that FilpInv says of g changes, except that an assertion may fail.
Same(g) ==
    /\ flags'[g] = flags[g] /\ filterin'[g] = filterin[g] /\ filterout'[g] = filterout[g]
    /\ mode'[g] = mode[g] /\ interest'[g] = interest[g] /\ ready'[g] = ready[g]
    /\ g \in failed' <=> g \in failed
    /\ Pending(g)' <=> Pending(g)
    /\ aborted => aborted'

\* A filp keeps its invariant when nothing about it changes.
LEMMA Frame == ASSUME NEW g \in Filp, FilpInv(g), Same(g) PROVE FilpInv(g)'
BY DEF FilpInv, Same, Registered, Matched, WaiterFlagged, NoStaleWaiter, Unpolled, NotHungUp,
       Attached, Open, Waiter

\* The parts of KernelInv an action proves when it leaves the events alone.
LEMMA KernelStep ==
    ASSUME EventsInHand, NEW f \in Filp, FilpInv(f)',
           \A g \in Filp : FilpInv(g), \A g \in Filp \ {f} : Same(g)
    PROVE  \A g \in Filp : FilpInv(g)'
BY Frame

LEMMA SameEvents ==
    ASSUME UNCHANGED events
    PROVE  \A g \in Filp : Pending(g)' <=> Pending(g)
BY DEF Pending

\* What each action has to show, besides the types.
Preserved == EventsInHand' /\ Faults' /\ \A g \in Filp : FilpInv(g)'

\* A step that leaves the poller and its kernel alone.
LEMMA ReadyStep ==
    ASSUME KernelInv, NEW f \in Filp, NEW c \in Cond, BecomesReady(f, c) \/ UsedUp(f, c)
    PROVE  Preserved
<1> USE DEF KernelInv, EpollTypes, Preserved
<1>1. EventsInHand' /\ Faults'
  BY DEF BecomesReady, UsedUp, EventsInHand, Faults, pollVars, kernelVars
<1>2. \A g \in Filp : Pending(g)' <=> Pending(g)
  BY SameEvents DEF BecomesReady, UsedUp
<1>3. \A g \in Filp \ {f} : Same(g)
  BY <1>2 DEF BecomesReady, UsedUp, Same, aiocbVars, pollVars, kernelVars
<1>4. FilpInv(f)'
  <2>1. FilpInv(f)
    BY Zenon DEF KernelInv
  <2>2. Matched(f)' /\ WaiterFlagged(f)' /\ NoStaleWaiter(f)' /\ Unpolled(f)'
    BY <1>2, <2>1 DEF FilpInv, BecomesReady, UsedUp, Matched, WaiterFlagged, NoStaleWaiter,
       Unpolled, Attached, Open, Waiter, aiocbVars, pollVars, kernelVars
  <2>3. Registered(f)' /\ NotHungUp(f)'
    BY <1>2, <2>1 DEF FilpInv, BecomesReady, UsedUp, Registered, NotHungUp,
       Attached, aiocbVars, pollVars, kernelVars
  <2> QED BY <2>2, <2>3 DEF FilpInv
<1> QED BY <1>1, <1>3, <1>4, KernelStep

\* tx_aiocb_init starts from a filp the kernel knows nothing of.
LEMMA InitStep ==
    ASSUME KernelInv, NEW f \in Filp, AiocbInit(f)
    PROVE  Preserved
<1> USE DEF KernelInv, EpollTypes, Preserved
<1>1. EventsInHand' /\ Faults'
  BY DEF AiocbInit, EventsInHand, Faults
<1>2. \A g \in Filp : Pending(g)' <=> Pending(g)
  BY SameEvents DEF AiocbInit
<1>3. \A g \in Filp \ {f} : Same(g)
  BY <1>2 DEF AiocbInit, Initialise, Same
<1>4. FilpInv(f)'
  <2>1. /\ mode[f] = "none" /\ ready[f] = {} /\ ~Pending(f)
        /\ ready' = ready /\ ~Pending(f)'
    BY <1>2 DEF FilpInv, Registered, AiocbInit
  <2>2. filterin'[f] = NoTask /\ filterout'[f] = NoTask
    BY DEF AiocbInit, Initialise
  <2>3. WaiterFlagged(f)' /\ NoStaleWaiter(f)'
    BY <2>2 DEF WaiterFlagged, NoStaleWaiter, Waiter
  <2>4. CASE f \in Pollable /\ flags'[f] = {"WRITABLE", "ATTACHED"} /\ mode'[f] = "level"
    BY <2>1, <2>3, <2>4 DEF FilpInv, Registered, Matched, Unpolled, NotHungUp, Attached, POLL
  <2>5. CASE f \notin Pollable /\ flags'[f] = EpermFlags /\ mode'[f] = "none"
    BY <2>1, <2>3, <2>5 DEF FilpInv, Registered, Matched, Unpolled, NotHungUp, Attached, EpermFlags
  <2>6. CASE AddFails /\ flags'[f] = {"WRITABLE"} /\ mode'[f] = "none"
    BY <2>1, <2>3, <2>6 DEF FilpInv, Registered, Matched, Unpolled, NotHungUp, Attached
  <2> QED BY <2>1, <2>4, <2>5, <2>6 DEF AiocbInit, Initialise
<1> QED BY <1>1, <1>3, <1>4, KernelStep

\* tx_aiocb_fini leaves nothing of the filp in the kernel.
LEMMA FiniStep ==
    ASSUME KernelInv, NEW f \in Filp, Fini(f)
    PROVE  Preserved
<1> USE DEF KernelInv, EpollTypes, Preserved
<1>1. EventsInHand' /\ Faults' /\ events = {}
  BY DEF Fini, Del, InUser, EventsInHand, Faults
<1>2. \A g \in Filp : Pending(g)' <=> Pending(g)
  BY SameEvents DEF Fini
<1>3. \A g \in Filp \ {f} : Same(g)
  BY <1>2 DEF Fini, Del, Same
<1>4. FilpInv(f)'
  <2>1. /\ ~Attached(f)' /\ ~Open(f)' /\ mode'[f] = "none" /\ ready'[f] = {}
        /\ ~Pending(f)'
    BY <1>1, <1>2 DEF Fini, Del, Attached, Open, Pending
  <2> QED BY <2>1 DEF FilpInv, Registered, Matched, WaiterFlagged, NoStaleWaiter, Unpolled, NotHungUp
<1> QED BY <1>1, <1>3, <1>4, KernelStep

\* What may change of a filp without the poller: a ready flag goes, or a waiter does.
LEMMA CancelStep ==
    ASSUME KernelInv, NEW f \in Filp, Eagain(f) \/ \E t \in Task : Cancel(f, t)
    PROVE  Preserved
<1> USE DEF KernelInv, EpollTypes, Preserved
<1>1. EventsInHand' /\ Faults'
  BY DEF Eagain, Cancel, pollVars, kernelVars, EventsInHand, Faults
<1>2. \A g \in Filp : Pending(g)' <=> Pending(g)
  BY SameEvents DEF Eagain, Cancel
<1>3. \A g \in Filp \ {f} : Same(g)
  BY <1>2 DEF Eagain, tx_aincb_update, tx_outcb_update, GotEagain, Cancel, CancelIn, CancelOut,
     pollVars, kernelVars, Same
<1>4. FilpInv(f)'
  <2>1. /\ UNCHANGED <<mode, interest, ready, failed, aborted>>
        /\ Waiter(f, "POLLIN")' \in {NoTask, Waiter(f, "POLLIN")}
        /\ Waiter(f, "POLLOUT")' \in {NoTask, Waiter(f, "POLLOUT")}
        /\ \/ flags'[f] = flags[f]
           \/ Attached(f) /\ \E r \in {"READABLE", "WRITABLE"} : flags'[f] = flags[f] \ {r}
    BY DEF Eagain, tx_aincb_update, tx_outcb_update, GotEagain, Cancel, CancelIn, CancelOut,
       pollVars, kernelVars, Waiter
  <2>2. /\ Attached(f)' <=> Attached(f)
        /\ Open(f)' => Open(f)
        /\ (flags[f] \cap POLL)' = flags[f] \cap POLL
        /\ EventsOf(flags[f])' = EventsOf(flags[f])
        /\ flags'[f] \subseteq flags[f]
    BY <2>1 DEF Attached, Open, POLL, EventsOf
  <2>3. Registered(f)' /\ NotHungUp(f)'
    BY <1>2, <2>1, <2>2 DEF FilpInv, Registered, NotHungUp
  <2>4. Matched(f)'
    BY <1>2, <2>1, <2>2 DEF FilpInv, Matched
  <2>5. WaiterFlagged(f)'
    BY <2>1, <2>2 DEF FilpInv, WaiterFlagged, POLL
  <2>6. NoStaleWaiter(f)'
    BY <2>1, <2>2 DEF FilpInv, NoStaleWaiter, Waiter
  <2>7. Unpolled(f)'
    BY <2>1, <2>2 DEF FilpInv, Unpolled
  <2> QED BY <2>3, <2>4, <2>5, <2>6, <2>7 DEF FilpInv
<1> QED BY <1>1, <1>3, <1>4, KernelStep

\* Arming a filp for direction d, for a task that waits now: fl is what is left of its
\* flags, without the ready flag of d.
Arming(f, fl, d) ==
    /\ InUser
    /\ ~AddFails => Attached(f)
    /\ fl \subseteq flags[f] /\ flags[f] \ fl \subseteq {"READABLE", "WRITABLE"}
    /\ d = "POLLIN" => "READABLE" \notin fl
    /\ d = "POLLOUT" => "WRITABLE" \notin fl
    /\ \A g \in Filp, c \in POLL : <<g, c>> # <<f, d>> => Waiter(g, c)' = Waiter(g, c)
    /\ Arm(f, fl, d)
    /\ UNCHANGED <<pc, events, ready>>

LEMMA ArmStep ==
    ASSUME KernelInv, NEW f \in Filp, NEW fl, NEW d \in POLL, Arming(f, fl, d)
    PROVE  Preserved
<1> USE DEF KernelInv, EpollTypes, Preserved
<1>a. (d \in fl /\ Kept(f, fl)) \/ Armed1(f, fl, d) \/ Refused(f, fl, d) \/ Aborts(f)
  BY ArmCases DEF Arming
<1>b. ~aborted
  BY Zenon DEF Arming, InUser
<1>1. EventsInHand' /\ events = {}
  BY DEF Arming, InUser, EventsInHand
<1>2. \A g \in Filp : (Pending(g)' <=> Pending(g)) /\ ~Pending(g)
  BY <1>1, SameEvents DEF Arming, Pending
<1>3. \A g \in Filp : /\ flags'[g] = flags[g] \/ g = f
                      /\ mode'[g] = mode[g] \/ g = f
                      /\ interest'[g] = interest[g] \/ g = f
                      /\ (g \in failed' <=> g \in failed) \/ g = f
  <2>1. CASE Kept(f, fl)
    BY <2>1 DEF Kept, pollVars, kernelVars
  <2>2. CASE Armed1(f, fl, d)
    BY <2>2 DEF Armed1
  <2>3. CASE Refused(f, fl, d)
    BY <2>3 DEF Refused
  <2>4. CASE Aborts(f)
    BY <2>4 DEF Aborts
  <2> QED BY <1>a, <2>1, <2>2, <2>3, <2>4
<1>4. \A g \in Filp \ {f} : Same(g)
  <2>1. \A g \in Filp \ {f} : filterin'[g] = filterin[g] /\ filterout'[g] = filterout[g]
    BY DEF Arming, Waiter, POLL
  <2> QED BY <1>b, <1>2, <1>3, <2>1 DEF Same, Arming
<1>5. FilpInv(f) /\ ready' = ready
  BY DEF Arming
<1>6. CASE d \in fl /\ Kept(f, fl)
  <2>1. /\ flags'[f] = fl /\ UNCHANGED <<mode, interest, failed, aborted>>
    BY <1>6 DEF Kept, pollVars, kernelVars
  <2>2. /\ Attached(f)' <=> Attached(f)
        /\ Open(f)' => Open(f)
        /\ fl \cap POLL = flags[f] \cap POLL
        /\ EventsOf(fl) = EventsOf(flags[f])
    BY <2>1 DEF Attached, Open, POLL, EventsOf, Arming
  <2>3. Registered(f)' /\ NotHungUp(f)'
    BY <1>2, <1>5, <2>1, <2>2 DEF FilpInv, Registered, NotHungUp
  <2>4. Matched(f)'
    BY <1>2, <1>5, <2>1, <2>2 DEF FilpInv, Matched
  <2>5. WaiterFlagged(f)'
    BY <1>5, <1>6, <2>1, <2>2 DEF FilpInv, WaiterFlagged, POLL, Arming
  <2>6. NoStaleWaiter(f)'
    BY <1>b, <1>5, <2>1, <2>2 DEF FilpInv, NoStaleWaiter, Waiter, POLL, Arming
  <2>7. Unpolled(f)'
    BY <2>2 DEF Arming, Unpolled
  <2>8. Faults'
    BY <2>1 DEF Faults
  <2> QED BY <1>1, <1>4, <2>3, <2>4, <2>5, <2>6, <2>7, <2>8, KernelStep DEF FilpInv
<1>7. CASE Armed1(f, fl, d)
  <2>1. /\ flags'[f] = fl \cup {d} /\ mode'[f] = "armed" /\ interest'[f] = EventsOf(flags'[f])
        /\ UNCHANGED <<failed, aborted>> /\ Attached(f)
    BY <1>7 DEF Armed1
  <2>2. /\ Attached(f)'
        /\ flags'[f] \cap POLL = (flags[f] \cap POLL) \cup {d}
    BY <2>1 DEF Attached, POLL, Arming
  <2>3. Registered(f)' /\ NotHungUp(f)'
    BY <1>2, <2>1, <2>2 DEF Registered, NotHungUp
  <2>4. Matched(f)'
    BY <1>2, <2>1, <2>2 DEF Matched
  <2>5. WaiterFlagged(f)'
    BY <1>b, <1>5, <2>1, <2>2 DEF FilpInv, WaiterFlagged, POLL, Arming
  <2>6. NoStaleWaiter(f)'
    BY <1>b, <1>5, <2>1, <2>2 DEF FilpInv, NoStaleWaiter, Open, Attached, Waiter, POLL, Arming
  <2>7. Unpolled(f)' /\ Faults'
    BY <2>1, <2>2 DEF Unpolled, Faults
  <2> QED BY <1>1, <1>4, <2>3, <2>4, <2>5, <2>6, <2>7, KernelStep DEF FilpInv
<1>8. CASE Refused(f, fl, d)
  <2>1. /\ flags'[f] = fl /\ f \in failed' /\ ModFails
        /\ UNCHANGED <<mode, interest, aborted>> /\ Attached(f)
    BY <1>8 DEF Refused
  <2>2. Attached(f)'
    BY <2>1 DEF Attached, Arming
  <2>3. Registered(f)' /\ NotHungUp(f)'
    BY <1>2, <1>5, <2>1, <2>2 DEF FilpInv, Registered, NotHungUp
  <2>4. Matched(f)' /\ WaiterFlagged(f)'
    BY <2>1 DEF Matched, WaiterFlagged
  <2>5. NoStaleWaiter(f)'
    BY <1>b, <1>5, <2>1, <2>2 DEF FilpInv, NoStaleWaiter, Open, Attached, Waiter, POLL, Arming
  <2>6. Unpolled(f)' /\ Faults'
    BY <2>1, <2>2 DEF Unpolled, Faults
  <2> QED BY <1>1, <1>4, <2>3, <2>4, <2>5, <2>6, KernelStep DEF FilpInv
<1>9. CASE Aborts(f)
  <2>1. aborted'
    BY <1>9, Zenon DEF Aborts
  <2>2. /\ ~Attached(f) /\ AddFails
        /\ UNCHANGED <<flags, mode, interest, failed>>
    BY <1>9 DEF Aborts, Arming
  <2>3. Registered(f)' /\ NotHungUp(f)'
    BY <1>2, <1>5, <2>2 DEF FilpInv, Registered, NotHungUp, Attached
  <2>4. Matched(f)'
    BY <2>2 DEF Matched, Attached
  <2>5. WaiterFlagged(f)' /\ NoStaleWaiter(f)'
    BY <2>1 DEF WaiterFlagged, NoStaleWaiter
  <2>6. Unpolled(f)' /\ Faults'
    BY <2>1, <2>2 DEF Unpolled, Faults
  <2> QED BY <1>1, <1>4, <2>3, <2>4, <2>5, <2>6, KernelStep DEF FilpInv
<1> QED BY <1>a, <1>6, <1>7, <1>8, <1>9

\* A task that need not wait changes nothing the poller depends on.
LEMMA NowStep ==
    ASSUME KernelInv, UNCHANGED <<filpVars, pollVars, pc, events, ready>>
    PROVE  Preserved
<1>1. \A g \in Filp : Same(g)
  BY SameEvents DEF Same, filpVars, pollVars, kernelVars
<1>2. EventsInHand' /\ Faults'
  BY DEF KernelInv, EventsInHand, Faults, pollVars, kernelVars
<1> QED BY <1>1, <1>2, Frame DEF KernelInv, Preserved

\* A filp whose EPOLL_CTL_ADD cannot fail is attached or always ready.
LEMMA OpenAttached ==
    ASSUME NEW f \in Filp, FilpInv(f), Open(f), ~AddFails,
           f \in Pollable \/ "READABLE" \notin flags[f] \/ "WRITABLE" \notin flags[f]
    PROVE  Attached(f)
BY DEF FilpInv, Unpolled

\* tx_aincb_active and tx_outcb_prepare.
LEMMA ActiveStep ==
    ASSUME KernelInv, NEW f \in Filp, NEW t \in Task, ActiveIn(f, t) \/ ActiveOut(f, t)
    PROVE  Preserved
<1> USE DEF KernelInv, EpollTypes, Preserved
<1>1. CASE (ReadNow(f, t) \/ WriteNow(f, t)) /\ UNCHANGED pollVars
  BY <1>1, NowStep DEF ActiveIn, ActiveOut, ReadNow, WriteNow
<1>2. CASE ReadLater(f, t) /\ Arm(f, flags[f], "POLLIN")
  <2>1. InUser /\ Open(f) /\ UNCHANGED <<pc, events, ready>> /\ "READABLE" \notin flags[f]
    BY <1>2 DEF ActiveIn, ActiveOut, ReadLater
  <2>2. \A g \in Filp, c \in POLL : <<g, c>> # <<f, "POLLIN">> => Waiter(g, c)' = Waiter(g, c)
    BY <1>2 DEF ReadLater, Waiter, POLL
  <2>3. ~AddFails => Attached(f)
    BY <2>1, OpenAttached
  <2>4. Arming(f, flags[f], "POLLIN")
    BY <1>2, <2>1, <2>2, <2>3 DEF Arming
  <2> QED BY <2>4, ArmStep DEF POLL
<1>3. CASE WriteLater(f, t) /\ Arm(f, flags[f], "POLLOUT")
  <2>1. InUser /\ Open(f) /\ UNCHANGED <<pc, events, ready>> /\ "WRITABLE" \notin flags[f]
    BY <1>3 DEF ActiveIn, ActiveOut, WriteLater
  <2>2. \A g \in Filp, c \in POLL : <<g, c>> # <<f, "POLLOUT">> => Waiter(g, c)' = Waiter(g, c)
    BY <1>3 DEF WriteLater, Waiter, POLL
  <2>3. ~AddFails => Attached(f)
    BY <2>1, OpenAttached
  <2>4. Arming(f, flags[f], "POLLOUT")
    BY <1>3, <2>1, <2>2, <2>3 DEF Arming
  <2> QED BY <2>4, ArmStep DEF POLL
<1> QED BY <1>1, <1>2, <1>3 DEF ActiveIn, ActiveOut

\* tx_aiocb_connect.
LEMMA ConnectStep ==
    ASSUME KernelInv, NEW f \in Filp, NEW t \in Task, Connect(f, t)
    PROVE  Preserved
<1> USE DEF KernelInv, EpollTypes, Preserved
<1>1. CASE ConnectNow(f, t) /\ UNCHANGED pollVars
  <2>1. EventsInHand' /\ Faults'
    BY <1>1 DEF Connect, EventsInHand, Faults, pollVars, kernelVars
  <2>2. \A g \in Filp : Pending(g)' <=> Pending(g)
    BY SameEvents DEF Connect
  <2>3. /\ UNCHANGED <<mode, interest, ready, failed, aborted, filterin, filterout>>
        /\ filterin[f] = NoTask /\ filterout[f] = NoTask /\ Open(f) /\ f \in Pollable
    BY <1>1 DEF ConnectNow, Connect, pollVars, kernelVars
  <2>4. PICK r \in SUBSET {"READABLE"} :
                flags' = [flags EXCEPT ![f] = @ \cup {"WRITABLE"} \cup r]
    BY <1>1 DEF ConnectNow
  <2>5. \A g \in Filp \ {f} : Same(g)
    BY <2>2, <2>3, <2>4 DEF Same
  <2>6. /\ Attached(f)' <=> Attached(f)
        /\ Open(f)' /\ flags[f] \subseteq flags'[f]
        /\ flags'[f] \cap POLL = flags[f] \cap POLL
        /\ EventsOf(flags'[f]) = EventsOf(flags[f])
    BY <2>3, <2>4 DEF Attached, Open, POLL, EventsOf
  <2>7. Registered(f)' /\ NotHungUp(f)'
    BY <2>2, <2>3, <2>6 DEF FilpInv, Registered, NotHungUp
  <2>8. Matched(f)'
    BY <2>2, <2>3, <2>6 DEF FilpInv, Matched
  <2>9. WaiterFlagged(f)' /\ NoStaleWaiter(f)'
    BY <2>3 DEF WaiterFlagged, NoStaleWaiter, Waiter
  <2>10. Unpolled(f)'
    BY <2>3, <2>6, OpenAttached DEF Unpolled
  <2> QED BY <2>1, <2>5, <2>7, <2>8, <2>9, <2>10, KernelStep DEF FilpInv
<1>2. CASE ConnectLater(f, t) /\ Arm(f, Connecting(flags[f]), "POLLOUT")
  <2>1. InUser /\ Open(f) /\ UNCHANGED <<pc, events, ready>> /\ f \in Pollable
    BY <1>2 DEF Connect
  <2>2. \A g \in Filp, c \in POLL : <<g, c>> # <<f, "POLLOUT">> => Waiter(g, c)' = Waiter(g, c)
    BY <1>2 DEF ConnectLater, Waiter, POLL
  <2>3. ~AddFails => Attached(f)
    BY <2>1, OpenAttached
  <2>4. Arming(f, Connecting(flags[f]), "POLLOUT")
    BY <1>2, <2>1, <2>2, <2>3 DEF Arming, Connecting
  <2> QED BY <2>4, ArmStep DEF POLL
<1> QED BY <1>1, <1>2 DEF Connect

\* epoll_wait: an armed filp that is reported has fired, another one only hung up.
LEMMA WaitStep ==
    ASSUME KernelInv, NEW S \in SUBSET Filp, PollWait(S)
    PROVE  Preserved
<1> USE DEF KernelInv, EpollTypes, Preserved
<1>1. EventsInHand' /\ Faults'
  BY PendingReported DEF PollWait, Faults
<1>2. \A g \in Filp : (Pending(g)' <=> g \in S) /\ ~Pending(g)
  BY PendingReported DEF PollWait, InUser, EventsInHand, Pending
<1>3. ASSUME NEW g \in Filp PROVE FilpInv(g)'
  <2>1. /\ UNCHANGED <<flags, filterin, filterout, interest, ready, aborted, failed>>
        /\ mode'[g] = IF g \in S /\ mode[g] = "armed" THEN "fired" ELSE mode[g]
    BY DEF PollWait, aiocbVars
  <2>2. g \in S => mode[g] = "armed" \/ (mode[g] = "level" /\ "HUP" \in ready[g])
    BY DEF PollWait, Reportable
  <2>3. FilpInv(g)
    OBVIOUS
  <2>4. Registered(g)' /\ NotHungUp(g)'
    BY <1>2, <2>1, <2>2, <2>3 DEF FilpInv, Registered, NotHungUp, Attached
  <2>5. Matched(g)'
    BY <1>2, <2>1, <2>2, <2>3 DEF FilpInv, Matched, Attached
  <2>6. WaiterFlagged(g)' /\ NoStaleWaiter(g)' /\ Unpolled(g)'
    BY <2>1, <2>3 DEF FilpInv, WaiterFlagged, NoStaleWaiter, Unpolled, Attached, Open, Waiter
  <2> QED BY <2>4, <2>5, <2>6 DEF FilpInv
<1> QED BY <1>1, <1>3

\* EPOLLHUP and EPOLLERR.
LEMMA HupStep ==
    ASSUME KernelInv, NEW ev \in events, HandleHup(ev)
    PROVE  Preserved
<1> DEFINE f == ev.filp
<1> USE DEF KernelInv, EpollTypes, Preserved
<1>1. f \in Filp
  BY DEF Event
<1>2. /\ EventsInHand' /\ Faults' /\ Pending(f) /\ ~Pending(f)'
      /\ \A g \in Filp \ {f} : Pending(g)' <=> Pending(g)
  BY PendingHandled DEF HandleHup, Faults, kernelVars
<1>3. /\ UNCHANGED <<mode, interest, ready, failed, aborted>>
      /\ flags' = [flags EXCEPT ![f] = (@ \ POLL) \cup {"READABLE", "WRITABLE"}]
      /\ filterin' = [filterin EXCEPT ![f] = NoTask]
      /\ filterout' = [filterout EXCEPT ![f] = NoTask]
  BY DEF HandleHup, Waits, kernelVars
<1> HIDE DEF f
<1>4. \A g \in Filp \ {f} : Same(g)
  BY <1>1, <1>2, <1>3 DEF Same
<1>5. FilpInv(f)
  BY <1>1
<1>6. Attached(f) /\ Attached(f)' /\ flags'[f] \cap POLL = {} /\ mode[f] # "armed"
  BY <1>1, <1>2, <1>3, <1>5 DEF FilpInv, Registered, Attached, POLL
<1>7. Registered(f)' /\ NotHungUp(f)'
  BY <1>1, <1>2, <1>3, <1>5, <1>6 DEF FilpInv, Registered, NotHungUp
<1>8. Matched(f)' /\ Unpolled(f)'
  BY <1>2, <1>3, <1>6 DEF Matched, Unpolled
<1>9. WaiterFlagged(f)' /\ NoStaleWaiter(f)'
  BY <1>1, <1>3 DEF WaiterFlagged, NoStaleWaiter, Waiter
<1> QED BY <1>1, <1>2, <1>4, <1>7, <1>8, <1>9, KernelStep DEF FilpInv

\* EPOLLIN and EPOLLOUT: what is done leaves the flags, what is still wanted is armed
\* again by tx_epoll_pollit unless EPOLL_CTL_MOD fails.
LEMMA IOStep ==
    ASSUME KernelInv, NEW ev \in events, HandleIO(ev)
    PROVE  Preserved
<1> DEFINE f     == ev.filp
           isIn  == "IN" \in ev.flags
           isOut == "OUT" \in ev.flags
           done  == (IF isIn THEN {"POLLIN"} ELSE {}) \cup (IF isOut THEN {"POLLOUT"} ELSE {})
           news  == (IF isIn THEN {"READABLE"} ELSE {}) \cup (IF isOut THEN {"WRITABLE"} ELSE {})
           still == Still(f, done)
<1> USE DEF KernelInv, EpollTypes, Preserved
<1>1. f \in Filp
  BY DEF Event
<1>2. /\ EventsInHand' /\ Pending(f) /\ ~Pending(f)'
      /\ \A g \in Filp \ {f} : Pending(g)' <=> Pending(g)
  BY PendingHandled DEF HandleIO
<1>3. /\ UNCHANGED <<ready, aborted>>
      /\ flags' = [flags EXCEPT ![f] = (@ \ done) \cup news]
      /\ filterin' = [filterin EXCEPT ![f] = IF isIn THEN NoTask ELSE @]
      /\ filterout' = [filterout EXCEPT ![f] = IF isOut THEN NoTask ELSE @]
  BY DEF HandleIO, Waits
<1>4. \/ still # {} /\ ModArms(f, still)
      \/ still # {} /\ ModRefused(f)
      \/ still = {} /\ UNCHANGED kernelVars
  BY DEF HandleIO, tx_epoll_pollit
<1>5. /\ flags'[f] = (flags[f] \ done) \cup news
      /\ still = flags'[f] \cap POLL
      /\ EventsOf(still) = EventsOf(flags'[f])
  BY <1>1, <1>3 DEF Still, POLL, EventsOf
<1>6. /\ "READABLE" \in flags'[f] => isIn \/ "READABLE" \in flags[f]
      /\ "WRITABLE" \in flags'[f] => isOut \/ "WRITABLE" \in flags[f]
      /\ filterin'[f] = IF isIn THEN NoTask ELSE filterin[f]
      /\ filterout'[f] = IF isOut THEN NoTask ELSE filterout[f]
      /\ ~isIn /\ "POLLIN" \in flags[f] => "POLLIN" \in flags'[f]
      /\ ~isOut /\ "POLLOUT" \in flags[f] => "POLLOUT" \in flags'[f]
      /\ Attached(f)' <=> Attached(f)
  BY <1>1, <1>3 DEF Attached
<1> HIDE DEF f, isIn, isOut, done, news, still
<1>7. FilpInv(f) /\ Attached(f) /\ mode[f] # "armed"
  BY <1>1, <1>2 DEF FilpInv, Registered
<1>8. Open(f)
  BY <1>7 DEF Open, Attached
<1>9. Faults'
  BY <1>3, <1>4 DEF Faults, ModArms, ModRefused, kernelVars
<1>10. \A g \in Filp \ {f} : Same(g)
  BY <1>1, <1>2, <1>3, <1>4 DEF Same, ModArms, ModRefused, kernelVars
<1>11. /\ f \in failed => f \in failed'
       /\ \/ still # {} /\ mode'[f] = "armed" /\ interest'[f] = EventsOf(still)
          \/ f \in failed' /\ UNCHANGED <<mode, interest>>
          \/ still = {} /\ UNCHANGED <<mode, interest>>
  BY <1>1, <1>4 DEF ModArms, ModRefused, kernelVars
<1>12. Registered(f)' /\ Matched(f)' /\ Unpolled(f)'
  BY <1>2, <1>3, <1>5, <1>6, <1>7, <1>11 DEF FilpInv, Registered, Matched, Unpolled
<1>13. WaiterFlagged(f)'
  BY <1>3, <1>6, <1>7, <1>11 DEF FilpInv, WaiterFlagged, Waiter, POLL
<1>14. NoStaleWaiter(f)'
  BY <1>3, <1>6, <1>7, <1>8 DEF FilpInv, NoStaleWaiter
<1>15. NotHungUp(f)'
  BY <1>2, <1>3, <1>7, <1>11 DEF FilpInv, NotHungUp
<1> QED BY <1>1, <1>2, <1>9, <1>10, <1>12, <1>13, <1>14, <1>15, KernelStep DEF FilpInv

\* The step of KernelInv.
LEMMA AllStep == ASSUME KernelInv, [Next]_vars PROVE KernelInv'
<1>1. EpollTypes'
  BY TypesStep DEF KernelInv
<1> SUFFICES Preserved
  BY <1>1 DEF KernelInv, Preserved
<1>2. ASSUME NEW f \in Filp,
             \/ AiocbInit(f) \/ Fini(f) \/ Eagain(f)
             \/ \E c \in Cond : BecomesReady(f, c) \/ UsedUp(f, c)
             \/ \E t \in Task : Use(f, t)
      PROVE  Preserved
  BY <1>2, InitStep, FiniStep, CancelStep, ReadyStep, ActiveStep, ConnectStep DEF Use
<1>3. ASSUME NEW t \in Task, Run(t) PROVE Preserved
  BY <1>3, NowStep DEF Run, RunTask
<1>4. CASE Poll
  <2>1. CASE PollDone
    <3>1. UNCHANGED <<flags, filterin, filterout, mode, interest, failed, ready, aborted, events>>
      BY <2>1 DEF PollDone, aiocbVars, kernelVars
    <3>2. \A g \in Filp : Same(g)
      BY <3>1, SameEvents DEF Same
    <3>3. EventsInHand' /\ Faults'
      BY <2>1, <3>1 DEF PollDone, KernelInv, EventsInHand, Faults
    <3> QED BY <3>2, <3>3, Frame DEF KernelInv, Preserved
  <2>2. ASSUME NEW S \in SUBSET Filp, PollWait(S) PROVE Preserved
    BY <2>2, WaitStep
  <2>3. ASSUME NEW ev \in events, HandleHup(ev) PROVE Preserved
    BY <2>3, HupStep
  <2>4. ASSUME NEW ev \in events, HandleIO(ev) PROVE Preserved
    BY <2>4, IOStep
  <2> QED BY <1>4, <2>1, <2>2, <2>3, <2>4 DEF Poll
<1>5. CASE UNCHANGED vars
  <2>1. UNCHANGED <<filpVars, pollVars, pc, events, ready>>
    BY <1>5 DEF vars, aiocbVars, filpVars, pollVars, kernelVars
  <2> QED BY <2>1, NowStep
<1> QED BY <1>2, <1>3, <1>4, <1>5 DEF Next
-----------------------------------------------------------------------------
(* What epoll_refcnt counts.                                               *)

IsArmed(f) == Attached(f) /\ flags[f] \cap POLL # {}

\* How a step that concerns the filp f changes the number of armed filps.
Delta(f) == (IF IsArmed(f)' THEN 1 ELSE 0) - (IF IsArmed(f) THEN 1 ELSE 0)

\* Armed changes by at most the one filp a step concerns, and stays finite.
LEMMA ArmedChange ==
    ASSUME IsFiniteSet(Armed), NEW f \in Filp,
           \A g \in Filp \ {f} : IsArmed(g)' <=> IsArmed(g)
    PROVE  /\ IsFiniteSet(Armed')
           /\ Cardinality(Armed') = Cardinality(Armed) + Delta(f)
           /\ Cardinality(Armed) \in Nat /\ Cardinality(Armed') \in Nat
<1>a. Cardinality(Armed) \in Nat
  BY FS_CardinalityType
<1>b. /\ Armed = {g \in Filp : IsArmed(g)}
      /\ Armed' = {g \in Filp : IsArmed(g)'}
  BY DEF Armed, IsArmed
<1>1. CASE IsArmed(f)' /\ ~IsArmed(f)
  <2>1. Armed' = Armed \cup {f} /\ f \notin Armed
    BY <1>b, <1>1
  <2>2. IsFiniteSet(Armed') /\ Cardinality(Armed') = Cardinality(Armed) + 1
    BY <2>1, FS_AddElement
  <2> QED BY <1>a, <1>1, <2>2 DEF Delta
<1>2. CASE ~IsArmed(f)' /\ IsArmed(f)
  <2>1. Armed' = Armed \ {f} /\ f \in Armed
    BY <1>b, <1>2
  <2>2. IsFiniteSet(Armed') /\ Cardinality(Armed') = Cardinality(Armed) - 1
    BY <2>1, FS_RemoveElement
  <2>3. Cardinality(Armed') \in Nat
    BY <2>2, FS_CardinalityType
  <2> QED BY <1>a, <1>2, <2>2, <2>3 DEF Delta
<1>3. CASE IsArmed(f)' <=> IsArmed(f)
  <2>1. Armed' = Armed
    BY <1>b, <1>3
  <2>2. Delta(f) = 0
    BY <1>3 DEF Delta
  <2> QED BY <1>a, <2>1, <2>2
<1> QED BY <1>1, <1>2, <1>3

\* The arithmetic of a step: the count may fall behind Armed, and without faults it
\* changes as Armed does.
LEMMA CountDelta ==
    ASSUME EpollTypes, EpollTypes', CountInv, ExactInv, NEW f \in Filp,
           \A g \in Filp \ {f} : IsArmed(g)' <=> IsArmed(g),
           epoll_refcnt' <= epoll_refcnt + Delta(f),
           ~ModFails /\ ~EarlyHup => epoll_refcnt' = epoll_refcnt + Delta(f),
           epoll_refcnt' > 0 => held',
           ~ModFails /\ ~EarlyHup /\ epoll_refcnt' >= 0 /\ pc' = "user" /\ held'
               => epoll_refcnt' > 0
    PROVE  CountInv' /\ ExactInv'
<1>1. /\ IsFiniteSet(Armed')
      /\ Cardinality(Armed') = Cardinality(Armed) + Delta(f)
      /\ Cardinality(Armed) \in Nat /\ Cardinality(Armed') \in Nat
  BY ArmedChange DEF CountInv
<1>2. Delta(f) \in Int /\ epoll_refcnt \in Int /\ epoll_refcnt' \in Int
  BY DEF Delta, EpollTypes
<1>3. epoll_refcnt <= Cardinality(Armed)
  BY DEF CountInv
<1>4. epoll_refcnt' <= Cardinality(Armed')
  BY <1>1, <1>2, <1>3
<1>5. ASSUME ~ModFails, ~EarlyHup PROVE epoll_refcnt' = Cardinality(Armed')
  BY <1>1, <1>2, <1>5 DEF ExactInv
<1> QED BY <1>1, <1>2, <1>4, <1>5 DEF CountInv, ExactInv

\* A step that concerns neither the count nor the armed filps.
LEMMA CountSame ==
    ASSUME EpollTypes, EpollTypes', CountInv, ExactInv,
           \A g \in Filp : IsArmed(g)' <=> IsArmed(g),
           UNCHANGED <<epoll_refcnt, held>>, pc' = "user" => pc = "user"
    PROVE  CountInv' /\ ExactInv'
<1>1. Armed' = Armed
  BY DEF Armed, IsArmed
<1> QED BY <1>1 DEF CountInv, ExactInv

\* tx_epoll_detach uncounts the filp it finds armed.
LEMMA CountFini ==
    ASSUME KernelInv, EpollTypes', CountInv, ExactInv, NEW f \in Filp, Fini(f)
    PROVE  CountInv' /\ ExactInv'
<1> DEFINE armed == flags[f] \cap POLL # {}
<1>1. /\ \A g \in Filp \ {f} : IsArmed(g)' <=> IsArmed(g)
      /\ ~IsArmed(f)' /\ (IsArmed(f) <=> armed)
  BY DEF Fini, IsArmed, Attached, KernelInv, EpollTypes
<1>2. /\ epoll_refcnt' = epoll_refcnt - (IF armed THEN 1 ELSE 0)
      /\ pc = "user"
  BY DEF Fini, InUser
<1>3. held' <=> held /\ ~(armed /\ epoll_refcnt' = 0)
  BY Zenon DEF Fini, GivesUp
<1> HIDE DEF armed
<1>4. /\ epoll_refcnt \in Int /\ epoll_refcnt' = epoll_refcnt + Delta(f)
  BY <1>1, <1>2 DEF Delta, KernelInv, EpollTypes
<1>5. epoll_refcnt' > 0 => held'
  BY <1>2, <1>3, <1>4 DEF CountInv
<1>6. ~ModFails /\ ~EarlyHup /\ epoll_refcnt' >= 0 /\ pc' = "user" /\ held'
         => epoll_refcnt' > 0
  BY <1>2, <1>3, <1>4 DEF ExactInv
<1>7. epoll_refcnt' <= epoll_refcnt + Delta(f)
  BY <1>4 DEF KernelInv, EpollTypes
<1> QED BY <1>1, <1>4, <1>5, <1>6, <1>7, CountDelta DEF KernelInv

\* tx_epoll_pollin and tx_epoll_pollout count a filp once for both directions.
LEMMA CountArm ==
    ASSUME KernelInv, EpollTypes', CountInv, ExactInv,
           NEW f \in Filp, NEW fl, NEW d \in POLL, Arm(f, fl, d), InUser,
           fl \subseteq flags[f], flags[f] \ fl \subseteq {"READABLE", "WRITABLE"}, UNCHANGED pc
    PROVE  CountInv' /\ ExactInv'
<1> USE DEF KernelInv, EpollTypes
<1>1. CASE Kept(f, fl) \/ Aborts(f)
  <2>1. \A g \in Filp : IsArmed(g)' <=> IsArmed(g)
    BY <1>1 DEF Kept, Aborts, IsArmed, Attached, POLL
  <2>2. UNCHANGED <<epoll_refcnt, held>>
    BY <1>1 DEF Kept, Aborts, pollVars
  <2> QED BY <2>1, <2>2, CountSame
<1>2. CASE Armed1(f, fl, d)
  <2>1. /\ \A g \in Filp \ {f} : IsArmed(g)' <=> IsArmed(g)
        /\ IsArmed(f)' /\ (IsArmed(f) <=> fl \cap POLL # {})
    BY <1>2 DEF Armed1, IsArmed, Attached, POLL
  <2>2. epoll_refcnt' = epoll_refcnt + (IF fl \cap POLL = {} THEN 1 ELSE 0) /\ pc = "user"
    BY <1>2 DEF Armed1, InUser
  <2>3. held' <=> held \/ epoll_refcnt' > 0
    BY <1>2, Zenon DEF Armed1
  <2>4. epoll_refcnt' = epoll_refcnt + Delta(f) /\ epoll_refcnt' <= epoll_refcnt + Delta(f)
    BY <2>1, <2>2 DEF Delta
  <2>5. ~ModFails /\ ~EarlyHup /\ held' => epoll_refcnt' > 0
    BY <2>2, <2>3 DEF ExactInv
  <2> QED BY <2>1, <2>3, <2>4, <2>5, CountDelta
<1>3. CASE Refused(f, fl, d)
  <2>1. \A g \in Filp : IsArmed(g)' <=> IsArmed(g)
    BY <1>3 DEF Refused, IsArmed, Attached, POLL
  <2>2. Armed' = Armed
    BY <2>1 DEF Armed, IsArmed
  <2>3. held' <=> held \/ epoll_refcnt > 0
    BY <1>3, Zenon DEF Refused
  <2>4. ModFails /\ epoll_refcnt' = epoll_refcnt
    BY <1>3 DEF Refused
  <2> QED BY <2>2, <2>3, <2>4 DEF CountInv, ExactInv
<1> QED BY ArmCases, <1>1, <1>2, <1>3

\* An event is uncounted, and a filp that is armed again is counted again.
LEMMA CountEvent ==
    ASSUME KernelInv, EpollTypes', CountInv, ExactInv,
           NEW ev \in events, HandleHup(ev) \/ HandleIO(ev)
    PROVE  CountInv' /\ ExactInv'
<1> DEFINE f == ev.filp
<1> USE DEF KernelInv, EpollTypes
<1>1. f \in Filp /\ Pending(f) /\ UNCHANGED held /\ pc = "poll" /\ pc' = "poll"
  BY DEF Event, Pending, HandleHup, HandleIO
<1>2. \A g \in Filp \ {f} : IsArmed(g)' <=> IsArmed(g)
  BY DEF HandleHup, HandleIO, IsArmed, Attached
<1>3. FilpInv(f) /\ Attached(f)
  BY <1>1 DEF FilpInv, Registered
<1>4. ~ModFails /\ ~EarlyHup => IsArmed(f)
  BY <1>1, <1>3 DEF FilpInv, Matched, NotHungUp, IsArmed, Faults
<1>5. \/ ~IsArmed(f)' /\ epoll_refcnt' = epoll_refcnt - 1
      \/ IsArmed(f) /\ IsArmed(f)' /\ epoll_refcnt' = epoll_refcnt
      \/ IsArmed(f) /\ IsArmed(f)' /\ epoll_refcnt' = epoll_refcnt - 1 /\ ModFails
  <2>1. CASE HandleHup(ev)
    BY <1>1, <2>1 DEF HandleHup, IsArmed, Attached, Uncount, POLL
  <2>2. CASE HandleIO(ev)
    <3> DEFINE done == (IF "IN" \in ev.flags THEN {"POLLIN"} ELSE {})
                          \cup (IF "OUT" \in ev.flags THEN {"POLLOUT"} ELSE {})
               still == Still(f, done)
    <3>1. \/ still # {} /\ epoll_refcnt' = epoll_refcnt
          \/ still # {} /\ ModFails /\ epoll_refcnt' = epoll_refcnt - 1
          \/ still = {} /\ epoll_refcnt' = epoll_refcnt - 1
      <4>1. IF still # {} THEN tx_epoll_pollit(f, still) ELSE epoll_refcnt' = epoll_refcnt - 1
        BY <2>2 DEF HandleIO, Uncount
      <4> HIDE DEF still
      <4>2. epoll_refcnt - 1 + 1 = epoll_refcnt
        OBVIOUS
      <4> QED BY <4>1, <4>2 DEF tx_epoll_pollit, ModRefused, Uncount
    <3>2. /\ still = flags'[f] \cap POLL /\ still \subseteq flags[f] \cap POLL
          /\ Attached(f)'
      <4>1. \E r \in SUBSET {"READABLE", "WRITABLE"} : flags'[f] = (flags[f] \ done) \cup r
        <5> DEFINE r == (IF "IN" \in ev.flags THEN {"READABLE"} ELSE {})
                           \cup (IF "OUT" \in ev.flags THEN {"WRITABLE"} ELSE {})
        <5>1. r \in SUBSET {"READABLE", "WRITABLE"}
          OBVIOUS
        <5>2. flags'[f] = (flags[f] \ done) \cup r
          BY <1>1, <2>2 DEF HandleIO
        <5> QED BY <5>1, <5>2
      <4>2. done \subseteq POLL
        BY DEF POLL
      <4> HIDE DEF done
      <4> QED BY <1>1, <1>3, <4>1, <4>2 DEF Still, POLL, Attached
    <3> HIDE DEF still
    <3> QED BY <1>3, <3>1, <3>2 DEF IsArmed
  <2> QED BY <2>1, <2>2
<1> HIDE DEF f
<1>6. epoll_refcnt' <= epoll_refcnt + Delta(f)
  BY <1>5 DEF Delta
<1>7. ~ModFails /\ ~EarlyHup => epoll_refcnt' = epoll_refcnt + Delta(f)
  BY <1>4, <1>5 DEF Delta
<1>8. epoll_refcnt' > 0 => held'
  BY <1>1, <1>5 DEF CountInv
<1> QED BY <1>1, <1>2, <1>6, <1>7, <1>8, CountDelta

\* The step of CountInv and ExactInv.
LEMMA CountStep ==
    ASSUME KernelInv, EpollTypes', CountInv, ExactInv, [Next]_vars
    PROVE  CountInv' /\ ExactInv'
<1> USE DEF KernelInv, EpollTypes
<1>1. ASSUME NEW f \in Filp, AiocbInit(f) PROVE CountInv' /\ ExactInv'
  <2>1. \A g \in Filp : IsArmed(g)' <=> IsArmed(g)
    BY <1>1 DEF AiocbInit, Initialise, IsArmed, Attached, POLL, EpermFlags
  <2> QED BY <1>1, <2>1, CountSame DEF AiocbInit
<1>2. ASSUME NEW f \in Filp, Eagain(f) PROVE CountInv' /\ ExactInv'
  <2>1. \A g \in Filp : IsArmed(g)' <=> IsArmed(g)
    BY <1>2 DEF Eagain, tx_aincb_update, tx_outcb_update, GotEagain, IsArmed, Attached, POLL
  <2> QED BY <1>2, <2>1, CountSame DEF Eagain, pollVars
<1>a. ASSUME UNCHANGED <<flags, epoll_refcnt, held>>, pc' = "user" => pc = "user"
      PROVE  CountInv' /\ ExactInv'
  BY <1>a, CountSame DEF IsArmed, Attached
<1>3. ASSUME NEW f \in Filp, NEW c \in Cond, BecomesReady(f, c) \/ UsedUp(f, c)
      PROVE  CountInv' /\ ExactInv'
  BY <1>3, <1>a DEF BecomesReady, UsedUp, aiocbVars, pollVars
<1>4. ASSUME NEW f \in Filp, NEW t \in Task, ActiveIn(f, t) \/ ActiveOut(f, t)
      PROVE  CountInv' /\ ExactInv'
  <2>1. CASE (ReadNow(f, t) \/ WriteNow(f, t)) /\ UNCHANGED pollVars
    BY <1>4, <1>a, <2>1 DEF ActiveIn, ActiveOut, ReadNow, WriteNow, filpVars, pollVars
  <2>2. ASSUME NEW d \in POLL, Arm(f, flags[f], d) PROVE CountInv' /\ ExactInv'
    BY <1>4, <2>2, CountArm DEF ActiveIn, ActiveOut
  <2> QED BY <1>4, <2>1, <2>2 DEF ActiveIn, ActiveOut, POLL
<1>5. ASSUME NEW f \in Filp, NEW t \in Task, Connect(f, t) PROVE CountInv' /\ ExactInv'
  <2>1. CASE ConnectNow(f, t) /\ UNCHANGED pollVars
    <3>1. \A g \in Filp : IsArmed(g)' <=> IsArmed(g)
      BY <2>1 DEF ConnectNow, IsArmed, Attached, POLL
    <3> QED BY <1>5, <2>1, <3>1, CountSame DEF Connect, pollVars
  <2>2. CASE Arm(f, Connecting(flags[f]), "POLLOUT")
    BY <1>5, <2>2, CountArm DEF Connect, Connecting, POLL
  <2> QED BY <1>5, <2>1, <2>2 DEF Connect
<1>6. ASSUME NEW f \in Filp, NEW t \in Task, Cancel(f, t) PROVE CountInv' /\ ExactInv'
  BY <1>6, <1>a DEF Cancel, CancelIn, CancelOut, pollVars
<1>7. ASSUME NEW t \in Task, Run(t) PROVE CountInv' /\ ExactInv'
  BY <1>7, <1>a DEF Run, RunTask, filpVars, pollVars
<1>8. ASSUME NEW S \in SUBSET Filp, PollWait(S) PROVE CountInv' /\ ExactInv'
  BY <1>8, <1>a DEF PollWait, aiocbVars
<1>9. CASE PollDone
  <2>1. Armed' = Armed
    BY <1>9 DEF PollDone, Armed, Attached, aiocbVars
  <2>2. held' <=> held /\ epoll_refcnt # 0
    BY <1>9, Zenon DEF PollDone, GivesUp
  <2>3. epoll_refcnt' = epoll_refcnt
    BY <1>9 DEF PollDone
  <2>4. Cardinality(Armed) \in Nat
    BY FS_CardinalityType DEF CountInv
  <2> QED BY <2>1, <2>2, <2>3, <2>4 DEF CountInv, ExactInv
<1>10. CASE UNCHANGED vars
  BY <1>10, <1>a DEF vars, aiocbVars
<1>11. ASSUME NEW f \in Filp, Fini(f) PROVE CountInv' /\ ExactInv'
  BY <1>11, CountFini
<1>12. ASSUME NEW ev \in events, HandleHup(ev) \/ HandleIO(ev) PROVE CountInv' /\ ExactInv'
  BY <1>12, CountEvent
<1> QED
  BY <1>1, <1>2, <1>3, <1>4, <1>5, <1>6, <1>7, <1>8, <1>9, <1>10, <1>11, <1>12
     DEF Next, Use, Poll
-----------------------------------------------------------------------------
(* The theorems.                                                           *)

\* A new poller knows no filp and does not hold the loop.
LEMMA InitInv == Init => IndInv
<1> SUFFICES ASSUME Init PROVE IndInv
  OBVIOUS
<1>1. EpollTypes
  BY TypesInit
<1>2. ~held /\ ~aborted
  BY Zenon DEF Init
<1>3. \A f \in Filp : /\ flags[f] = {} /\ mode[f] = "none" /\ ready[f] = {}
                      /\ ~Pending(f) /\ ~Attached(f) /\ ~Open(f)
  BY DEF Init, AiocbInitially, Pending, Attached, Open
<1>4. \A f \in Filp : FilpInv(f)
  BY <1>3 DEF FilpInv, Registered, Matched, WaiterFlagged, NoStaleWaiter, Unpolled, NotHungUp
<1>5. EventsInHand /\ failed = {} /\ epoll_refcnt = 0
  BY DEF Init, EventsInHand
<1>6. Armed = {}
  BY <1>3 DEF Armed
<1> QED BY <1>1, <1>2, <1>4, <1>5, <1>6, FS_EmptySet
        DEF IndInv, KernelInv, Faults, CountInv, ExactInv

\* Every step of the program and of the kernel keeps it.
LEMMA StepInv == ASSUME IndInv, [Next]_vars PROVE IndInv'
<1>1. KernelInv'
  BY AllStep DEF IndInv
<1> QED BY <1>1, CountStep DEF IndInv, KernelInv

\* The invariant, whatever the kernel refuses.
THEOREM EpollInvariant == Spec => []IndInv
BY InitInv, StepInv, PTL DEF Spec

\* No event is in hand, and none can come, for a filp after tx_aiocb_fini.
THEOREM EpollFini == Spec => []NoEventAfterFini
<1>1. IndInv => NoEventAfterFini
  <2> SUFFICES ASSUME IndInv, NEW ev \in events PROVE Attached(ev.filp)
    BY DEF NoEventAfterFini
  <2>1. ev.filp \in Filp /\ Pending(ev.filp)
    BY DEF IndInv, KernelInv, EpollTypes, Event, Pending
  <2> QED BY <2>1 DEF IndInv, KernelInv, FilpInv, Registered
<1> QED BY <1>1, EpollInvariant, PTL

\* Whatever fails, epoll_refcnt is never above the number of armed filps, and the poller
\* holds the loop while it is positive.
THEOREM EpollNeverAbove == Spec => []RefcntNeverAbove
<1>1. IndInv => RefcntNeverAbove
  BY DEF IndInv, CountInv, RefcntNeverAbove
<1> QED BY <1>1, EpollInvariant, PTL

\* As long as EPOLL_CTL_MOD does not fail, early hang-ups and failed EPOLL_CTL_ADDs
\* included, TX_POLLIN and TX_POLLOUT say what the kernel is armed for.
THEOREM EpollFlags ==
    ASSUME ~ModFails
    PROVE  Spec => []FlagsMatchKernel
<1>1. IndInv => FlagsMatchKernel
  <2> SUFFICES ASSUME IndInv, NEW f \in Filp, Attached(f), ~Pending(f)
               PROVE  IF flags[f] \cap POLL = {}
                      THEN mode[f] # "armed"
                      ELSE mode[f] = "armed" /\ interest[f] = EventsOf(flags[f])
    BY DEF FlagsMatchKernel
  <2>1. Matched(f) /\ f \notin failed
    BY DEF IndInv, KernelInv, FilpInv, Faults
  <2> QED BY <2>1 DEF Matched
<1> QED BY <1>1, EpollInvariant, PTL

\* ... and no wakeup is lost.
THEOREM EpollNoLostWakeup ==
    ASSUME ~ModFails
    PROVE  Spec => []NoLostWakeup
<1>1. IndInv => NoLostWakeup
  <2> SUFFICES ASSUME IndInv, ~aborted, NEW f \in Filp, Attached(f), ~Pending(f)
               PROVE  /\ filterin[f] # NoTask => mode[f] = "armed" /\ "IN" \in interest[f]
                      /\ filterout[f] # NoTask => mode[f] = "armed" /\ "OUT" \in interest[f]
    BY DEF NoLostWakeup
  <2>1. Matched(f) /\ WaiterFlagged(f) /\ f \notin failed
    BY DEF IndInv, KernelInv, FilpInv, Faults
  <2>2. /\ filterin[f] # NoTask => "POLLIN" \in flags[f]
        /\ filterout[f] # NoTask => "POLLOUT" \in flags[f]
    BY <2>1 DEF WaiterFlagged, Waiter, POLL
  <2> QED BY <2>1, <2>2 DEF Matched, EventsOf, POLL
<1> QED BY <1>1, EpollInvariant, PTL

\* The assertion of tx_epoll_pollin and tx_epoll_pollout fails for no other reason than
\* an EPOLL_CTL_ADD that failed although epoll takes the descriptor.
THEOREM EpollNoAssertFails ==
    ASSUME ~AddFails
    PROVE  Spec => []NoAssertFails
<1>1. IndInv => NoAssertFails
  BY DEF IndInv, KernelInv, Faults, NoAssertFails
<1> QED BY <1>1, EpollInvariant, PTL

\* A readable filp has no waiting reader, a writable one no waiting writer, if no such
\* EPOLL_CTL_ADD aborts the program.
THEOREM EpollReadyHasNoWaiter ==
    ASSUME ~AddFails
    PROVE  Spec => []ReadyHasNoWaiter
<1>1. IndInv => ReadyHasNoWaiter
  BY DEF IndInv, KernelInv, FilpInv, NoStaleWaiter, Faults, ReadyHasNoWaiter
<1> QED BY <1>1, EpollInvariant, PTL

\* Without early hang-ups and failing EPOLL_CTL_MODs, epoll_refcnt is the number of armed
\* filps and the loop is held exactly as long as there is one.
THEOREM EpollRefcntExact ==
    ASSUME ~ModFails, ~EarlyHup
    PROVE  Spec => []RefcntExact
<1>1. IndInv => RefcntExact
  <2> SUFFICES ASSUME IndInv PROVE RefcntExact
    OBVIOUS
  <2>1. IsFiniteSet(Armed) /\ epoll_refcnt = Cardinality(Armed)
    BY DEF IndInv, CountInv, ExactInv
  <2>2. Cardinality(Armed) \in Nat /\ (Cardinality(Armed) = 0 <=> Armed = {})
    BY <2>1, FS_CardinalityType, FS_EmptySet
  <2> QED BY <2>1, <2>2 DEF IndInv, CountInv, ExactInv, RefcntExact
<1> QED BY <1>1, EpollInvariant, PTL

\* While the poller handles events a task leaves its filp only into the set of active
\* tasks, a hang-up included: the safety part of WaiterWoken.
THEOREM EpollTakenIsActivated == Spec => TakenIsActivated
<1> DEFINE A == \A f \in Filp, d \in POLL :
                   pc = "poll" => Waiter(f, d) \in {NoTask, Waiter(f, d)'} \cup active'
<1>1. ASSUME IndInv, [Next]_vars PROVE [A]_vars
  <2> SUFFICES ASSUME Next, pc = "poll" PROVE A
    BY <1>1
  <2> USE DEF Waiter, POLL
  <2>1. ASSUME NEW f \in Filp,
               \/ AiocbInit(f) \/ Fini(f) \/ Eagain(f)
               \/ \E c \in Cond : UsedUp(f, c)
               \/ \E t \in Task : Use(f, t)
        PROVE  FALSE
    BY <2>1 DEF AiocbInit, Fini, Eagain, UsedUp, Use, ActiveIn, ActiveOut, Connect, Cancel, InUser
  <2>2. ASSUME NEW f \in Filp, NEW c \in Cond, BecomesReady(f, c) PROVE A
    BY <2>2 DEF BecomesReady, aiocbVars
  <2>3. ASSUME NEW ev \in events, HandleHup(ev) PROVE A
    BY <1>1, <2>3 DEF HandleHup, HupWakes, Waits, Activated, IndInv, KernelInv, EpollTypes, Event
  <2>4. ASSUME NEW ev \in events, HandleIO(ev) PROVE A
    <3>1. /\ filterin' = [filterin EXCEPT ![ev.filp] = IF "IN" \in ev.flags THEN NoTask ELSE @]
          /\ filterout' = [filterout EXCEPT ![ev.filp] = IF "OUT" \in ev.flags THEN NoTask ELSE @]
          /\ "IN" \in ev.flags => filterin[ev.filp] \in {NoTask} \cup active'
          /\ "OUT" \in ev.flags => filterout[ev.filp] \in {NoTask} \cup active'
      BY <2>4 DEF HandleIO, Waits, Activated
    <3> QED BY <1>1, <3>1 DEF IndInv, KernelInv, EpollTypes, Event
  <2>5. CASE PollDone
    BY <2>5 DEF PollDone, aiocbVars
  <2>6. ASSUME NEW t \in Task, Run(t) PROVE FALSE
    BY <2>6 DEF Run, InUser
  <2>7. ASSUME NEW S \in SUBSET Filp, PollWait(S) PROVE FALSE
    BY <2>7 DEF PollWait, InUser
  <2> QED BY <2>1, <2>2, <2>3, <2>4, <2>5, <2>6, <2>7 DEF Next, Poll
<1> QED BY <1>1, EpollInvariant, PTL DEF Spec, TakenIsActivated
===============================================================================
