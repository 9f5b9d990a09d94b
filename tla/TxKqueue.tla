------------------------------- MODULE TxKqueue -------------------------------
(***************************************************************************)
(* The kqueue poller (tx_kqueue.cpp) under the asynchronous descriptors of *)
(* TxAiocb, with the part of the kernel they rely on.                      *)
(*                                                                         *)
(* Unlike epoll, each direction is a filter of its own: EV_ADD|EV_ONESHOT  *)
(* registers it, delivery deletes it, and epoll_refcnt counts filters.     *)
(***************************************************************************)
EXTENDS TxAiocb

CONSTANTS MAX_EVENTS,  \* events per kevent
          AddFails,    \* TRUE: EV_ADD may fail, which is only logged
          MaxLeak      \* bound on leaked (the code: INT_MAX)

ASSUME KqueueAssumption ==
    /\ MAX_EVENTS \in Nat \ {0}
    /\ AddFails \in BOOLEAN
    /\ MaxLeak \in Nat

VARIABLES
    epoll_refcnt,  \* tx_kqueue_t.epoll_refcnt
    held,          \* loop->tx_holder == epoll
    pc,            \* "user", or "poll": in the for loop of tx_kqueue_polling
    events,        \* the events of kevent that are not handled yet
    knote,         \* kernel: the directions registered for each descriptor
    ready,         \* kernel: the directions that are ready
    leaked,        \* history: filps finished with both directions armed
    failed         \* history: what EV_ADD failed for and did not succeed for since

pollVars == <<epoll_refcnt, held, knote, failed>>
vars == <<aiocbVars, epoll_refcnt, held, pc, events, knote, ready, leaked, failed>>

Dir == {"POLLIN", "POLLOUT"}

\* tx_kqueue_init: a poller without descriptors.
Init ==
    /\ AiocbInitially
    /\ epoll_refcnt = 0
    /\ held = FALSE
    /\ pc = "user"
    /\ events = {}
    /\ knote = [f \in Filp |-> {}]
    /\ ready = [f \in Filp |-> {}]
    /\ leaked = 0
    /\ failed = {}
-----------------------------------------------------------------------------
(* The kernel (external).                                                  *)

\* Data arrives or buffer space opens; end of file makes both directions ready.
BecomesReady(f, d) ==
    /\ Attached(f)
    /\ d \notin ready[f]
    /\ ready' = [ready EXCEPT ![f] = @ \cup {d}]
    /\ UNCHANGED <<aiocbVars, pollVars, pc, events, leaked>>

\* The application reads all data, or writes until the buffer is full.
UsedUp(f, d) ==
    /\ pc = "user"
    /\ d \in ready[f]
    /\ ready' = [ready EXCEPT ![f] = @ \ {d}]
    /\ UNCHANGED <<aiocbVars, pollVars, pc, events, leaked>>
-----------------------------------------------------------------------------
(* Operations of the application.                                          *)

InUser == pc = "user"

\* tx_aiocb_init + tx_kqueue_attach, of a filp that is not attached: no kernel call.
AiocbInit(f) ==
    /\ InUser
    /\ ~Attached(f)
    /\ Initialise(f, {"WRITABLE", "ATTACHED"})
    /\ failed' = {e \in failed : e.filp # f}
    /\ UNCHANGED <<epoll_refcnt, held, knote, pc, events, ready, leaked>>

\* Mutant: the flag is set although kevent failed.
FlagAfterFailure(dir) == {dir}

\* filp->tx_flags |= (error != -1? TX_POLLIN: 0), of a kevent that failed.
FlagsIfFailed(dir) == {}

\* Mutant: a filp is counted once, as tx_epoll.cpp does.
CountsOnce(fl) == IF fl \cap POLL = {} THEN 1 ELSE 0

\* epoll->epoll_refcnt += (error != -1)
Counts(fl) == 1

\* What tx_kqueue_pollin and tx_kqueue_pollout share, on a filp with the flags fl that is not
\* armed for direction dir yet.  It is attached, as the code asserts, because
\* tx_kqueue_attach cannot fail.
KqueuePoll(f, fl, dir) ==
    LET e == [filp |-> f, filter |-> dir] IN
    \/ /\ flags' = [flags EXCEPT ![f] = fl \cup {dir}]
       /\ knote' = [knote EXCEPT ![f] = @ \cup {dir}]
       /\ epoll_refcnt' = epoll_refcnt + Counts(fl)
       /\ held' = (held \/ epoll_refcnt' > 0)
       /\ failed' = failed \ {e}
    \/ /\ AddFails
       /\ flags' = [flags EXCEPT ![f] = fl \cup FlagsIfFailed(dir)]
       /\ held' = (held \/ epoll_refcnt > 0)
       /\ failed' = failed \cup {e}
       /\ UNCHANGED <<knote, epoll_refcnt>>

tx_kqueue_pollin(f, fl) == KqueuePoll(f, fl, "POLLIN")
tx_kqueue_pollout(f, fl) == KqueuePoll(f, fl, "POLLOUT")

\* The end of generic_active_in and generic_active_out: arm dir unless it is armed.
Arm(f, fl, dir) ==
    IF dir \in fl
    THEN flags' = [flags EXCEPT ![f] = fl] /\ UNCHANGED pollVars
    ELSE IF dir = "POLLIN" THEN tx_kqueue_pollin(f, fl) ELSE tx_kqueue_pollout(f, fl)

\* tx_aincb_active.
ActiveIn(f, t) ==
    /\ InUser /\ Attached(f)
    /\ \/ ReadNow(f, t) /\ UNCHANGED pollVars
       \/ ReadLater(f, t) /\ Arm(f, flags[f], "POLLIN")
    /\ UNCHANGED <<pc, events, ready, leaked>>

\* tx_outcb_prepare.
ActiveOut(f, t) ==
    /\ InUser /\ Attached(f)
    /\ \/ WriteNow(f, t) /\ UNCHANGED pollVars
       \/ WriteLater(f, t) /\ Arm(f, flags[f], "POLLOUT")
    /\ UNCHANGED <<pc, events, ready, leaked>>

\* tx_aiocb_connect.
Connect(f, t) ==
    /\ InUser /\ Attached(f)
    /\ \/ ConnectNow(f, t) /\ UNCHANGED pollVars
       \/ ConnectLater(f, t) /\ Arm(f, Connecting(flags[f]), "POLLOUT")
    /\ UNCHANGED <<pc, events, ready, leaked>>

\* tx_aincb_stop and tx_outcb_cancel.
Cancel(f, t) ==
    /\ InUser
    /\ CancelIn(f, t) \/ CancelOut(f, t)
    /\ UNCHANGED <<pollVars, pc, events, ready, leaked>>

\* recv, accept or write returned EAGAIN.
Eagain(f) ==
    /\ InUser /\ Attached(f)
    /\ \/ "POLLIN" \notin ready[f] /\ tx_aincb_update(f)
       \/ "POLLOUT" \notin ready[f] /\ tx_outcb_update(f)
    /\ UNCHANGED <<pollVars, pc, events, ready, leaked>>

\* Mutant: only the read filter is deleted.
DeletedReads(f) == flags[f] \cap {"POLLIN"}

\* The filters tx_kqueue_detach deletes.
Deleted(f) == flags[f] \cap POLL

\* tx_aiocb_fini + tx_kqueue_detach of an attached filp, and the close of the
\* descriptor if kevent found every filter (otherwise the filp is not DETACHED).
\* One filp is subtracted from epoll_refcnt, although filters were added to it.
Fini(f) ==
    LET armed == flags[f] \cap POLL IN
    /\ InUser
    /\ Attached(f)
    /\ leaked < MaxLeak \/ Cardinality(armed) < 2
    /\ IF Deleted(f) \subseteq knote[f]
       THEN flags' = [flags EXCEPT ![f] = @ \cup {"DETACHED"}]
       ELSE UNCHANGED flags
    /\ knote' = [knote EXCEPT ![f] = @ \ Deleted(f)]
    /\ ready' = [ready EXCEPT ![f] = {}]
    /\ epoll_refcnt' = epoll_refcnt - (IF armed # {} THEN 1 ELSE 0)
    /\ held' = (held /\ ~(armed # {} /\ epoll_refcnt' = 0))
    /\ leaked' = leaked + (IF Cardinality(armed) = 2 THEN 1 ELSE 0)
    /\ UNCHANGED <<filterin, filterout, active, pc, events, failed>>

Run(t) == pc = "user" /\ RunTask(t) /\ UNCHANGED <<pollVars, pc, events, ready, leaked>>
-----------------------------------------------------------------------------
(* tx_kqueue_polling.                                                      *)

Reportable == {e \in [filp : Filp, filter : Dir] :
                  e.filter \in knote[e.filp] \cap ready[e.filp]}

\* kevent reports the filters in S; EV_ONESHOT deletes them.
PollWait(S) ==
    /\ pc = "user"
    /\ S \subseteq Reportable
    /\ Cardinality(S) <= MAX_EVENTS
    /\ pc' = "poll"
    /\ events' = S
    /\ knote' = [f \in Filp |-> {d \in knote[f] : [filp |-> f, filter |-> d] \notin S}]
    /\ UNCHANGED <<aiocbVars, epoll_refcnt, held, ready, leaked, failed>>

\* Mutant: the flag of the other direction is cleared.
ClearedOther(d) == IF d = "POLLIN" THEN {"POLLOUT"} ELSE {"POLLIN"}

\* The flag an event of direction d clears.
Cleared(d) == {d}

\* EVFILT_READ.
HandleRead(ev) ==
    LET f == ev.filp IN
    /\ pc = "poll"
    /\ ev \in events
    /\ ev.filter = "POLLIN"
    /\ events' = events \ {ev}
    /\ epoll_refcnt' = epoll_refcnt - 1
    /\ active' = Activated({filterin[f]})
    /\ flags' = [flags EXCEPT ![f] = (@ \cup {"READABLE"}) \ Cleared("POLLIN")]
    /\ filterin' = [filterin EXCEPT ![f] = NoTask]
    /\ UNCHANGED <<filterout, held, pc, knote, ready, leaked, failed>>

\* EVFILT_WRITE.
HandleWrite(ev) ==
    LET f == ev.filp IN
    /\ pc = "poll"
    /\ ev \in events
    /\ ev.filter = "POLLOUT"
    /\ events' = events \ {ev}
    /\ epoll_refcnt' = epoll_refcnt - 1
    /\ active' = Activated({filterout[f]})
    /\ flags' = [flags EXCEPT ![f] = (@ \cup {"WRITABLE"}) \ Cleared("POLLOUT")]
    /\ filterout' = [filterout EXCEPT ![f] = NoTask]
    /\ UNCHANGED <<filterin, held, pc, knote, ready, leaked, failed>>

\* All events are handled: the loop is released if nothing is counted.
PollDone ==
    /\ pc = "poll"
    /\ events = {}
    /\ pc' = "user"
    /\ held' = (held /\ epoll_refcnt # 0)
    /\ UNCHANGED <<aiocbVars, epoll_refcnt, events, knote, ready, leaked, failed>>

Handle == \E ev \in events : HandleRead(ev) \/ HandleWrite(ev)

Poll == (\E S \in SUBSET Reportable : PollWait(S)) \/ Handle \/ PollDone

Use(f, t) == ActiveIn(f, t) \/ ActiveOut(f, t) \/ Connect(f, t) \/ Cancel(f, t)

Next ==
    \/ \E f \in Filp : \/ AiocbInit(f) \/ Fini(f) \/ Eagain(f)
                       \/ \E d \in Dir : BecomesReady(f, d) \/ UsedUp(f, d)
                       \/ \E t \in Task : Use(f, t)
    \/ \E t \in Task : Run(t)
    \/ Poll

Spec == Init /\ [][Next]_vars

\* The loop calls the poller again and again, its for loop ends, and the kernel
\* takes the ready filters in turn.
Fairness ==
    /\ \A e \in [filp : Filp, filter : Dir] :
          SF_vars(\E S \in SUBSET Reportable : e \in S /\ PollWait(S))
    /\ WF_vars(Handle)
    /\ WF_vars(PollDone)

FairSpec == Spec /\ Fairness
-----------------------------------------------------------------------------
(* Properties.                                                             *)

\* What the code believes to be armed: registered with the kernel, or in hand.
InKernel(f) == {d \in Dir : d \in knote[f] \/ [filp |-> f, filter |-> d] \in events}

\* TX_POLLIN and TX_POLLOUT of an attached filp say exactly which filters exist, so
\* that the EV_DELETEs of tx_kqueue_detach find theirs, also after failed EV_ADDs.
FlagsMatchKernel ==
    \A f \in Filp : Attached(f) => flags[f] \cap POLL = InKernel(f)

\* A filter outlives its filp nowhere: none is registered or delivered after
\* tx_aiocb_fini, when the filp may be freed.  (Closing the descriptor deletes its
\* filters too, but the application may keep it open.)
NoKnoteAfterFini == \A f \in Filp : ~Attached(f) => InKernel(f) = {}

\* No lost wakeup: a waiting task has a filter, or an event in hand, unless the EV_ADD
\* for it failed, which is only logged.
NoLostWakeup ==
    \A e \in [filp : Filp, filter : Dir] \ failed :
        Attached(e.filp) /\ Waiter(e.filp, e.filter) # NoTask => e.filter \in InKernel(e.filp)

Filters == {e \in [filp : Filp, filter : Dir] : e.filter \in InKernel(e.filp)}

\* epoll_refcnt is the number of filters, plus one for each filp that was ever
\* finished with both directions armed, and the poller holds the loop as long as
\* it is not zero: the loop is never released while a filter is registered.
RefcntLeaks == /\ epoll_refcnt = Cardinality(Filters) + leaked
               /\ pc = "user" => (held <=> epoll_refcnt > 0)

\* When the poller takes a task from a filp it activates it.
TakenIsActivated ==
    [][\A f \in Filp, d \in Dir :
          pc = "poll" => Waiter(f, d) \in {NoTask, Waiter(f, d)'} \cup active']_vars

\* A task waiting for a direction that is ready does not wait for ever, unless it
\* cancels, the data or space is taken, the filp is finished or its EV_ADD failed; also
\* while other filters compete for the events of one kevent.  When the poller takes it
\* from the filp it activates it.
WaiterWoken ==
    /\ \A e \in [filp : Filp, filter : Dir] :
          LET waits == /\ Attached(e.filp) /\ e \notin failed
                       /\ Waiter(e.filp, e.filter) # NoTask
                       /\ e.filter \in ready[e.filp]
          IN  waits ~> ~waits
    /\ TakenIsActivated
===============================================================================
