------------------------------- MODULE TxEpoll -------------------------------
(***************************************************************************)
(* The epoll poller (tx_epoll.cpp) under the asynchronous descriptors of   *)
(* TxAiocb, with the part of the kernel they rely on.                      *)
(*                                                                         *)
(* The loop is single threaded: application code (pc = "user") and         *)
(* tx_epoll_polling (pc = "poll") alternate, while the kernel changes the  *)
(* readiness of descriptors at any time.                                   *)
(***************************************************************************)
EXTENDS TxAiocb

CONSTANTS Pollable,    \* filps whose descriptor epoll accepts (others: EPERM)
          MAX_EVENTS,  \* events per epoll_wait
          AddFails,    \* TRUE: EPOLL_CTL_ADD may fail for lack of memory
          ModFails,    \* TRUE: EPOLL_CTL_MOD may fail
          EarlyHup,    \* TRUE: a descriptor may hang up before it was ever armed
          MaxUnder     \* bound: epoll_refcnt stays >= -MaxUnder (the code: INT_MIN)

ASSUME EpollAssumption ==
    /\ Pollable \subseteq Filp
    /\ MAX_EVENTS \in Nat \ {0}
    /\ AddFails \in BOOLEAN /\ ModFails \in BOOLEAN /\ EarlyHup \in BOOLEAN
    /\ MaxUnder \in Nat

VARIABLES
    epoll_refcnt,  \* tx_epoll_t.epoll_refcnt
    held,          \* loop->tx_holder == epoll
    pc,            \* "user", or "poll": in the for loop of tx_epoll_polling
    events,        \* the events of epoll_wait that are not handled yet
    mode,          \* kernel: "none", "level" (never armed), "armed", "fired"
    interest,      \* kernel: the events an armed descriptor reports
    ready,         \* kernel: the condition of the descriptor
    aborted,       \* a TX_ASSERT failed
    failed         \* history: filps that EPOLL_CTL_MOD failed for since tx_aiocb_init

kernelVars == <<mode, interest, failed>>
pollVars == <<epoll_refcnt, held, kernelVars, aborted>>
vars == <<aiocbVars, epoll_refcnt, held, pc, events, kernelVars, ready, aborted>>

Cond == {"IN", "OUT", "HUP"}

\* The epoll events for the POLLIN and POLLOUT among fl.
EventsOf(fl) == {e \in {"IN", "OUT"} : (e = "IN" /\ "POLLIN" \in fl)
                                          \/ (e = "OUT" /\ "POLLOUT" \in fl)}

\* tx_epoll_init: a poller without descriptors.
Init ==
    /\ AiocbInitially
    /\ epoll_refcnt = 0
    /\ held = FALSE
    /\ pc = "user"
    /\ events = {}
    /\ mode = [f \in Filp |-> "none"]
    /\ interest = [f \in Filp |-> {}]
    /\ ready = [f \in Filp |-> {}]
    /\ aborted = FALSE
    /\ failed = {}
-----------------------------------------------------------------------------
(* The kernel (external).                                                  *)

\* What epoll_wait would report now.  The empty event mask of EPOLL_CTL_ADD still
\* reports a hang-up, and is not one-shot.
Reportable(f) ==
    CASE mode[f] = "level" -> ready[f] \cap {"HUP"}
      [] mode[f] = "armed" -> ready[f] \cap (interest[f] \cup {"HUP"})
      [] OTHER -> {}

\* EPOLL_CTL_MOD with EPOLLONESHOT, for the directions in fl.
ModArms(f, fl) ==
    /\ mode' = [mode EXCEPT ![f] = "armed"]
    /\ interest' = [interest EXCEPT ![f] = EventsOf(fl)]
    /\ UNCHANGED failed

\* ... or its failure (ENOMEM, say): the descriptor stays as it is.
ModRefused(f) == ModFails /\ failed' = failed \cup {f} /\ UNCHANGED <<mode, interest>>

\* Data arrives, buffer space opens, or the peer hangs up.
BecomesReady(f, c) ==
    /\ mode[f] # "none"
    /\ c \notin ready[f]
    /\ c = "HUP" /\ ~EarlyHup => mode[f] # "level"
    /\ ready' = [ready EXCEPT ![f] = @ \cup {c}]
    /\ UNCHANGED <<aiocbVars, pollVars, pc, events>>

\* The application reads all data, or writes until the buffer is full.
UsedUp(f, c) ==
    /\ pc = "user" /\ ~aborted
    /\ c \in ready[f] \ {"HUP"}
    /\ ready' = [ready EXCEPT ![f] = @ \ {c}]
    /\ UNCHANGED <<aiocbVars, pollVars, pc, events>>
-----------------------------------------------------------------------------
(* Operations of the application.                                          *)

InUser == pc = "user" /\ ~aborted

\* The flags of a filp whose descriptor epoll does not take: always ready.
EpermFlags == {"WRITABLE", "READABLE"}

\* tx_aiocb_init + tx_epoll_attach, of a filp that is not attached.  The result of
\* EPOLL_CTL_ADD is 0, EPERM for a descriptor epoll does not take, or ENOSPC or
\* ENOMEM, which is only logged.
AiocbInit(f) ==
    /\ InUser
    /\ ~Attached(f)
    /\ \/ /\ f \in Pollable
          /\ Initialise(f, {"WRITABLE", "ATTACHED"})
          /\ mode' = [mode EXCEPT ![f] = "level"]
       \/ /\ f \notin Pollable
          /\ Initialise(f, EpermFlags)
          /\ UNCHANGED mode
       \/ /\ AddFails
          /\ Initialise(f, {"WRITABLE"})
          /\ UNCHANGED mode
    /\ failed' = failed \ {f}
    /\ UNCHANGED <<epoll_refcnt, held, pc, events, interest, ready, aborted>>

\* Mutant: the descriptor is armed for the new direction only.
MaskOneWay(fl, dir) == {dir}

\* The directions in the mask of EPOLL_CTL_MOD: the armed ones and dir.
Mask(fl, dir) == fl \cup {dir}

\* Mutant: the poller gives the loop up one event too late.
GivesUpLate(n) == n < 0

\* epoll_refcnt == 0: the poller no longer holds the loop.
GivesUp(n) == n = 0

\* What tx_epoll_pollin and tx_epoll_pollout share, on a filp with the flags fl that is not
\* armed for direction dir yet.  A filp armed for the other direction is counted
\* already.  A failing EPOLL_CTL_MOD is only logged.
PollMod(f, fl, dir) ==
    IF ~Attached(f)
    THEN aborted' = TRUE /\ UNCHANGED <<flags, epoll_refcnt, held, kernelVars>>
    ELSE /\ \/ /\ ModArms(f, Mask(fl, dir))
               /\ flags' = [flags EXCEPT ![f] = fl \cup {dir}]
               /\ epoll_refcnt' = epoll_refcnt + (IF fl \cap POLL = {} THEN 1 ELSE 0)
            \/ /\ ModRefused(f)
               /\ flags' = [flags EXCEPT ![f] = fl]
               /\ UNCHANGED epoll_refcnt
         /\ held' = (held \/ epoll_refcnt' > 0)
         /\ UNCHANGED aborted

tx_epoll_pollin(f, fl) == PollMod(f, fl, "POLLIN")
tx_epoll_pollout(f, fl) == PollMod(f, fl, "POLLOUT")

\* The end of generic_active_in and generic_active_out: arm dir unless it is armed.
Arm(f, fl, dir) ==
    IF dir \in fl
    THEN flags' = [flags EXCEPT ![f] = fl] /\ UNCHANGED pollVars
    ELSE IF dir = "POLLIN" THEN tx_epoll_pollin(f, fl) ELSE tx_epoll_pollout(f, fl)

\* tx_aincb_active.
ActiveIn(f, t) ==
    /\ InUser /\ Open(f)
    /\ \/ ReadNow(f, t) /\ UNCHANGED pollVars
       \/ ReadLater(f, t) /\ Arm(f, flags[f], "POLLIN")
    /\ UNCHANGED <<pc, events, ready>>

\* tx_outcb_prepare.
ActiveOut(f, t) ==
    /\ InUser /\ Open(f)
    /\ \/ WriteNow(f, t) /\ UNCHANGED pollVars
       \/ WriteLater(f, t) /\ Arm(f, flags[f], "POLLOUT")
    /\ UNCHANGED <<pc, events, ready>>

\* tx_aiocb_connect.
Connect(f, t) ==
    /\ InUser /\ Open(f)
    /\ f \in Pollable
    /\ \/ ConnectNow(f, t) /\ UNCHANGED pollVars
       \/ ConnectLater(f, t) /\ Arm(f, Connecting(flags[f]), "POLLOUT")
    /\ UNCHANGED <<pc, events, ready>>

\* tx_aincb_stop and tx_outcb_cancel.
Cancel(f, t) ==
    /\ InUser
    /\ CancelIn(f, t) \/ CancelOut(f, t)
    /\ UNCHANGED <<pollVars, pc, events, ready>>

\* recv, accept or write returned EAGAIN.
Eagain(f) ==
    /\ InUser /\ Attached(f)
    /\ \/ ready[f] \cap {"IN", "HUP"} = {} /\ tx_aincb_update(f)
       \/ ready[f] \cap {"OUT", "HUP"} = {} /\ tx_outcb_update(f)
    /\ UNCHANGED <<pollVars, pc, events, ready>>

\* Mutant: the filp is marked detached without EPOLL_CTL_DEL.
DelForgotten(f) == UNCHANGED <<kernelVars, ready>>

\* EPOLL_CTL_DEL, and the close of the descriptor that follows it.
Del(f) ==
    /\ mode' = [mode EXCEPT ![f] = "none"]
    /\ interest' = [interest EXCEPT ![f] = {}]
    /\ ready' = [ready EXCEPT ![f] = {}]
    /\ UNCHANGED failed

\* tx_aiocb_fini + tx_epoll_detach of an attached filp (of another one nothing
\* changes).  POLLIN, POLLOUT and the filters keep their values.
Fini(f) ==
    LET armed == flags[f] \cap POLL # {} IN
    /\ InUser
    /\ Attached(f)
    /\ armed => epoll_refcnt > -MaxUnder
    /\ flags' = [flags EXCEPT ![f] = @ \cup {"DETACHED"}]
    /\ Del(f)
    /\ epoll_refcnt' = epoll_refcnt - (IF armed THEN 1 ELSE 0)
    /\ held' = (held /\ ~(armed /\ GivesUp(epoll_refcnt')))
    /\ UNCHANGED <<filterin, filterout, active, pc, events, aborted>>

Run(t) == InUser /\ RunTask(t) /\ UNCHANGED <<pollVars, pc, events, ready>>
-----------------------------------------------------------------------------
(* tx_epoll_polling.                                                       *)

\* epoll_wait reports the descriptors of S; EPOLLONESHOT disarms them.
PollWait(S) ==
    /\ InUser
    /\ Cardinality(S) <= MAX_EVENTS
    /\ \A f \in S : Reportable(f) # {}
    /\ epoll_refcnt - Cardinality(S) >= -MaxUnder
    /\ pc' = "poll"
    /\ events' = {[filp |-> f, flags |-> Reportable(f)] : f \in S}
    /\ mode' = [f \in Filp |-> IF f \in S /\ mode[f] = "armed" THEN "fired" ELSE mode[f]]
    /\ UNCHANGED <<aiocbVars, epoll_refcnt, held, interest, ready, aborted, failed>>

\* Mutant: an event is not counted.
UncountForgotten(n) == n

\* poll->epoll_refcnt--, for every event.
Uncount(n) == n - 1

\* Mutant: a hang-up wakes the reader only.
HupWakesReader(f) == {filterin[f]}

HupWakes(f) == {filterin[f], filterout[f]}

\* Mutant: a task that was woken is still noted as waiting.
WaitsStill(t, woken) == t

\* The task that waits for a direction after an event that has woken it, or not.
Waits(t, woken) == IF woken THEN NoTask ELSE t

\* EPOLLHUP or EPOLLERR: both directions are woken and disarmed.
HandleHup(ev) ==
    LET f == ev.filp IN
    /\ pc = "poll"
    /\ ev \in events
    /\ "HUP" \in ev.flags
    /\ events' = events \ {ev}
    /\ epoll_refcnt' = Uncount(epoll_refcnt)
    /\ flags' = [flags EXCEPT ![f] = (@ \ POLL) \cup {"READABLE", "WRITABLE"}]
    /\ active' = Activated(HupWakes(f))
    /\ filterin' = [filterin EXCEPT ![f] = Waits(@, TRUE)]
    /\ filterout' = [filterout EXCEPT ![f] = Waits(@, TRUE)]
    /\ UNCHANGED <<held, pc, kernelVars, ready, aborted>>

\* Mutant: the remaining direction is not armed again.
StillNothing(f, done) == {}

\* The directions f is still wanted for.
Still(f, done) == (flags[f] \ done) \cap POLL

\* tx_epoll_pollit, on a filp whose event was subtracted.  If EPOLL_CTL_MOD fails,
\* TX_POLLIN or TX_POLLOUT stays set all the same.
tx_epoll_pollit(f, fl) ==
    \/ ModArms(f, fl) /\ epoll_refcnt' = Uncount(epoll_refcnt) + 1
    \/ ModRefused(f) /\ epoll_refcnt' = Uncount(epoll_refcnt)

\* EPOLLOUT and EPOLLIN: wake the directions reported, and arm the one that is
\* still wanted again.
HandleIO(ev) ==
    LET f     == ev.filp
        isIn  == "IN" \in ev.flags
        isOut == "OUT" \in ev.flags
        done  == (IF isIn THEN {"POLLIN"} ELSE {}) \cup (IF isOut THEN {"POLLOUT"} ELSE {})
        still == Still(f, done)
    IN
    /\ pc = "poll"
    /\ ev \in events
    /\ "HUP" \notin ev.flags
    /\ events' = events \ {ev}
    /\ flags' = [flags EXCEPT ![f] = (@ \ done) \cup (IF isIn THEN {"READABLE"} ELSE {})
                                               \cup (IF isOut THEN {"WRITABLE"} ELSE {})]
    /\ active' = Activated((IF isIn THEN {filterin[f]} ELSE {})
                              \cup (IF isOut THEN {filterout[f]} ELSE {}))
    /\ filterin' = [filterin EXCEPT ![f] = Waits(@, isIn)]
    /\ filterout' = [filterout EXCEPT ![f] = Waits(@, isOut)]
    /\ IF still # {} THEN tx_epoll_pollit(f, still)
                     ELSE epoll_refcnt' = Uncount(epoll_refcnt) /\ UNCHANGED kernelVars
    /\ UNCHANGED <<held, pc, ready, aborted>>

\* All events are handled: the loop is released if nothing is armed.
PollDone ==
    /\ pc = "poll"
    /\ events = {}
    /\ pc' = "user"
    /\ held' = (held /\ ~GivesUp(epoll_refcnt))
    /\ UNCHANGED <<aiocbVars, epoll_refcnt, events, kernelVars, ready, aborted>>

Poll == \/ \E S \in SUBSET Filp : PollWait(S)
        \/ \E ev \in events : HandleHup(ev) \/ HandleIO(ev)
        \/ PollDone

Use(f, t) == ActiveIn(f, t) \/ ActiveOut(f, t) \/ Connect(f, t) \/ Cancel(f, t)

Next ==
    \/ \E f \in Filp : \/ AiocbInit(f) \/ Fini(f) \/ Eagain(f)
                       \/ \E c \in Cond : BecomesReady(f, c) \/ UsedUp(f, c)
                       \/ \E t \in Task : Use(f, t)
    \/ \E t \in Task : Run(t)
    \/ Poll

Spec == Init /\ [][Next]_vars

\* The loop calls the poller again and again, its for loop ends, and the kernel
\* takes the ready descriptors in turn.
Fairness ==
    /\ \A f \in Filp : SF_vars(\E S \in SUBSET Filp : f \in S /\ PollWait(S))
    /\ WF_vars(\E ev \in events : HandleHup(ev) \/ HandleIO(ev))
    /\ WF_vars(PollDone)

FairSpec == Spec /\ Fairness
-----------------------------------------------------------------------------
(* Properties.                                                             *)

Pending(f) == \E ev \in events : ev.filp = f

\* No lost wakeup: as long as a task waits for a direction of a descriptor, the
\* kernel is armed for it, or an event that will be looked at is in hand.
NoLostWakeup ==
    ~aborted =>
    \A f \in Filp : Attached(f) /\ ~Pending(f) =>
        /\ filterin[f] # NoTask => mode[f] = "armed" /\ "IN" \in interest[f]
        /\ filterout[f] # NoTask => mode[f] = "armed" /\ "OUT" \in interest[f]

\* TX_POLLIN and TX_POLLOUT say exactly what the kernel is armed for, so that an
\* early return on them (generic_active_in, _out) skips no EPOLL_CTL_MOD.
FlagsMatchKernel ==
    \A f \in Filp : Attached(f) /\ ~Pending(f) =>
        IF flags[f] \cap POLL = {}
        THEN mode[f] # "armed"
        ELSE mode[f] = "armed" /\ interest[f] = EventsOf(flags[f])

\* No event reaches a filp after tx_aiocb_fini, when it may be freed.
NoEventAfterFini == \A ev \in events : Attached(ev.filp)

Armed == {f \in Filp : Attached(f) /\ flags[f] \cap POLL # {}}

\* epoll_refcnt counts the armed descriptors, and the poller holds the loop
\* exactly as long as there are any.
RefcntExact == /\ epoll_refcnt = Cardinality(Armed)
               /\ pc = "user" => (held <=> Armed # {})

\* A hang-up of a descriptor that was never armed, and a filp that could not be armed
\* again, leave epoll_refcnt too low, but never too high: it counts no more than the
\* filps with TX_POLLIN or TX_POLLOUT, and while it counts any the poller holds the loop.
\* Whether the poller gives the loop up again is RefcntExact, without these faults:
\* with them the count may pass 0 between two tests, and the loop stays held.
RefcntNeverAbove == /\ epoll_refcnt <= Cardinality(Armed)
                    /\ epoll_refcnt > 0 => held

\* tx_epoll_pollin and tx_epoll_pollout assert that the filp is attached.
NoAssertFails == ~aborted

\* When the poller takes a task from a filp it activates it.
TakenIsActivated ==
    [][\A f \in Filp, d \in POLL :
          pc = "poll" => Waiter(f, d) \in {NoTask, Waiter(f, d)'} \cup active']_vars

\* A task waiting for a direction of a descriptor that is ready for it or hung up does
\* not wait for ever, a connecting one included, unless it cancels, the data or space is
\* taken, the filp is finished, or an EPOLL_CTL_MOD for it failed; and when the poller
\* takes it from the filp it activates it.
WaiterWoken ==
    /\ \A f \in Filp, d \in POLL :
          LET waits == /\ Attached(f) /\ f \notin failed
                       /\ Waiter(f, d) # NoTask
                       /\ ready[f] \cap (EventsOf({d}) \cup {"HUP"}) # {}
          IN  waits ~> ~waits
    /\ TakenIsActivated
===============================================================================
