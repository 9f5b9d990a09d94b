------------------------------- MODULE TxAiocb -------------------------------
(***************************************************************************)
(* Asynchronous descriptors (tx_aiocb.cpp): what every poller shares.      *)
(*                                                                         *)
(* A tx_aiocb caches whether its descriptor is readable and writable, and  *)
(* keeps the one task that waits for each direction.  The definitions here *)
(* are the parts of actions that concern the filp and the activated tasks; *)
(* TxEpoll, TxKqueue and TxPort conjoin what their poller does.            *)
(***************************************************************************)
EXTENDS Integers, FiniteSets

CONSTANTS Filp,    \* tx_aiocb objects, one per descriptor
          Task,    \* tasks that wait for descriptors
          NoTask   \* NULL

ASSUME AiocbAssumption == NoTask \notin Task

VARIABLES
    flags,      \* tx_aiocb.tx_flags as a set; {} before tx_aiocb_init
    filterin,   \* tx_aiocb.tx_filterin: the task waiting to read
    filterout,  \* tx_aiocb.tx_filterout: the task waiting to write
    active      \* tasks activated and not yet run

filpVars == <<flags, filterin, filterout>>
aiocbVars == <<flags, filterin, filterout, active>>

POLL == {"POLLIN", "POLLOUT"}
Flag == POLL \cup {"LISTEN", "READABLE", "WRITABLE", "ATTACHED", "DETACHED"}

Attached(f) == "ATTACHED" \in flags[f] /\ "DETACHED" \notin flags[f]

\* Initialised and not finished: the application may use it.
Open(f) == flags[f] # {} /\ "DETACHED" \notin flags[f]

\* The task that waits for direction d.
Waiter(f, d) == IF d = "POLLIN" THEN filterin[f] ELSE filterout[f]

AiocbInitially ==
    /\ flags = [f \in Filp |-> {}]
    /\ filterin = [f \in Filp |-> NoTask]
    /\ filterout = [f \in Filp |-> NoTask]
    /\ active = {}
-----------------------------------------------------------------------------
\* tx_aiocb_init, where the poller's attach leaves the flags fl.
Initialise(f, fl) ==
    /\ flags' = [flags EXCEPT ![f] = fl]
    /\ filterin' = [filterin EXCEPT ![f] = NoTask]
    /\ filterout' = [filterout EXCEPT ![f] = NoTask]
    /\ UNCHANGED active

\* generic_active_in of a readable filp: the task runs at once.
ReadNow(f, t) ==
    /\ "READABLE" \in flags[f]
    /\ active' = active \cup {t}
    /\ UNCHANGED filpVars

\* generic_active_in of another one: the task waits, the poller sets the flags.
\* One task waits per direction: the TX_CHECK of the code asks for it.
ReadLater(f, t) ==
    /\ "READABLE" \notin flags[f]
    /\ filterin[f] \in {NoTask, t}
    /\ filterin' = [filterin EXCEPT ![f] = t]
    /\ UNCHANGED <<filterout, active>>

\* generic_active_out.
WriteNow(f, t) ==
    /\ "WRITABLE" \in flags[f]
    /\ active' = active \cup {t}
    /\ UNCHANGED filpVars

WriteLater(f, t) ==
    /\ "WRITABLE" \notin flags[f]
    /\ filterout[f] \in {NoTask, t}
    /\ filterout' = [filterout EXCEPT ![f] = t]
    /\ UNCHANGED <<filterin, active>>

\* tx_aincb_stop, tx_outcb_cancel: the poller stays armed.
CancelIn(f, t) ==
    /\ filterin[f] = t
    /\ filterin' = [filterin EXCEPT ![f] = NoTask]
    /\ UNCHANGED <<flags, filterout, active>>

CancelOut(f, t) ==
    /\ filterout[f] = t
    /\ filterout' = [filterout EXCEPT ![f] = NoTask]
    /\ UNCHANGED <<flags, filterin, active>>

\* EAGAIN: the descriptor was not ready after all.
GotEagain(f, flag) ==
    /\ flag \in flags[f]
    /\ flags' = [flags EXCEPT ![f] = @ \ {flag}]
    /\ UNCHANGED <<filterin, filterout, active>>

\* After EAGAIN; without it both change nothing.  tx_listen_accept ends in the
\* first, tx_outcb_write and tx_outcb_xsend end in the second.
tx_aincb_update(f) == GotEagain(f, "READABLE")
tx_outcb_update(f) == GotEagain(f, "WRITABLE")

\* What EINPROGRESS leaves of the optimistic flags of tx_aiocb_init.
Connecting(fl) == fl \ {"WRITABLE", "READABLE"}

\* tx_aiocb_connect of a socket nobody waits for, with EINPROGRESS: generic_active_out
\* finds the filp not writable, as Connecting has just cleared it.  t waits to write,
\* the poller sets the flags from Connecting(flags[f]).
ConnectLater(f, t) ==
    /\ "WRITABLE" \notin Connecting(flags[f])
    /\ filterin[f] = NoTask /\ filterout[f] = NoTask
    /\ filterout' = [filterout EXCEPT ![f] = t]
    /\ UNCHANGED <<filterin, active>>

\* ... and with success or another error.
ConnectNow(f, t) ==
    /\ filterin[f] = NoTask /\ filterout[f] = NoTask
    /\ \E readable \in SUBSET {"READABLE"} :
          flags' = [flags EXCEPT ![f] = @ \cup {"WRITABLE"} \cup readable]
    /\ active' = active \cup {t}
    /\ UNCHANGED <<filterin, filterout>>

\* tx_task_active of each task in S; NULL is ignored.
Activated(S) == active \cup (S \ {NoTask})

\* The loop runs an activated task.
RunTask(t) ==
    /\ t \in active
    /\ active' = active \ {t}
    /\ UNCHANGED filpVars
-----------------------------------------------------------------------------
\* A readable filp has no waiting reader, a writable one no waiting writer: the
\* TX_CHECKs of generic_active_in and generic_active_out.
ReadyHasNoWaiter ==
    \A f \in Filp : Open(f) =>
        /\ "READABLE" \in flags[f] => filterin[f] = NoTask
        /\ "WRITABLE" \in flags[f] => filterout[f] = NoTask
===============================================================================
