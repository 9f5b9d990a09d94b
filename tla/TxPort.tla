-------------------------------- MODULE TxPort --------------------------------
(***************************************************************************)
(* The completion port poller (tx_completion_port.cpp) under the           *)
(* asynchronous descriptors of TxAiocb.                                    *)
(*                                                                         *)
(* Windows reports the end of an operation, not readiness: the poller      *)
(* posts a send or a receive for a filp, and the filp is ready when it     *)
(* completes.  The operations are posted from a tx_overlapped_t, which     *)
(* outlives its filp while the kernel still uses it, and is counted.       *)
(***************************************************************************)
EXTENDS TxAiocb

CONSTANTS Olap,        \* memory for tx_overlapped_t objects (bound: the heap)
          NoOlap,      \* NULL
          NoFilp,      \* NULL
          AcceptFails  \* TRUE: AcceptEx may fail

ASSUME PortAssumption ==
    NoOlap \notin Olap /\ NoFilp \notin Filp /\ AcceptFails \in BOOLEAN

VARIABLES
    privp,      \* tx_aiocb.tx_privp
    refcnt,     \* tx_overlapped_t.tx_refcnt; 0: not allocated
    filp,       \* tx_overlapped_t.tx_filp
    newfd,      \* tx_overlapped_t.tx_newfd # -1
    inflight,   \* kernel: the operations ("send", "recv") posted from the object
    completed,  \* kernel: those of inflight that wait in the port
    pc,         \* "user", or "poll": in the for loop of tx_completion_port_polling
    refused     \* history: filps whose last AcceptEx failed

olapVars == <<refcnt, filp, newfd, inflight, refused>>
portVars == <<privp, olapVars, completed, pc>>
vars == <<aiocbVars, portVars>>

Op == {"send", "recv"}

\* tx_completion_port_init: an empty port_list.
Init ==
    /\ AiocbInitially
    /\ privp = [f \in Filp |-> NoOlap]
    /\ refcnt = [o \in Olap |-> 0]
    /\ filp = [o \in Olap |-> NoFilp]
    /\ newfd = [o \in Olap |-> FALSE]
    /\ inflight = [o \in Olap |-> {}]
    /\ completed = [o \in Olap |-> {}]
    /\ pc = "user"
    /\ refused = {}
-----------------------------------------------------------------------------
(* Operations of the application.                                          *)

InUser == pc = "user"

\* tx_aiocb_init or tx_listen_init, with tx_completion_port_attach: the port takes
\* every socket, and the new object is counted once for the filp.
AiocbInit(f) ==
    /\ InUser /\ ~Attached(f)
    /\ \E listen \in SUBSET {"LISTEN"} : Initialise(f, {"WRITABLE", "ATTACHED"} \cup listen)
    /\ \E o \in Olap :
          /\ refcnt[o] = 0
          /\ privp' = [privp EXCEPT ![f] = o]
          /\ refcnt' = [refcnt EXCEPT ![o] = 1]
          /\ filp' = [filp EXCEPT ![o] = f]
          /\ newfd' = [newfd EXCEPT ![o] = FALSE]
    /\ refused' = refused \ {f}
    /\ UNCHANGED <<inflight, completed, pc>>

\* An operation is posted, whether it is pending or done at once: the kernel has it
\* until its packet is taken from the port.
Post(f, op) ==
    /\ refcnt' = [refcnt EXCEPT ![privp[f]] = @ + 1]
    /\ inflight' = [inflight EXCEPT ![privp[f]] = @ \cup {op}]
    /\ UNCHANGED <<privp, filp, completed, pc>>

\* The flags while a send or a connect is in flight.
Sending(fl) == (fl \ {"WRITABLE"}) \cup {"POLLOUT"}

\* tx_outcb_write of a stream whose buffer is full (send did not succeed, or nothing
\* changes): WSASend takes a copy, or fails and the writer finds out by trying again.
\* With TX_POLLOUT set tx_completion_port_sendout only returns -1.
Sendout(f) ==
    /\ InUser /\ Attached(f)
    /\ "LISTEN" \notin flags[f] /\ "POLLOUT" \notin flags[f]
    /\ \/ /\ flags' = [flags EXCEPT ![f] = Sending(@)]
          /\ Post(f, "send")
          /\ UNCHANGED <<filterin, filterout, active, newfd, refused>>
       \/ /\ flags' = [flags EXCEPT ![f] = (@ \ {"POLLOUT"}) \cup {"WRITABLE"}]
          /\ active' = Activated({filterout[f]})
          /\ filterout' = [filterout EXCEPT ![f] = NoTask]
          /\ UNCHANGED <<filterin, portVars>>

\* tx_outcb_prepare: tx_completion_port_pollout posts nothing, "window platform do
\* not support zero write"; the end of an earlier send has to wake the task.
ActiveOut(f, t) ==
    /\ InUser /\ Open(f)
    /\ \/ WriteNow(f, t)
       \/ WriteLater(f, t) /\ UNCHANGED flags
    /\ UNCHANGED portVars

\* tx_aiocb_connect: ConnectEx is posted, and t waits for its end; or it fails, or
\* TX_POLLOUT is set and tx_completion_port_connect returns -1: t is then treated as by
\* tx_outcb_prepare.
Connect(f, t) ==
    /\ "LISTEN" \notin flags[f]
    /\ \/ ActiveOut(f, t)
       \/ /\ InUser /\ Open(f)
          /\ "POLLOUT" \notin flags[f]
          /\ filterout[f] \in {NoTask, t}
          /\ flags' = [flags EXCEPT ![f] = Sending(@)]
          /\ filterout' = [filterout EXCEPT ![f] = t]
          /\ Post(f, "send")
          /\ UNCHANGED <<filterin, active, newfd, refused>>

\* tx_completion_port_pollin of a listening socket: AcceptEx
\* gets a new socket for the connection.  If it fails only that socket is closed, for
\* TX_PANIC(1, ...) does not panic.
PollAccept(f) ==
    \/ /\ flags' = [flags EXCEPT ![f] = @ \cup {"POLLIN"}]
       /\ newfd' = [newfd EXCEPT ![privp[f]] = TRUE]
       /\ Post(f, "recv")
       /\ refused' = refused \ {f}
       /\ UNCHANGED active
    \/ /\ AcceptFails
       /\ refused' = refused \cup {f}
       /\ UNCHANGED <<flags, active, privp, refcnt, filp, newfd, inflight, completed, pc>>

\* ... and of a stream: WSARecv of no bytes, whose end says that there are some.  If
\* it fails the reader runs and finds out by reading.
PollRecv(f) ==
    /\ flags' = [flags EXCEPT ![f] = @ \cup {"POLLIN"}]
    /\ Post(f, "recv")
    /\ UNCHANGED <<active, newfd, refused>>

PollRecvFails(f, t) ==
    /\ flags' = [flags EXCEPT ![f] = @ \cup {"READABLE"}]
    /\ filterin' = [filterin EXCEPT ![f] = NoTask]
    /\ active' = Activated({t})
    /\ UNCHANGED <<filterout, portVars>>

\* tx_aincb_active and tx_listen_active.
ActiveIn(f, t) ==
    /\ InUser /\ Open(f)
    /\ \/ ReadNow(f, t) /\ UNCHANGED portVars
       \/ /\ "READABLE" \notin flags[f]
          /\ filterin[f] \in {NoTask, t}
          /\ IF "POLLIN" \in flags[f]
             THEN ReadLater(f, t) /\ UNCHANGED <<flags, portVars>>
             ELSE \/ /\ filterin' = [filterin EXCEPT ![f] = t]
                     /\ UNCHANGED filterout
                     /\ IF "LISTEN" \in flags[f] THEN PollAccept(f) ELSE PollRecv(f)
                  \/ "LISTEN" \notin flags[f] /\ PollRecvFails(f, t)

\* tx_aincb_stop and tx_outcb_cancel.
Cancel(f, t) ==
    /\ InUser
    /\ CancelIn(f, t) \/ CancelOut(f, t)
    /\ UNCHANGED portVars

\* recv of a stream returned WSAEWOULDBLOCK.
RecvUpdate(f) ==
    /\ InUser /\ Attached(f)
    /\ "LISTEN" \notin flags[f]
    /\ tx_aincb_update(f)
    /\ UNCHANGED portVars

\* Mutant: the accepted socket stays in the object.
TakenStays(b) == b

\* tx_newfd after the socket was handed out: -1.
Taken(b) == FALSE

\* tx_listen_accept of a readable listening socket: it hands out the socket AcceptEx
\* connected.
Accept(f) ==
    /\ InUser /\ Attached(f)
    /\ {"LISTEN", "READABLE"} \subseteq flags[f]
    /\ flags' = [flags EXCEPT ![f] = @ \ {"READABLE"}]
    /\ newfd' = [newfd EXCEPT ![privp[f]] = Taken(@)]
    /\ UNCHANGED <<filterin, filterout, active, privp, refcnt, filp, inflight, completed, pc,
                   refused>>

\* Mutant: tx_aiocb_fini deletes the object whatever the kernel does with it.
DetachedDeletes(n) == 0

\* --olaped->tx_refcnt in tx_completion_port_detach; the object is deleted at 0.
Detached(n) == n - 1

\* tx_aiocb_fini + tx_completion_port_detach, and the closing of the socket, which ends
\* its operations.  A socket AcceptEx was given is not closed.
Fini(f) ==
    LET o == privp[f] IN
    /\ InUser /\ Attached(f)
    /\ flags' = [flags EXCEPT ![f] = @ \cup {"DETACHED"}]
    /\ privp' = [privp EXCEPT ![f] = NoOlap]
    /\ filp' = [filp EXCEPT ![o] = NoFilp]
    /\ refcnt' = [refcnt EXCEPT ![o] = Detached(@)]
    /\ UNCHANGED <<filterin, filterout, active, newfd, inflight, completed, pc, refused>>

Run(t) == InUser /\ RunTask(t) /\ UNCHANGED portVars
-----------------------------------------------------------------------------
(* The kernel (external), and tx_completion_port_polling.                  *)

\* An operation ends, well or not.
Complete(o, op) ==
    /\ op \in inflight[o] \ completed[o]
    /\ completed' = [completed EXCEPT ![o] = @ \cup {op}]
    /\ UNCHANGED <<aiocbVars, privp, olapVars, pc>>

PollBegin == pc = "user" /\ pc' = "poll" /\ UNCHANGED <<aiocbVars, privp, olapVars, completed>>

\* Mutant: the end of an operation of a finished filp is not counted.
HandledWhileOpen(o) == IF filp[o] = NoFilp THEN refcnt[o] ELSE refcnt[o] - 1

\* --olaped->tx_refcnt in handle_overlapped; the object is deleted at 0.
Handled(o) == refcnt[o] - 1

\* Mutant: the end of an operation makes the filp no readier.
EndedQuietly(fl, op) == fl \ (IF op = "send" THEN {"POLLOUT"} ELSE {"POLLIN"})

\* The flags after the end of an operation.
Ended(fl, op) == IF op = "send" THEN (fl \ {"POLLOUT"}) \cup {"WRITABLE"}
                                ELSE (fl \ {"POLLIN"}) \cup {"READABLE"}

\* What handle_overlapped does to the filp f of the object.
Wake(f, op) ==
    /\ flags' = [flags EXCEPT ![f] = Ended(@, op)]
    /\ active' = Activated({IF op = "send" THEN filterout[f] ELSE filterin[f]})
    /\ filterin' = [filterin EXCEPT ![f] = IF op = "recv" THEN NoTask ELSE @]
    /\ filterout' = [filterout EXCEPT ![f] = IF op = "send" THEN NoTask ELSE @]

\* GetQueuedCompletionStatus returns a packet, and handle_overlapped takes it.  The
\* filp is woken unless the object is deleted now or the filp is finished.
handle_overlapped(o, op) ==
    /\ pc = "poll"
    /\ op \in completed[o]
    /\ inflight' = [inflight EXCEPT ![o] = @ \ {op}]
    /\ completed' = [completed EXCEPT ![o] = @ \ {op}]
    /\ refcnt' = [refcnt EXCEPT ![o] = Handled(o)]
    /\ IF refcnt'[o] # 0 /\ filp[o] # NoFilp THEN Wake(filp[o], op) ELSE UNCHANGED aiocbVars
    /\ UNCHANGED <<privp, filp, newfd, pc, refused>>

\* WAIT_TIMEOUT: the port is empty.
PollEnd ==
    /\ pc = "poll"
    /\ \A o \in Olap : completed[o] = {}
    /\ pc' = "user"
    /\ UNCHANGED <<aiocbVars, privp, olapVars, completed>>

Next ==
    \/ \E f \in Filp : \/ AiocbInit(f) \/ Fini(f) \/ Sendout(f) \/ RecvUpdate(f) \/ Accept(f)
                       \/ \E t \in Task : ActiveIn(f, t) \/ ActiveOut(f, t) \/ Connect(f, t)
                                             \/ Cancel(f, t)
    \/ \E t \in Task : Run(t)
    \/ \E o \in Olap, op \in Op : Complete(o, op) \/ handle_overlapped(o, op)
    \/ PollBegin \/ PollEnd

Spec == Init /\ [][Next]_vars

\* The loop calls the poller again and again, and its for loop ends; the operations
\* of a closed socket end.
Fairness ==
    /\ WF_vars(PollBegin) /\ WF_vars(PollEnd)
    /\ WF_vars(\E o \in Olap, op \in Op : handle_overlapped(o, op))
    /\ \A o \in Olap, op \in Op : WF_vars(filp[o] = NoFilp /\ Complete(o, op))

FairSpec == Spec /\ Fairness
-----------------------------------------------------------------------------
(* Properties.                                                             *)

\* The reference count of an object is the number of its users: the attached filp
\* that points back at it, and the operations in flight, at most one per direction.
\* The kernel never holds one that was deleted, so no packet does.
OverlappedAccounted ==
    \A o \in Olap :
        /\ refcnt[o] = Cardinality(inflight[o]) + (IF filp[o] = NoFilp THEN 0 ELSE 1)
        /\ filp[o] # NoFilp => Attached(filp[o]) /\ privp[filp[o]] = o
        /\ completed[o] \subseteq inflight[o]

\* A task waits only for a direction with an operation in flight, which will wake it,
\* or for an AcceptEx that failed, after which TX_PANIC(1, ...) lets the program go on.
\* For a writer this is what makes the empty tx_completion_port_pollout sound.
NoLostWakeup ==
    \A f \in Filp : Attached(f) =>
        /\ filterin[f] # NoTask => "recv" \in inflight[privp[f]] \/ f \in refused
        /\ filterout[f] # NoTask => "send" \in inflight[privp[f]]

\* A listening socket has a socket for its next connection exactly while AcceptEx is
\* in flight or its connection is not handed out yet: "lpAcceptEx multicall failure"
\* never shows, and no connection is handed out twice or overwritten.
AcceptOnce ==
    \A f \in Filp : Attached(f) /\ "LISTEN" \in flags[f] =>
        (newfd[privp[f]] <=> flags[f] \cap {"POLLIN", "READABLE"} # {})

\* The object of a finished filp is deleted in the end.
OverlappedFreed ==
    \A o \in Olap : (refcnt[o] > 0 /\ filp[o] = NoFilp) ~> (refcnt[o] = 0)
===============================================================================
