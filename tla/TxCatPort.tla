------------------------------ MODULE TxCatPort -------------------------------
(***************************************************************************)
(* netcat for Windows (netcat-win32.cpp): worker threads around one        *)
(* completion port copy the network to stdout and stdin to the network.    *)
(* Each direction has one IO_DATA with one buffer, which passes between    *)
(* the kernel, the packets in the port and the thread that took a packet.  *)
(* The build without ENABLE_ZERO_COPY and DISABLE_NONBLOCK.                *)
(***************************************************************************)
EXTENDS Integers, Sequences, FiniteSets

CONSTANTS Thread,    \* THREAD_COUNT worker threads, main among them
          MaxIn,     \* bound: items the peer and stdin supply
          PostFails  \* TRUE: WSARecv and WSASend may fail at once

ASSUME CatAssumption == IsFiniteSet(Thread) /\ Thread # {} /\ MaxIn \in Nat
                           /\ PostFails \in BOOLEAN

VARIABLES
    port,     \* the packets in the completion port, oldest first
    posted,   \* kernel: operations in flight on each IO_DATA
    aiobuf,   \* the item in the buffer of each IO_DATA, 0: none
    at,       \* what a thread does next
    exited,   \* ExitProcess was called
    stuck,    \* history: the IO_DATA whose operation could not be posted
    net,      \* kernel: items the peer sent, read or not
    closed,   \* kernel: the peer closed or reset the connection
    netRead,  \* kernel: items taken from the connection
    stdin,    \* items taken from stdin
    stdout,   \* items written to stdout
    netOut    \* items sent to the peer

vars == <<port, posted, aiobuf, at, exited, stuck, net, closed, netRead, stdin, stdout, netOut>>
ends == <<net, closed, netRead, stdin, stdout, netOut>>

\* Mutant: a receive for every thread.
PostedPerThread == [recv |-> Cardinality(Thread), send |-> 1]

\* main posts a receive and an empty send before the threads start; if one of them
\* fails the program ends at once.
PostedByMain == [recv |-> 1, send |-> 1]

Init ==
    /\ port = <<>>
    /\ posted = PostedByMain
    /\ aiobuf = [io \in {"recv", "send"} |-> 0]
    /\ at = [t \in Thread |-> "wait"]
    /\ exited = FALSE
    /\ stuck = {}
    /\ net = 0 /\ closed = FALSE /\ netRead = 0 /\ stdin = 0
    /\ stdout = <<>> /\ netOut = <<>>

Packet(io, len, ok) == [io |-> io, len |-> len, ok |-> ok]

quit == Packet("quit", 0, TRUE)

\* do_post_quit: one packet per thread, behind those in q.
do_post_quit(q) == q \o [i \in 1..Cardinality(Thread) |-> quit]

Goto(t, l) == at' = [at EXCEPT ![t] = l]
-----------------------------------------------------------------------------
(* The peer and the kernel (external).                                     *)

PeerSends ==
    /\ ~exited /\ ~closed /\ net < MaxIn
    /\ net' = net + 1
    /\ UNCHANGED <<port, posted, aiobuf, at, exited, stuck, closed, netRead, stdin, stdout, netOut>>

PeerCloses ==
    /\ ~exited /\ ~closed
    /\ closed' = TRUE
    /\ UNCHANGED <<port, posted, aiobuf, at, exited, stuck, net, netRead, stdin, stdout, netOut>>

\* A posted operation ends: its packet goes to the port.
Ends(io, len, ok) ==
    /\ ~exited /\ posted[io] > 0
    /\ posted' = [posted EXCEPT ![io] = @ - 1]
    /\ port' = Append(port, Packet(io, len, ok))
    /\ UNCHANGED <<at, exited, stuck, net, closed, stdin, stdout>>

RecvEnds ==
    /\ UNCHANGED netOut
    /\ \/ /\ netRead < net
          /\ Ends("recv", 1, TRUE)
          /\ netRead' = netRead + 1
          /\ aiobuf' = [aiobuf EXCEPT !["recv"] = netRead']
       \/ /\ closed /\ netRead = net
          /\ Ends("recv", 0, TRUE)
          /\ UNCHANGED <<netRead, aiobuf>>
       \/ closed /\ Ends("recv", 0, FALSE) /\ UNCHANGED <<netRead, aiobuf>>

SendEnds ==
    /\ UNCHANGED <<aiobuf, netRead>>
    /\ \/ /\ Ends("send", 1, TRUE)
          /\ netOut' = IF aiobuf["send"] = 0 THEN netOut ELSE Append(netOut, aiobuf["send"])
       \/ closed /\ Ends("send", 0, FALSE) /\ UNCHANGED netOut
-----------------------------------------------------------------------------
(* The threads.                                                            *)

\* do_post_recv and do_post_send: callback ignores that they failed.
Post(io) == \/ posted' = [posted EXCEPT ![io] = @ + 1] /\ UNCHANGED stuck
            \/ PostFails /\ stuck' = stuck \cup {io} /\ UNCHANGED posted

\* Mutant: the end of the connection is ignored.
CopyEndsQuietly(q) == q

\* The end of the copying to stdout: the packets in the port from now on.
CopyEnds(q) == do_post_quit(q)

\* while (nRet > 0) fails for a packet.
AtEof(p) == p.io = "recv" /\ p.len = 0

\* WorkerThread takes a packet.  Quit or a failed operation end the process, whatever
\* the other threads do; the end of a receive starts the copying to stdout, or ends it;
\* the end of a send starts the next ReadFile.
Take(t) ==
    LET p == Head(port) IN
    /\ ~exited /\ at[t] = "wait"
    /\ port # <<>>
    /\ exited' = (p = quit \/ ~p.ok)
    /\ Goto(t, CASE exited' \/ AtEof(p) -> "wait"
                 [] OTHER -> IF p.io = "recv" THEN "write" ELSE "stdin")
    /\ port' = CASE ~p.ok -> do_post_quit(Tail(port))
                 [] p.ok /\ AtEof(p) -> CopyEnds(Tail(port))
                 [] OTHER -> Tail(port)
    /\ UNCHANGED <<posted, stuck, aiobuf, ends>>

\* WriteFile to stdout; a failure or a short write ends the copying.
WriteOut(t) ==
    /\ ~exited /\ at[t] = "write"
    /\ \/ /\ Goto(t, "recv")
          /\ stdout' = Append(stdout, aiobuf["recv"])
          /\ UNCHANGED port
       \/ /\ Goto(t, "wait")
          /\ port' = CopyEnds(port)
          /\ UNCHANGED stdout
    /\ UNCHANGED <<posted, stuck, aiobuf, exited, net, closed, netRead, stdin, netOut>>

\* recv into the same buffer: more data, WSAEWOULDBLOCK, which posts a receive, or the
\* end.
RecvMore(t) ==
    /\ ~exited /\ at[t] = "recv"
    /\ \/ /\ netRead < net
          /\ netRead' = netRead + 1
          /\ aiobuf' = [aiobuf EXCEPT !["recv"] = netRead']
          /\ Goto(t, "write")
          /\ UNCHANGED <<port, posted, stuck>>
       \/ /\ netRead = net /\ ~closed
          /\ Post("recv")
          /\ Goto(t, "wait")
          /\ UNCHANGED <<port, aiobuf, netRead>>
       \/ /\ closed
          /\ port' = CopyEnds(port)
          /\ Goto(t, "wait")
          /\ UNCHANGED <<posted, stuck, aiobuf, netRead>>
    /\ UNCHANGED <<exited, net, closed, stdin, stdout, netOut>>

\* ReadFile of stdin, which may take forever: data is sent, the end or a failure
\* ends the program.
ReadStdin(t) ==
    /\ ~exited /\ at[t] = "stdin"
    /\ Goto(t, "wait")
    /\ \/ /\ stdin < MaxIn
          /\ stdin' = stdin + 1
          /\ aiobuf' = [aiobuf EXCEPT !["send"] = stdin']
          /\ Post("send")
          /\ UNCHANGED port
       \/ /\ port' = do_post_quit(port)
          /\ UNCHANGED <<posted, stuck, aiobuf, stdin>>
    /\ UNCHANGED <<exited, net, closed, netRead, stdout, netOut>>

Next ==
    \/ PeerSends \/ PeerCloses \/ RecvEnds \/ SendEnds
    \/ \E t \in Thread : Take(t) \/ WriteOut(t) \/ RecvMore(t) \/ ReadStdin(t)

\* Threads that are not in ReadFile go on (stdout is read by somebody), and a receive
\* ends when the connection has ended.
Spec ==
    /\ Init /\ [][Next]_vars
    /\ WF_vars(RecvEnds)
    /\ \A t \in Thread : WF_vars(Take(t)) /\ WF_vars(WriteOut(t)) /\ WF_vars(RecvMore(t))
-----------------------------------------------------------------------------
(* Properties.                                                             *)

Count(n) == [i \in 1..n |-> i]

\* Both directions copy in order, with no item lost or doubled, whichever threads take
\* the packets: no buffer is refilled before its item is passed on, and a process that
\* is not ending has written all it read when nothing is left to do.
CopiedInOrder ==
    /\ stdout = Count(Len(stdout))
    /\ netOut = Count(Len(netOut))
    /\ ~exited /\ (\A t \in Thread : at[t] = "wait") /\ port = <<>> => Len(stdout) = netRead

\* When the peer ends the connection the process exits, although a thread may wait in
\* ReadFile for ever; unless a receive could not be posted, which nobody notices.
PeerEndExits == closed ~> (exited \/ "recv" \in stuck)
===============================================================================
