------------------------------- MODULE TxRelay --------------------------------
(***************************************************************************)
(* netcat (netcat.cpp) without blocking I/O: one task copies both ways     *)
(* between the network and the pipe to the stdio threads, over the         *)
(* completion port of TxPort.  Whether the task is run again rests on what *)
(* it asked the port for when it last returned.                            *)
(***************************************************************************)
EXTENDS TxPort, Sequences

CONSTANTS file, file2,  \* the filps of the network and of filds[0]
          task,         \* netcat.task
          Shut,         \* filps whose sending side is shut down: pipe() shuts filds[0]
          BufSize,      \* items of tx_pipling_t.buf
          MaxIn         \* bound: items each peer sends

ASSUME RelayAssumption ==
    /\ file # file2 /\ Filp = {file, file2} /\ task \in Task
    /\ Shut \subseteq Filp
    /\ BufSize \in Nat \ {0} /\ MaxIn \in Nat

VARIABLES
    at,      \* where the program is: its set-up, the "loop", or a direction
    d1,      \* what s2n.pipling returned to update_netcat
    buf,     \* tx_pipling_t.buf, up to len
    off,     \* tx_pipling_t.off
    eof,     \* tx_pipling_t.eof
    sent,    \* kernel: items each peer has sent
    closed,  \* kernel: filps whose peer has closed or reset the connection
    rd,      \* kernel: items read from a filp
    out      \* what each direction has handed over for sending

relayVars == <<d1, buf, off, eof>>
netVars == <<sent, closed, rd, out>>
allVars == <<vars, at, relayVars, netVars>>

Dir == {"s2n", "n2s"}
From(d) == IF d = "s2n" THEN file2 ELSE file
To(d) == IF d = "s2n" THEN file ELSE file2
Stopping == {"stopped", "stopped2", "done"}

RelayInit ==
    /\ Init
    /\ at = "init"
    /\ d1 = 1
    /\ buf = [d \in Dir |-> <<>>] /\ off = [d \in Dir |-> 0] /\ eof = [d \in Dir |-> FALSE]
    /\ sent = [f \in Filp |-> 0] /\ closed = {}
    /\ rd = [f \in Filp |-> 0] /\ out = [d \in Dir |-> <<>>]
-----------------------------------------------------------------------------
(* The peers and the port.                                                 *)

Send(f) ==
    /\ f \notin closed /\ sent[f] < MaxIn
    /\ sent' = [sent EXCEPT ![f] = @ + 1]
    /\ UNCHANGED <<vars, at, relayVars, closed, rd, out>>

Close(f) ==
    /\ f \notin closed
    /\ closed' = closed \cup {f}
    /\ UNCHANGED <<vars, at, relayVars, sent, rd, out>>

Readable(f) == rd[f] < sent[f] \/ f \in closed

\* A receive ends when there is something to read; a send may end at any time, or never.
PortCompletes(o, op) ==
    /\ op = "recv" /\ filp[o] # NoFilp => Readable(filp[o])
    /\ Complete(o, op)
    /\ UNCHANGED <<at, relayVars, netVars>>

Polling ==
    /\ at = "loop"
    /\ PollBegin \/ PollEnd \/ \E o \in Olap, op \in Op : handle_overlapped(o, op)
    /\ UNCHANGED <<at, relayVars, netVars>>
-----------------------------------------------------------------------------
(* tx_pipling_t::pipling, one turn of its while loop at a time.            *)

Goto(l) == at' = l /\ UNCHANGED <<relayVars, netVars>>

\* The task is called: update_netcat copies s2n, then n2s.
Call == at = "loop" /\ Run(task) /\ Goto("s2n")

\* pipling returns r; update_netcat stops the loop if either result is 0.
Returns(d, r) ==
    /\ at' = IF d = "s2n" THEN "n2s" ELSE IF d1 = 0 \/ r = 0 THEN "stopped" ELSE "loop"
    /\ d1' = IF d = "s2n" THEN r ELSE 1

Empty(d) == off[d] = Len(buf[d])

\* while (!eof || off < len)
Finish(d) ==
    /\ at = d
    /\ eof[d] /\ Empty(d)
    /\ Returns(d, 0)
    /\ UNCHANGED <<vars, buf, off, eof, netVars>>

\* Mutant: the task returns without waiting for its input.
WaitInForgotten(d) ==
    /\ at = d /\ ~eof[d] /\ Empty(d)
    /\ "READABLE" \notin flags[From(d)]
    /\ Returns(d, 1)
    /\ UNCHANGED <<vars, buf, off, eof, netVars>>

WaitIn(d) ==
    /\ at = d /\ ~eof[d] /\ Empty(d)
    /\ "READABLE" \notin flags[From(d)]
    /\ ActiveIn(From(d), task)
    /\ Returns(d, 1)
    /\ UNCHANGED <<buf, off, eof, netVars>>

Reads(d) == at = d /\ ~eof[d] /\ Empty(d) /\ "READABLE" \in flags[From(d)]

\* Mutant: off is not reset with len.
OffKept(d) == off[d]

\* len = err, off = 0
OffAfterRecv(d) == 0

\* recv returns data, ...
RecvData(d) ==
    LET f == From(d) IN
    /\ Reads(d)
    /\ \E n \in 1..BufSize :
          /\ rd[f] + n <= sent[f]
          /\ buf' = [buf EXCEPT ![d] = [i \in 1..n |-> rd[f] + i]]
          /\ rd' = [rd EXCEPT ![f] = @ + n]
    /\ off' = [off EXCEPT ![d] = OffAfterRecv(d)]
    /\ UNCHANGED <<vars, at, d1, eof, sent, closed, out>>

\* Mutant: every result of recv but data is taken for the end of the file.
IsEofOrError(f) == rd[f] = sent[f]

\* ... 0: eof |= (err == 0), ...
IsEof(f) == rd[f] = sent[f] /\ f \in closed

RecvEof(d) ==
    /\ Reads(d)
    /\ IsEof(From(d))
    /\ eof' = [eof EXCEPT ![d] = TRUE]
    /\ buf' = [buf EXCEPT ![d] = <<>>]
    /\ off' = [off EXCEPT ![d] = 0]
    /\ UNCHANGED <<vars, at, d1, netVars>>

\* ... -1 with WSAEWOULDBLOCK (len becomes 0: the next turn waits), ...
RecvAgain(d) ==
    /\ Reads(d)
    /\ ~Readable(From(d))
    /\ RecvUpdate(From(d))
    /\ buf' = [buf EXCEPT ![d] = <<>>]
    /\ off' = [off EXCEPT ![d] = 0]
    /\ UNCHANGED <<at, d1, eof, netVars>>

\* ... or -1 with the filp still readable: BREAK, and pipling returns 0.
RecvFails(d) ==
    /\ Reads(d)
    /\ From(d) \in closed
    /\ Returns(d, 0)
    /\ UNCHANGED <<vars, buf, off, eof, netVars>>

WaitOut(d) ==
    /\ at = d /\ ~Empty(d)
    /\ "WRITABLE" \notin flags[To(d)]
    /\ ActiveOut(To(d), task)
    /\ Returns(d, 1)
    /\ UNCHANGED <<buf, off, eof, netVars>>

Writes(d) == at = d /\ ~Empty(d) /\ "WRITABLE" \in flags[To(d)]

\* tx_outcb_write takes n items: send does, or a pending WSASend (Sendout).
Write(d) ==
    /\ Writes(d)
    /\ To(d) \notin Shut
    /\ \E n \in 1..(Len(buf[d]) - off[d]) :
          /\ out' = [out EXCEPT ![d] = @ \o SubSeq(buf[d], off[d] + 1, off[d] + n)]
          /\ off' = [off EXCEPT ![d] = @ + n]
    /\ UNCHANGED vars \/ (Sendout(To(d)) /\ "POLLOUT" \in flags'[To(d)])
    /\ UNCHANGED <<at, d1, buf, eof, sent, closed, rd>>

\* ... or WSASend fails, as it always does on a socket that is shut down: BREAK.
WriteFails(d) ==
    /\ Writes(d)
    /\ To(d) \in Shut \cup closed
    /\ Sendout(To(d)) /\ "WRITABLE" \in flags'[To(d)]
    /\ Returns(d, 0)
    /\ UNCHANGED <<buf, off, eof, netVars>>

Pipling(d) ==
    \/ Finish(d) \/ WaitIn(d) \/ RecvData(d) \/ RecvEof(d) \/ RecvAgain(d)
    \/ RecvFails(d) \/ WaitOut(d) \/ Write(d) \/ WriteFails(d)
-----------------------------------------------------------------------------
(* main.                                                                   *)

Main ==
    \/ /\ at = "init" /\ AiocbInit(file) /\ "LISTEN" \notin flags'[file] /\ Goto("init2")
    \/ /\ at = "init2" /\ AiocbInit(file2) /\ "LISTEN" \notin flags'[file2] /\ Goto("wait2")
    \/ at = "wait2" /\ ActiveIn(file2, task) /\ Goto("wait")
    \/ at = "wait" /\ ActiveIn(file, task) /\ Goto("loop")
    \* tx_aincb_stop of both filps comes first; a finished filp needs no more.
    \/ at = "stopped" /\ Fini(file2) /\ Goto("stopped2")
    \/ at = "stopped2" /\ Fini(file) /\ Goto("done")

RelayNext ==
    \/ \E f \in Filp : Send(f) \/ Close(f)
    \/ \E o \in Olap, op \in Op : PortCompletes(o, op)
    \/ Polling
    \/ Call \/ Main
    \/ \E d \in Dir : Pipling(d)

RelaySpec == RelayInit /\ [][RelayNext]_allVars

\* The program runs, the loop calls its poller and its tasks in turn, and the kernel ends
\* a receive that can end and the operations of a closed socket.  Peers need not do
\* anything: a send of an open socket need not end.
RelayFairness ==
    /\ WF_allVars(Main) /\ WF_allVars(\E d \in Dir : Pipling(d))
    /\ SF_allVars(Polling) /\ SF_allVars(Call)
    /\ \A o \in Olap, op \in Op :
          WF_allVars((op = "recv" \/ filp[o] = NoFilp) /\ PortCompletes(o, op))

RelayFairSpec == RelaySpec /\ RelayFairness
-----------------------------------------------------------------------------
(* Properties.                                                             *)

\* Copying loses, doubles and reorders nothing: what a direction has read is what it
\* has handed over, followed by what its buffer still holds.
RelayExact ==
    \A d \in Dir :
        out[d] \o SubSeq(buf[d], off[d] + 1, Len(buf[d])) = [i \in 1..rd[From(d)] |-> i]

\* A direction ends in end of file only after it handed over all its peer ever sent.
EofDelivered ==
    \A d \in Dir : eof[d] => From(d) \in closed /\ Len(out[d]) = sent[From(d)]

\* The network takes what it is sent: no send of its socket is pending for ever.
NetworkTakes ==
    []<>(\A o \in Olap : filp[o] = file => "send" \notin inflight[o] \ completed[o])

\* As long as the network takes what it is sent, what comes from the pipe goes there
\* sooner or later, unless the relay stops: no wakeup is lost between the two
\* directions, their one task and the port.
Relayed ==
    NetworkTakes =>
        \A n \in 1..MaxIn : (sent[file2] >= n) ~> (Len(out["s2n"]) >= n \/ at \in Stopping)
===============================================================================
