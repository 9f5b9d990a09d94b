----------------------------- MODULE TxPortProofs -----------------------------
(***************************************************************************)
(* The completion port poller, for every set of descriptors, tasks and     *)
(* overlapped objects: reference counts are exact, every waiting task has  *)
(* an operation in flight, and a listening socket accepts one connection   *)
(* at a time.  And netcat's relay over it, for any size of its buffer and  *)
(* any traffic: it uses the port as TxPort allows, so all this holds of    *)
(* it, and its copying is exact.                                           *)
(***************************************************************************)
EXTENDS TxRelay, FiniteSetTheorems, SequenceTheorems, TLAPS

\* The types of the variables.
PortTypes ==
    /\ flags \in [Filp -> SUBSET Flag]
    /\ filterin \in [Filp -> Task \cup {NoTask}]
    /\ filterout \in [Filp -> Task \cup {NoTask}]
    /\ active \subseteq Task
    /\ privp \in [Filp -> Olap \cup {NoOlap}]
    /\ refcnt \in [Olap -> Int]
    /\ filp \in [Olap -> Filp \cup {NoFilp}]
    /\ newfd \in [Olap -> BOOLEAN]
    /\ inflight \in [Olap -> SUBSET Op]
    /\ completed \in [Olap -> SUBSET Op]
    /\ pc \in {"user", "poll"}
    /\ refused \subseteq Filp

\* The filp and its object point at each other, and TX_POLLIN and TX_POLLOUT are the
\* operations in flight.
Linked(f) ==
    /\ privp[f] \in Olap
    /\ filp[privp[f]] = f
    /\ "POLLIN" \in flags[f] <=> "recv" \in inflight[privp[f]]
    /\ "POLLOUT" \in flags[f] <=> "send" \in inflight[privp[f]]

\* A filp that is not writable is sending, and one that is readable is not receiving.
ReadyOrPosted(f) ==
    /\ "WRITABLE" \in flags[f] \/ "POLLOUT" \in flags[f]
    /\ ~("POLLIN" \in flags[f] /\ "READABLE" \in flags[f])

\* A waiting task has its flag, or its AcceptEx failed.
WaiterFlagged(f) ==
    /\ filterin[f] # NoTask => "POLLIN" \in flags[f] \/ f \in refused
    /\ filterout[f] # NoTask => "POLLOUT" \in flags[f]

\* AcceptOnce of one filp.
AcceptsOnce(f) ==
    "LISTEN" \in flags[f] => (newfd[privp[f]] <=> flags[f] \cap {"POLLIN", "READABLE"} # {})

FilpInv(f) ==
    /\ flags[f] # {} => "ATTACHED" \in flags[f]
    /\ Attached(f) => Linked(f) /\ ReadyOrPosted(f) /\ WaiterFlagged(f) /\ AcceptsOnce(f)

\* OverlappedAccounted of one object.
OlapInv(o) ==
    /\ refcnt[o] = Cardinality(inflight[o]) + (IF filp[o] = NoFilp THEN 0 ELSE 1)
    /\ filp[o] # NoFilp => Attached(filp[o]) /\ privp[filp[o]] = o
    /\ completed[o] \subseteq inflight[o]

IndInv ==
    /\ PortTypes
    /\ \A f \in Filp : FilpInv(f)
    /\ \A o \in Olap : OlapInv(o)
-----------------------------------------------------------------------------
(* Lemmas.                                                                 *)

\* The number of operations of an object, as it gains one or loses one.
LEMMA OpCount ==
    ASSUME NEW X \in SUBSET Op, NEW op \in Op
    PROVE  /\ Cardinality(X) \in Nat
           /\ (Cardinality(X) = 0 <=> X = {})
           /\ op \notin X => Cardinality(X \cup {op}) = Cardinality(X) + 1
           /\ op \in X => Cardinality(X \ {op}) = Cardinality(X) - 1
<1>1. IsFiniteSet(Op)
  <2>1. IsFiniteSet({"send"})
    BY FS_Singleton
  <2>2. IsFiniteSet({"send"} \cup {"recv"})
    BY <2>1, FS_AddElement
  <2>3. Op = {"send"} \cup {"recv"}
    BY DEF Op
  <2> QED BY <2>2, <2>3
<1>2. IsFiniteSet(X)
  BY <1>1, FS_Subset
<1> QED BY <1>2, FS_CardinalityType, FS_EmptySet, FS_AddElement, FS_RemoveElement

\* An object nobody counts has no operation, no packet and no filp.
LEMMA FreeOlap ==
    ASSUME PortTypes, NEW o \in Olap, OlapInv(o), refcnt[o] = 0
    PROVE  inflight[o] = {} /\ completed[o] = {} /\ filp[o] = NoFilp
<1>1. inflight[o] \in SUBSET Op /\ "send" \in Op
  BY DEF PortTypes, Op
<1>2. Cardinality(inflight[o]) \in Nat /\ (Cardinality(inflight[o]) = 0 <=> inflight[o] = {})
  BY <1>1, OpCount
<1> QED BY <1>2 DEF OlapInv

\* An open filp is attached: the port takes every descriptor.
LEMMA OpenAttached ==
    ASSUME NEW f \in Filp, FilpInv(f), Open(f)
    PROVE  Attached(f)
BY DEF FilpInv, Open, Attached

\* What FilpInv says of a filp g that a step does not concern, and of its object.
SameFilp(g) ==
    /\ flags'[g] = flags[g] /\ filterin'[g] = filterin[g] /\ filterout'[g] = filterout[g]
    /\ g \in refused' <=> g \in refused
    /\ Attached(g) => /\ privp'[g] = privp[g] /\ filp'[privp[g]] = filp[privp[g]]
                      /\ inflight'[privp[g]] = inflight[privp[g]]
                      /\ newfd'[privp[g]] = newfd[privp[g]]

LEMMA FilpFrame == ASSUME NEW g \in Filp, FilpInv(g), SameFilp(g) PROVE FilpInv(g)'
BY DEF FilpInv, SameFilp, Attached, Linked, ReadyOrPosted, WaiterFlagged, AcceptsOnce

\* ... and what OlapInv says of an object p.
SameOlap(p) ==
    /\ refcnt'[p] = refcnt[p] /\ filp'[p] = filp[p]
    /\ inflight'[p] = inflight[p] /\ completed'[p] = completed[p]
    /\ filp[p] # NoFilp => /\ privp'[filp[p]] = privp[filp[p]]
                           /\ Attached(filp[p]) => Attached(filp[p])'

LEMMA OlapFrame == ASSUME NEW p \in Olap, OlapInv(p), SameOlap(p) PROVE OlapInv(p)'
BY DEF OlapInv, SameOlap, Attached

\* Two attached filps have different objects.
LEMMA OwnOlap ==
    ASSUME NEW f \in Filp, NEW g \in Filp, f # g, FilpInv(f), FilpInv(g), Attached(f), Attached(g)
    PROVE  privp[f] # privp[g]
BY DEF FilpInv, Linked

\* A step that changes only the flags, without ATTACHED and DETACHED, and the waiters of f,
\* and whether its AcceptEx failed.
Local(f) ==
    /\ \A g \in Filp \ {f} : /\ flags'[g] = flags[g] /\ filterin'[g] = filterin[g]
                             /\ filterout'[g] = filterout[g]
                             /\ g \in refused' <=> g \in refused
    /\ Attached(f)' <=> Attached(f)
    /\ UNCHANGED <<privp, refcnt, filp, inflight, completed>>

LEMMA LocalStep ==
    ASSUME IndInv, NEW f \in Filp, Local(f), FilpInv(f)',
           \A o \in Olap : newfd'[o] = newfd[o] \/ (Attached(f) /\ o = privp[f])
    PROVE  (\A g \in Filp : FilpInv(g)') /\ (\A o \in Olap : OlapInv(o)')
<1>1. ASSUME NEW g \in Filp \ {f} PROVE FilpInv(g)'
  <2>1. FilpInv(g) /\ FilpInv(f)
    BY DEF IndInv
  <2>2. Attached(g) => privp[g] \in Olap /\ newfd'[privp[g]] = newfd[privp[g]]
    BY <1>1, <2>1, OwnOlap DEF FilpInv, Linked
  <2>3. SameFilp(g)
    BY <1>1, <2>2 DEF SameFilp, Local
  <2> QED BY <2>1, <2>3, FilpFrame
<1>2. ASSUME NEW o \in Olap PROVE OlapInv(o)'
  <2>1. OlapInv(o)
    BY DEF IndInv
  <2>2. ASSUME filp[o] # NoFilp PROVE Attached(filp[o]) => Attached(filp[o])'
    BY <2>2, <1>2 DEF IndInv, PortTypes, Local, Attached
  <2>3. SameOlap(o)
    BY <2>2 DEF SameOlap, Local
  <2> QED BY <2>1, <2>3, OlapFrame
<1> QED BY <1>1, <1>2

\* A step that posts an operation of f.
LEMMA PostStep ==
    ASSUME IndInv, NEW f \in Filp, NEW op \in Op, Attached(f), op \notin inflight[privp[f]],
           Post(f, op), FilpInv(f)', Attached(f)',
           \A g \in Filp \ {f} : /\ flags'[g] = flags[g] /\ filterin'[g] = filterin[g]
                                 /\ filterout'[g] = filterout[g]
                                 /\ g \in refused' <=> g \in refused,
           \A o \in Olap \ {privp[f]} : newfd'[o] = newfd[o]
    PROVE  (\A g \in Filp : FilpInv(g)') /\ (\A o \in Olap : OlapInv(o)')
<1> USE DEF IndInv, PortTypes
<1>1. PICK o \in Olap : o = privp[f] /\ filp[o] = f
  BY DEF FilpInv, Linked
<1>2. ASSUME NEW g \in Filp \ {f} PROVE FilpInv(g)'
  <2>1. Attached(g) => privp[g] \in Olap \ {o}
    BY <1>1, OwnOlap DEF FilpInv, Linked
  <2>2. SameFilp(g)
    BY <1>1, <2>1 DEF SameFilp, Post
  <2> QED BY <2>2, FilpFrame
<1>3. ASSUME NEW p \in Olap \ {o} PROVE OlapInv(p)'
  <2>1. filp[p] # f
    BY <1>1, <1>3, PortAssumption DEF OlapInv
  <2>2. SameOlap(p)
    BY <1>1, <1>3, <2>1 DEF SameOlap, Post, Attached
  <2> QED BY <1>3, <2>2, OlapFrame
<1>4. OlapInv(o)'
  <2>1. Cardinality(inflight[o] \cup {op}) = Cardinality(inflight[o]) + 1
        /\ Cardinality(inflight[o]) \in Nat
    BY <1>1, OpCount
  <2>2. /\ refcnt'[o] = refcnt[o] + 1 /\ inflight'[o] = inflight[o] \cup {op}
        /\ UNCHANGED <<privp, filp, completed>>
    BY <1>1 DEF Post
  <2>3. OlapInv(o) /\ f # NoFilp
    BY <1>1, PortAssumption
  <2> QED BY <1>1, <2>1, <2>2, <2>3 DEF OlapInv
<1> QED BY <1>2, <1>3, <1>4

\* The flags and operations of an attached filp, as the actions need them.
LEMMA FilpFacts ==
    ASSUME IndInv, NEW f \in Filp, Attached(f)
    PROVE  /\ privp[f] \in Olap /\ filp[privp[f]] = f
           /\ "POLLIN" \in flags[f] <=> "recv" \in inflight[privp[f]]
           /\ "POLLOUT" \in flags[f] <=> "send" \in inflight[privp[f]]
           /\ "WRITABLE" \in flags[f] \/ "POLLOUT" \in flags[f]
           /\ ~("POLLIN" \in flags[f] /\ "READABLE" \in flags[f])
           /\ WaiterFlagged(f) /\ AcceptsOnce(f)
BY DEF IndInv, FilpInv, Linked, ReadyOrPosted

\* What the actions show of f: FilpInv(f)' with its definitions expanded once.
LEMMA FilpAfter ==
    ASSUME NEW f \in Filp, Attached(f)', Linked(f)', ReadyOrPosted(f)', WaiterFlagged(f)',
           AcceptsOnce(f)'
    PROVE  FilpInv(f)'
BY DEF FilpInv, Attached

\* The two parts of IndInv besides the types.
Preserved == (\A g \in Filp : FilpInv(g)') /\ (\A o \in Olap : OlapInv(o)')

\* tx_outcb_write of a full stream.
LEMMA SendoutStep == ASSUME IndInv, NEW f \in Filp, Sendout(f) PROVE Preserved
<1> USE DEF IndInv, PortTypes
<1>a. Attached(f) /\ "LISTEN" \notin flags[f] /\ "POLLOUT" \notin flags[f]
  BY DEF Sendout
<1>b. /\ privp[f] \in Olap /\ filp[privp[f]] = f
      /\ "POLLIN" \in flags[f] <=> "recv" \in inflight[privp[f]]
      /\ "send" \notin inflight[privp[f]]
      /\ ~("POLLIN" \in flags[f] /\ "READABLE" \in flags[f])
      /\ WaiterFlagged(f)
  BY <1>a, FilpFacts
<1>1. CASE flags' = [flags EXCEPT ![f] = Sending(@)] /\ Post(f, "send")
             /\ UNCHANGED <<filterin, filterout, active, newfd, refused>>
  <2>1. flags'[f] = (flags[f] \ {"WRITABLE"}) \cup {"POLLOUT"}
    BY <1>1 DEF Sending
  <2>2. privp' = privp /\ filp' = filp /\ inflight'[privp[f]] = inflight[privp[f]] \cup {"send"}
    BY <1>b, <1>1 DEF Post
  <2>3. Attached(f)' /\ Linked(f)'
    BY <1>a, <1>b, <2>1, <2>2 DEF Attached, Linked
  <2>4. ReadyOrPosted(f)' /\ WaiterFlagged(f)' /\ AcceptsOnce(f)'
    BY <1>a, <1>b, <1>1, <2>1 DEF ReadyOrPosted, WaiterFlagged, AcceptsOnce
  <2>5. FilpInv(f)'
    BY <2>3, <2>4, FilpAfter
  <2>6. \A g \in Filp \ {f} : flags'[g] = flags[g]
    BY <1>1
  <2> QED BY <1>a, <1>b, <1>1, <2>3, <2>5, <2>6, PostStep DEF Preserved, Op
<1>2. CASE /\ flags' = [flags EXCEPT ![f] = (@ \ {"POLLOUT"}) \cup {"WRITABLE"}]
           /\ filterout' = [filterout EXCEPT ![f] = NoTask]
           /\ UNCHANGED <<filterin, portVars>>
  <2>1. UNCHANGED <<filterin, privp, refcnt, filp, newfd, inflight, completed, refused>>
    BY <1>2 DEF portVars, olapVars
  <2>2. flags'[f] = (flags[f] \ {"POLLOUT"}) \cup {"WRITABLE"} /\ filterout'[f] = NoTask
    BY <1>2
  <2>3. Attached(f)' /\ Linked(f)'
    BY <1>a, <1>b, <2>1, <2>2 DEF Attached, Linked
  <2>4. ReadyOrPosted(f)' /\ WaiterFlagged(f)' /\ AcceptsOnce(f)'
    BY <1>a, <1>b, <2>1, <2>2 DEF ReadyOrPosted, WaiterFlagged, AcceptsOnce
  <2>5. Local(f)
    BY <1>a, <1>2, <2>1, <2>3 DEF Local
  <2> QED BY <2>1, <2>3, <2>4, <2>5, FilpAfter, LocalStep DEF Preserved
<1> QED BY <1>1, <1>2 DEF Sendout

\* tx_outcb_prepare: a filp that is not writable is sending.
LEMMA ActiveOutStep ==
    ASSUME IndInv, NEW f \in Filp, NEW t \in Task, ActiveOut(f, t)
    PROVE  Preserved
<1> USE DEF IndInv, PortTypes
<1>a. Attached(f)
  BY OpenAttached DEF ActiveOut
<1>b. FilpInv(f) /\ UNCHANGED <<flags, filterin, privp, refcnt, filp, newfd, inflight, completed, refused>>
  BY DEF ActiveOut, WriteNow, WriteLater, filpVars, portVars, olapVars
<1>1. filterout'[f] = filterout[f] \/ "WRITABLE" \notin flags[f]
  BY DEF ActiveOut, WriteNow, WriteLater, filpVars
<1>2. \A g \in Filp \ {f} : filterout'[g] = filterout[g]
  BY DEF ActiveOut, WriteNow, WriteLater, filpVars
<1>3. Attached(f)' /\ Linked(f)' /\ ReadyOrPosted(f)' /\ AcceptsOnce(f)'
  BY <1>a, <1>b DEF FilpInv, Attached, Linked, ReadyOrPosted, AcceptsOnce
<1>4. WaiterFlagged(f)'
  BY <1>a, <1>b, <1>1 DEF FilpInv, ReadyOrPosted, WaiterFlagged
<1>5. Local(f)
  BY <1>a, <1>b, <1>2, <1>3 DEF Local
<1> QED BY <1>b, <1>3, <1>4, <1>5, FilpAfter, LocalStep DEF Preserved

\* tx_aiocb_connect.
LEMMA ConnectStep ==
    ASSUME IndInv, NEW f \in Filp, NEW t \in Task, Connect(f, t)
    PROVE  Preserved
<1> USE DEF IndInv, PortTypes
<1>1. CASE ActiveOut(f, t)
  BY <1>1, ActiveOutStep
<1>2. CASE ~ActiveOut(f, t)
  <2>1. /\ Open(f) /\ "LISTEN" \notin flags[f] /\ "POLLOUT" \notin flags[f]
        /\ flags' = [flags EXCEPT ![f] = Sending(@)]
        /\ filterout' = [filterout EXCEPT ![f] = t]
        /\ Post(f, "send") /\ UNCHANGED <<filterin, active, newfd, refused>>
    BY <1>2 DEF Connect
  <2>2. Attached(f)
    BY <2>1, OpenAttached
  <2>3. /\ privp[f] \in Olap /\ filp[privp[f]] = f
        /\ "POLLIN" \in flags[f] <=> "recv" \in inflight[privp[f]]
        /\ "send" \notin inflight[privp[f]]
        /\ ~("POLLIN" \in flags[f] /\ "READABLE" \in flags[f])
        /\ WaiterFlagged(f)
    BY <2>1, <2>2, FilpFacts
  <2>4. flags'[f] = (flags[f] \ {"WRITABLE"}) \cup {"POLLOUT"}
    BY <2>1 DEF Sending
  <2>5. privp' = privp /\ filp' = filp /\ inflight'[privp[f]] = inflight[privp[f]] \cup {"send"}
    BY <2>1, <2>3 DEF Post
  <2>6. Attached(f)' /\ Linked(f)'
    BY <2>2, <2>3, <2>4, <2>5 DEF Attached, Linked
  <2>7. ReadyOrPosted(f)' /\ WaiterFlagged(f)' /\ AcceptsOnce(f)'
    BY <2>1, <2>3, <2>4 DEF ReadyOrPosted, WaiterFlagged, AcceptsOnce
  <2>8. FilpInv(f)'
    BY <2>6, <2>7, FilpAfter
  <2>9. \A g \in Filp \ {f} : flags'[g] = flags[g] /\ filterout'[g] = filterout[g]
    BY <2>1
  <2> QED BY <2>1, <2>2, <2>3, <2>6, <2>8, <2>9, PostStep DEF Preserved, Op
<1> QED BY <1>1, <1>2

\* tx_aincb_active and tx_listen_active.
LEMMA ActiveInStep ==
    ASSUME IndInv, NEW f \in Filp, NEW t \in Task, ActiveIn(f, t)
    PROVE  Preserved
<1> USE DEF IndInv, PortTypes
<1>a. Attached(f) /\ FilpInv(f)
  BY OpenAttached DEF ActiveIn
<1>b. /\ privp[f] \in Olap /\ filp[privp[f]] = f
      /\ "POLLIN" \in flags[f] <=> "recv" \in inflight[privp[f]]
      /\ "POLLOUT" \in flags[f] <=> "send" \in inflight[privp[f]]
      /\ "WRITABLE" \in flags[f] \/ "POLLOUT" \in flags[f]
      /\ WaiterFlagged(f) /\ AcceptsOnce(f)
  BY <1>a, FilpFacts
\* Nothing is posted and the flags stay: READABLE, POLLIN, or a failed AcceptEx.
<1>1. ASSUME UNCHANGED <<flags, filterout, privp, refcnt, filp, newfd, inflight, completed>>,
             \A g \in Filp \ {f} : filterin'[g] = filterin[g] /\ (g \in refused' <=> g \in refused),
             filterin'[f] # NoTask => "POLLIN" \in flags[f] \/ f \in refused'
      PROVE  Preserved
  <2>1. Attached(f)' /\ Linked(f)' /\ ReadyOrPosted(f)' /\ AcceptsOnce(f)'
    BY <1>a, <1>1 DEF FilpInv, Attached, Linked, ReadyOrPosted, AcceptsOnce
  <2>2. WaiterFlagged(f)'
    BY <1>b, <1>1 DEF WaiterFlagged
  <2>3. Local(f)
    BY <1>a, <1>1, <2>1 DEF Local
  <2> QED BY <1>1, <2>1, <2>2, <2>3, FilpAfter, LocalStep DEF Preserved
<1>2. CASE ReadNow(f, t) /\ UNCHANGED portVars
  BY <1>b, <1>1, <1>2 DEF ReadNow, filpVars, portVars, olapVars, WaiterFlagged
<1>3. CASE "POLLIN" \in flags[f] /\ ReadLater(f, t) /\ UNCHANGED <<flags, portVars>>
  <2>1. \A g \in Filp \ {f} : filterin'[g] = filterin[g]
    BY <1>3 DEF ReadLater
  <2> QED BY <1>1, <1>3, <2>1 DEF ReadLater, portVars, olapVars
<1>4. ASSUME "READABLE" \notin flags[f], "POLLIN" \notin flags[f],
             filterin' = [filterin EXCEPT ![f] = t], UNCHANGED filterout,
             flags' = [flags EXCEPT ![f] = @ \cup {"POLLIN"}], Post(f, "recv"),
             \A g \in Filp \ {f} : g \in refused' <=> g \in refused,
             \A o \in Olap \ {privp[f]} : newfd'[o] = newfd[o],
             "LISTEN" \in flags[f] => newfd'[privp[f]]
      PROVE  Preserved
  <2>1. flags'[f] = flags[f] \cup {"POLLIN"}
    BY <1>4
  <2>2. privp' = privp /\ filp' = filp /\ inflight'[privp[f]] = inflight[privp[f]] \cup {"recv"}
    BY <1>b, <1>4 DEF Post
  <2>3. Attached(f)' /\ Linked(f)'
    BY <1>a, <1>b, <2>1, <2>2 DEF Attached, Linked
  <2>4. ReadyOrPosted(f)' /\ WaiterFlagged(f)'
    BY <1>b, <1>4, <2>1 DEF ReadyOrPosted, WaiterFlagged
  <2>5. AcceptsOnce(f)'
    BY <1>4, <2>1, <2>2 DEF AcceptsOnce
  <2>6. FilpInv(f)'
    BY <2>3, <2>4, <2>5, FilpAfter
  <2>7. \A g \in Filp \ {f} : flags'[g] = flags[g] /\ filterin'[g] = filterin[g]
    BY <1>4
  <2> QED BY <1>a, <1>b, <1>4, <2>3, <2>6, <2>7, PostStep DEF Preserved, Op
<1>5. CASE /\ "READABLE" \notin flags[f] /\ "POLLIN" \notin flags[f]
           /\ filterin' = [filterin EXCEPT ![f] = t] /\ UNCHANGED filterout
           /\ "LISTEN" \in flags[f] /\ PollAccept(f)
  <2>1. CASE /\ flags' = [flags EXCEPT ![f] = @ \cup {"POLLIN"}]
             /\ newfd' = [newfd EXCEPT ![privp[f]] = TRUE]
             /\ Post(f, "recv") /\ refused' = refused \ {f}
    <3>1. newfd'[privp[f]]
      BY <1>b, <2>1
    <3> QED BY <1>4, <1>5, <2>1, <3>1
  <2>2. CASE /\ refused' = refused \cup {f}
             /\ UNCHANGED <<flags, active, privp, refcnt, filp, newfd, inflight, completed, pc>>
    BY <1>1, <1>5, <2>2
  <2> QED BY <1>5, <2>1, <2>2 DEF PollAccept
<1>6. CASE /\ "READABLE" \notin flags[f] /\ "POLLIN" \notin flags[f]
           /\ filterin' = [filterin EXCEPT ![f] = t] /\ UNCHANGED filterout
           /\ "LISTEN" \notin flags[f] /\ PollRecv(f)
  BY <1>4, <1>6 DEF PollRecv
<1>7. CASE "LISTEN" \notin flags[f] /\ "POLLIN" \notin flags[f] /\ PollRecvFails(f, t)
  <2>1. /\ UNCHANGED <<filterout, privp, refcnt, filp, newfd, inflight, completed, refused>>
        /\ flags'[f] = flags[f] \cup {"READABLE"} /\ filterin'[f] = NoTask
        /\ \A g \in Filp \ {f} : flags'[g] = flags[g] /\ filterin'[g] = filterin[g]
    BY <1>7 DEF PollRecvFails, portVars, olapVars
  <2>2. Attached(f)' /\ Linked(f)'
    BY <1>a, <1>b, <2>1 DEF Attached, Linked
  <2>3. ReadyOrPosted(f)' /\ WaiterFlagged(f)' /\ AcceptsOnce(f)'
    BY <1>b, <1>7, <2>1 DEF ReadyOrPosted, WaiterFlagged, AcceptsOnce
  <2>4. Local(f)
    BY <1>a, <2>1, <2>2 DEF Local
  <2> QED BY <2>1, <2>2, <2>3, <2>4, FilpAfter, LocalStep DEF Preserved
<1> QED BY <1>2, <1>3, <1>5, <1>6, <1>7 DEF ActiveIn

\* Cancelling, and WSAEWOULDBLOCK: a waiter or a ready flag of a stream goes.
LEMMA CancelStep ==
    ASSUME IndInv, NEW f \in Filp, RecvUpdate(f) \/ \E t \in Task : Cancel(f, t)
    PROVE  Preserved
<1> USE DEF IndInv, PortTypes
<1>1. UNCHANGED <<privp, refcnt, filp, newfd, inflight, completed, refused>>
  BY DEF RecvUpdate, Cancel, portVars, olapVars
<1>2. \A g \in Filp \ {f} : /\ flags'[g] = flags[g] /\ filterin'[g] = filterin[g]
                            /\ filterout'[g] = filterout[g]
  BY DEF RecvUpdate, tx_aincb_update, GotEagain, Cancel, CancelIn, CancelOut
<1>3. /\ filterin'[f] \in {NoTask, filterin[f]} /\ filterout'[f] \in {NoTask, filterout[f]}
      /\ \/ flags'[f] = flags[f]
         \/ "LISTEN" \notin flags[f] /\ flags'[f] = flags[f] \ {"READABLE"}
  BY DEF RecvUpdate, tx_aincb_update, GotEagain, Cancel, CancelIn, CancelOut
<1>4. Attached(f)' <=> Attached(f)
  BY <1>3 DEF Attached
<1>5. FilpInv(f)
  OBVIOUS
<1>6. ASSUME Attached(f)
      PROVE  Linked(f)' /\ ReadyOrPosted(f)' /\ WaiterFlagged(f)' /\ AcceptsOnce(f)'
  <2>1. Linked(f)' /\ ReadyOrPosted(f)'
    BY <1>1, <1>3, <1>5, <1>6 DEF FilpInv, Linked, ReadyOrPosted
  <2>2. WaiterFlagged(f)' /\ AcceptsOnce(f)'
    BY <1>1, <1>3, <1>5, <1>6 DEF FilpInv, WaiterFlagged, AcceptsOnce
  <2> QED BY <2>1, <2>2
<1>7. flags'[f] # {} => "ATTACHED" \in flags'[f]
  BY <1>3, <1>5 DEF FilpInv
<1>8. FilpInv(f)'
  BY <1>4, <1>6, <1>7 DEF FilpInv
<1>9. Local(f)
  BY <1>1, <1>2, <1>4 DEF Local
<1> QED BY <1>1, <1>8, <1>9, LocalStep DEF Preserved

\* tx_listen_accept: the socket is handed out and AcceptEx may be posted again.
LEMMA AcceptStep == ASSUME IndInv, NEW f \in Filp, Accept(f) PROVE Preserved
<1> USE DEF IndInv, PortTypes
<1>1. /\ UNCHANGED <<filterin, filterout, privp, refcnt, filp, inflight, completed, refused>>
      /\ Attached(f) /\ {"LISTEN", "READABLE"} \subseteq flags[f]
      /\ flags' = [flags EXCEPT ![f] = @ \ {"READABLE"}]
      /\ newfd' = [newfd EXCEPT ![privp[f]] = FALSE]
  BY DEF Accept, Taken
<1>2. FilpInv(f) /\ Linked(f) /\ privp[f] \in Olap
  BY <1>1 DEF FilpInv, Linked
<1>3. flags'[f] = flags[f] \ {"READABLE"} /\ ~newfd'[privp[f]]
      /\ \A o \in Olap \ {privp[f]} : newfd'[o] = newfd[o]
  BY <1>1, <1>2
<1>4. Attached(f)' /\ Linked(f)'
  BY <1>1, <1>2, <1>3 DEF Attached, Linked
<1>5. ReadyOrPosted(f)' /\ WaiterFlagged(f)'
  BY <1>1, <1>2, <1>3 DEF FilpInv, ReadyOrPosted, WaiterFlagged
<1>6. "POLLIN" \notin flags[f]
  BY <1>1, <1>2 DEF FilpInv, ReadyOrPosted
<1>7. AcceptsOnce(f)'
  BY <1>1, <1>3, <1>6 DEF AcceptsOnce
<1>8. Local(f)
  BY <1>1, <1>4 DEF Local
<1> QED BY <1>1, <1>3, <1>4, <1>5, <1>7, <1>8, FilpAfter, LocalStep DEF Preserved

\* tx_aiocb_init: the new object is nobody's.
LEMMA InitStep == ASSUME IndInv, NEW f \in Filp, AiocbInit(f) PROVE Preserved
<1> USE DEF IndInv, PortTypes
<1>1. PICK o \in Olap : /\ refcnt[o] = 0
                        /\ privp' = [privp EXCEPT ![f] = o]
                        /\ refcnt' = [refcnt EXCEPT ![o] = 1]
                        /\ filp' = [filp EXCEPT ![o] = f]
                        /\ newfd' = [newfd EXCEPT ![o] = FALSE]
  BY DEF AiocbInit
<1>2. PICK listen \in SUBSET {"LISTEN"} : Initialise(f, {"WRITABLE", "ATTACHED"} \cup listen)
  BY DEF AiocbInit
<1>3. UNCHANGED <<inflight, completed>> /\ refused' = refused \ {f} /\ ~Attached(f)
  BY DEF AiocbInit
<1>4. inflight[o] = {} /\ completed[o] = {} /\ filp[o] = NoFilp
  BY <1>1, FreeOlap
<1>5. /\ flags'[f] = {"WRITABLE", "ATTACHED"} \cup listen
      /\ filterin'[f] = NoTask /\ filterout'[f] = NoTask
      /\ \A g \in Filp \ {f} : /\ flags'[g] = flags[g] /\ filterin'[g] = filterin[g]
                               /\ filterout'[g] = filterout[g]
  BY <1>2 DEF Initialise
<1>6. FilpInv(f)'
  <2>1. Attached(f)' /\ Linked(f)'
    BY <1>1, <1>3, <1>4, <1>5 DEF Attached, Linked
  <2>2. ReadyOrPosted(f)' /\ WaiterFlagged(f)'
    BY <1>5 DEF ReadyOrPosted, WaiterFlagged
  <2>3. ~newfd'[o] /\ privp'[f] = o
    BY <1>1
  <2>4. AcceptsOnce(f)'
    BY <1>5, <2>3 DEF AcceptsOnce
  <2> QED BY <2>1, <2>2, <2>4, FilpAfter
<1>7. ASSUME NEW g \in Filp \ {f} PROVE FilpInv(g)'
  <2>1. Attached(g) => privp[g] \in Olap \ {o}
    BY <1>4, PortAssumption DEF FilpInv, Linked
  <2>2. SameFilp(g)
    BY <1>1, <1>3, <1>5, <2>1 DEF SameFilp
  <2> QED BY <2>2, FilpFrame
<1>8. OlapInv(o)'
  <2>1. filp'[o] = f /\ privp'[f] = o /\ refcnt'[o] = 1 /\ f # NoFilp /\ Attached(f)'
    BY <1>1, <1>5, PortAssumption DEF Attached
  <2>2. Cardinality(inflight'[o]) = 0 /\ completed'[o] \subseteq inflight'[o]
    BY <1>3, <1>4, FS_EmptySet
  <2> QED BY <2>1, <2>2 DEF OlapInv
<1>9. ASSUME NEW p \in Olap \ {o} PROVE OlapInv(p)'
  <2>1. filp[p] # f
    BY <1>3, <1>9, PortAssumption DEF OlapInv
  <2>2. SameOlap(p)
    BY <1>1, <1>3, <1>5, <2>1 DEF SameOlap, Attached
  <2> QED BY <1>9, <2>2, OlapFrame
<1> QED BY <1>6, <1>7, <1>8, <1>9 DEF Preserved

\* tx_aiocb_fini: the object loses its filp and one count.
LEMMA FiniStep == ASSUME IndInv, NEW f \in Filp, Fini(f) PROVE Preserved
<1> USE DEF IndInv, PortTypes
<1>a. Attached(f)
  BY DEF Fini
<1>1. PICK o \in Olap : o = privp[f] /\ filp[o] = f
  BY <1>a DEF FilpInv, Linked
<1>2. /\ flags' = [flags EXCEPT ![f] = @ \cup {"DETACHED"}]
      /\ privp' = [privp EXCEPT ![f] = NoOlap]
      /\ filp' = [filp EXCEPT ![o] = NoFilp]
      /\ refcnt' = [refcnt EXCEPT ![o] = @ - 1]
      /\ UNCHANGED <<filterin, filterout, newfd, inflight, completed, refused>>
  BY <1>1 DEF Fini, Detached
<1>3. FilpInv(f)'
  BY <1>a, <1>2 DEF FilpInv, Attached
<1>4. ASSUME NEW g \in Filp \ {f} PROVE FilpInv(g)'
  <2>1. Attached(g) => privp[g] \in Olap \ {o}
    BY <1>a, <1>1, OwnOlap DEF FilpInv, Linked
  <2>2. SameFilp(g)
    BY <1>2, <2>1 DEF SameFilp
  <2> QED BY <2>2, FilpFrame
<1>5. OlapInv(o)'
  <2>1. /\ filp'[o] = NoFilp /\ refcnt'[o] = refcnt[o] - 1 /\ f # NoFilp
        /\ inflight'[o] = inflight[o] /\ completed'[o] = completed[o]
    BY <1>2, PortAssumption
  <2>2. Cardinality(inflight[o]) \in Nat
    BY OpCount DEF Op
  <2>3. OlapInv(o)
    OBVIOUS
  <2> QED BY <1>1, <2>1, <2>2, <2>3 DEF OlapInv
<1>6. ASSUME NEW p \in Olap \ {o} PROVE OlapInv(p)'
  <2>1. filp[p] # f
    BY <1>1, <1>6, PortAssumption DEF OlapInv
  <2>2. SameOlap(p)
    BY <1>2, <2>1 DEF SameOlap, Attached
  <2> QED BY <1>6, <2>2, OlapFrame
<1> QED BY <1>3, <1>4, <1>5, <1>6 DEF Preserved

\* Steps that change nothing the filps and the objects depend on.
LEMMA QuietStep ==
    ASSUME IndInv, UNCHANGED <<flags, filterin, filterout, privp, refcnt, filp, newfd, inflight, refused>>,
           \A o \in Olap : completed'[o] \subseteq inflight[o]
    PROVE  Preserved
<1>1. \A g \in Filp : SameFilp(g)
  BY DEF SameFilp
<1>2. \A o \in Olap : OlapInv(o)'
  BY DEF IndInv, OlapInv, Attached
<1> QED BY <1>1, <1>2, FilpFrame DEF IndInv, Preserved

\* handle_overlapped: the count and the operation go together, and the filp is woken
\* whenever there is one, for its own count keeps tx_refcnt above 0.
LEMMA HandleStep ==
    ASSUME IndInv, NEW o \in Olap, NEW op \in Op, handle_overlapped(o, op)
    PROVE  Preserved
<1> USE DEF IndInv, PortTypes
<1>1. /\ op \in inflight[o] /\ op \in completed[o] /\ OlapInv(o)
      /\ inflight' = [inflight EXCEPT ![o] = @ \ {op}]
      /\ completed' = [completed EXCEPT ![o] = @ \ {op}]
      /\ refcnt' = [refcnt EXCEPT ![o] = @ - 1]
      /\ UNCHANGED <<privp, filp, newfd, refused>>
  BY DEF handle_overlapped, Handled, OlapInv
<1>2. /\ Cardinality(inflight[o]) \in Nat /\ Cardinality(inflight[o]) # 0
      /\ Cardinality(inflight[o] \ {op}) = Cardinality(inflight[o]) - 1
  BY <1>1, OpCount
<1>3. CASE filp[o] = NoFilp
  <2>1. UNCHANGED aiocbVars
    BY <1>3 DEF handle_overlapped
  <2>2. ASSUME NEW g \in Filp PROVE FilpInv(g)'
    <3>1. Attached(g) => privp[g] \in Olap \ {o}
      BY <1>3, PortAssumption DEF FilpInv, Linked
    <3>2. SameFilp(g)
      BY <1>1, <2>1, <3>1 DEF SameFilp, aiocbVars
    <3> QED BY <3>2, FilpFrame
  <2>3. OlapInv(o)'
    <3>1. /\ refcnt'[o] = refcnt[o] - 1 /\ inflight'[o] = inflight[o] \ {op}
          /\ completed'[o] = completed[o] \ {op} /\ filp'[o] = NoFilp
      BY <1>1, <1>3
    <3> QED BY <1>1, <1>2, <1>3, <3>1 DEF OlapInv
  <2>4. ASSUME NEW p \in Olap \ {o} PROVE OlapInv(p)'
    <3>1. SameOlap(p)
      BY <1>1, <2>1, <2>4 DEF SameOlap, Attached, aiocbVars
    <3> QED BY <2>4, <3>1, OlapFrame
  <2> QED BY <2>2, <2>3, <2>4 DEF Preserved
<1>4. CASE filp[o] # NoFilp
  <2>1. PICK f \in Filp : f = filp[o]
    BY <1>4
  <2>2. /\ Attached(f) /\ privp[f] = o /\ FilpInv(f)
        /\ refcnt[o] = Cardinality(inflight[o]) + 1
    BY <1>1, <1>4, <2>1 DEF OlapInv
  <2>3. refcnt'[o] = Cardinality(inflight[o])
    BY <1>1, <1>2, <2>2
  <2>4. Wake(f, op)
    BY <1>2, <1>4, <2>1, <2>3 DEF handle_overlapped
  <2>5. \A g \in Filp \ {f} : /\ flags'[g] = flags[g] /\ filterin'[g] = filterin[g]
                              /\ filterout'[g] = filterout[g]
    BY <2>4 DEF Wake
  <2>6. /\ flags'[f] = Ended(flags[f], op)
        /\ filterin'[f] = (IF op = "recv" THEN NoTask ELSE filterin[f])
        /\ filterout'[f] = (IF op = "send" THEN NoTask ELSE filterout[f])
        /\ inflight'[o] = inflight[o] \ {op}
    BY <1>1, <2>4 DEF Wake
  <2>7. Attached(f)' /\ Linked(f)'
    BY <1>1, <2>1, <2>2, <2>6 DEF FilpInv, Linked, Attached, Ended, Op
  <2>8. ReadyOrPosted(f)' /\ WaiterFlagged(f)'
    BY <1>1, <2>2, <2>6 DEF FilpInv, ReadyOrPosted, WaiterFlagged, Ended, Op
  <2>9. AcceptsOnce(f)'
    <3>1. op = "recv" => "POLLIN" \in flags[f]
      BY <1>1, <2>2 DEF FilpInv, Linked
    <3>2. /\ "LISTEN" \in flags'[f] <=> "LISTEN" \in flags[f]
          /\ (flags'[f] \cap {"POLLIN", "READABLE"} # {})
                <=> (flags[f] \cap {"POLLIN", "READABLE"} # {})
      <4>1. CASE op = "send"
        BY <2>6, <4>1 DEF Ended
      <4>2. CASE op = "recv"
        <5>1. flags'[f] = (flags[f] \ {"POLLIN"}) \cup {"READABLE"} /\ "POLLIN" \in flags[f]
          BY <2>6, <3>1, <4>2 DEF Ended
        <5>2. "READABLE" \in flags'[f] /\ ("LISTEN" \in flags'[f] <=> "LISTEN" \in flags[f])
          BY <5>1
        <5> QED BY <5>1, <5>2
      <4> QED BY <4>1, <4>2 DEF Op
    <3> QED BY <1>1, <2>2, <3>2 DEF FilpInv, AcceptsOnce
  <2>10. FilpInv(f)'
    BY <2>7, <2>8, <2>9, FilpAfter
  <2>11. ASSUME NEW g \in Filp \ {f} PROVE FilpInv(g)'
    <3>1. Attached(g) => privp[g] \in Olap \ {o}
      BY <2>2, OwnOlap DEF FilpInv, Linked
    <3>2. SameFilp(g)
      BY <1>1, <2>5, <3>1 DEF SameFilp
    <3> QED BY <3>2, FilpFrame
  <2>12. OlapInv(o)'
    <3>1. /\ refcnt'[o] = refcnt[o] - 1 /\ inflight'[o] = inflight[o] \ {op}
          /\ completed'[o] = completed[o] \ {op} /\ filp'[o] = f /\ f # NoFilp /\ privp'[f] = o
      BY <1>1, <1>4, <2>1, <2>2
    <3> QED BY <1>1, <1>2, <2>2, <2>7, <3>1 DEF OlapInv
  <2>13. ASSUME NEW p \in Olap \ {o} PROVE OlapInv(p)'
    <3>1. filp[p] # f
      BY <1>4, <2>1, <2>2, <2>13 DEF OlapInv
    <3>2. SameOlap(p)
      BY <1>1, <2>5, <2>13, <3>1 DEF SameOlap, Attached
    <3> QED BY <2>13, <3>2, OlapFrame
  <2> QED BY <2>10, <2>11, <2>12, <2>13 DEF Preserved
<1> QED BY <1>3, <1>4
-----------------------------------------------------------------------------
(* Types.                                                                  *)

\* Posting keeps the types of the object.
LEMMA PostTypes ==
    ASSUME PortTypes, NEW f \in Filp, NEW op \in Op, privp[f] \in Olap, Post(f, op)
    PROVE  /\ refcnt' \in [Olap -> Int] /\ inflight' \in [Olap -> SUBSET Op]
           /\ UNCHANGED <<privp, filp, completed, pc>>
BY DEF Post, PortTypes

LEMMA TypesStep == ASSUME IndInv, [Next]_vars PROVE PortTypes'
<1> USE AiocbAssumption DEF IndInv, PortTypes, POLL, Flag
<1>1. ASSUME NEW f \in Filp, AiocbInit(f) PROVE PortTypes'
  <2>1. PICK o \in Olap : /\ privp' = [privp EXCEPT ![f] = o]
                          /\ refcnt' = [refcnt EXCEPT ![o] = 1]
                          /\ filp' = [filp EXCEPT ![o] = f]
                          /\ newfd' = [newfd EXCEPT ![o] = FALSE]
    BY <1>1 DEF AiocbInit
  <2>2. PICK l \in SUBSET {"LISTEN"} : Initialise(f, {"WRITABLE", "ATTACHED"} \cup l)
    BY <1>1 DEF AiocbInit
  <2>3. {"WRITABLE", "ATTACHED"} \cup l \in SUBSET Flag
    OBVIOUS
  <2>4. /\ flags' \in [Filp -> SUBSET Flag] /\ active' \subseteq Task
        /\ filterin' \in [Filp -> Task \cup {NoTask}] /\ filterout' \in [Filp -> Task \cup {NoTask}]
    BY <2>2, <2>3 DEF Initialise
  <2>5. privp' \in [Filp -> Olap \cup {NoOlap}] /\ filp' \in [Olap -> Filp \cup {NoFilp}]
    BY <2>1
  <2>6. refcnt' \in [Olap -> Int] /\ newfd' \in [Olap -> BOOLEAN]
    BY <2>1
  <2>7. refused' \subseteq Filp /\ UNCHANGED <<inflight, completed, pc>>
    BY <1>1 DEF AiocbInit
  <2> QED BY <2>4, <2>5, <2>6, <2>7
<1>a. \A f \in Filp : Open(f) \/ Attached(f) => privp[f] \in Olap
  BY OpenAttached DEF FilpInv, Linked
<1>2. ASSUME NEW f \in Filp, Fini(f) PROVE PortTypes'
  <2>1. privp[f] \in Olap
    BY <1>a, <1>2 DEF Fini
  <2> QED BY <1>2, <2>1 DEF Fini, Detached
<1>3. ASSUME NEW f \in Filp, Sendout(f) PROVE PortTypes'
  BY <1>a, <1>3, PostTypes DEF Sendout, Sending, Activated, portVars, olapVars, Op
<1>4. ASSUME NEW f \in Filp, RecvUpdate(f) \/ \E t \in Task : Cancel(f, t) PROVE PortTypes'
  BY <1>4 DEF RecvUpdate, tx_aincb_update, GotEagain, Cancel, CancelIn, CancelOut, portVars, olapVars
<1>5. ASSUME NEW f \in Filp, Accept(f) PROVE PortTypes'
  BY <1>5 DEF Accept, Taken
<1>6. ASSUME NEW f \in Filp, NEW t \in Task, ActiveOut(f, t) PROVE PortTypes'
  BY <1>6 DEF ActiveOut, WriteNow, WriteLater, filpVars, portVars, olapVars
<1>7. ASSUME NEW f \in Filp, NEW t \in Task, Connect(f, t) PROVE PortTypes'
  BY <1>a, <1>6, <1>7, PostTypes DEF Connect, Sending, Op
<1>8. ASSUME NEW f \in Filp, NEW t \in Task, ActiveIn(f, t) PROVE PortTypes'
  <2>1. CASE ReadNow(f, t) /\ UNCHANGED portVars
    BY <2>1 DEF ReadNow, filpVars, portVars, olapVars
  <2>2. CASE ReadLater(f, t) /\ UNCHANGED <<flags, portVars>>
    BY <2>2 DEF ReadLater, portVars, olapVars
  <2>3. CASE filterin' = [filterin EXCEPT ![f] = t] /\ UNCHANGED filterout /\ PollAccept(f)
    <3>1. privp[f] \in Olap
      BY <1>a, <1>8 DEF ActiveIn
    <3>2. newfd' \in [Olap -> BOOLEAN]
      BY <2>3, <3>1 DEF PollAccept
    <3> QED BY <2>3, <3>1, <3>2, PostTypes DEF PollAccept, Op
  <2>4. CASE filterin' = [filterin EXCEPT ![f] = t] /\ UNCHANGED filterout /\ PollRecv(f)
    BY <1>a, <1>8, <2>4, PostTypes DEF ActiveIn, PollRecv, Op
  <2>5. CASE PollRecvFails(f, t)
    BY <2>5 DEF PollRecvFails, Activated, portVars, olapVars
  <2> QED BY <1>8, <2>1, <2>2, <2>3, <2>4, <2>5 DEF ActiveIn
<1>9. ASSUME NEW t \in Task, Run(t) PROVE PortTypes'
  BY <1>9 DEF Run, RunTask, filpVars, portVars, olapVars
<1>10. ASSUME NEW o \in Olap, NEW op \in Op, Complete(o, op) PROVE PortTypes'
  BY <1>10 DEF Complete, aiocbVars, olapVars
<1>11. ASSUME NEW o \in Olap, NEW op \in Op, handle_overlapped(o, op) PROVE PortTypes'
  <2>1. /\ inflight' \in [Olap -> SUBSET Op] /\ completed' \in [Olap -> SUBSET Op]
        /\ refcnt' \in [Olap -> Int] /\ UNCHANGED <<privp, filp, newfd, pc, refused>>
    BY <1>11 DEF handle_overlapped, Handled
  <2>2. CASE UNCHANGED aiocbVars
    BY <2>1, <2>2 DEF aiocbVars
  <2>3. CASE filp[o] \in Filp /\ Wake(filp[o], op)
    <3>1. Ended(flags[filp[o]], op) \in SUBSET Flag
      BY <2>3 DEF Ended
    <3>2. flags' \in [Filp -> SUBSET Flag]
      BY <2>3, <3>1 DEF Wake
    <3>3. /\ filterin' \in [Filp -> Task \cup {NoTask}]
          /\ filterout' \in [Filp -> Task \cup {NoTask}] /\ active' \subseteq Task
      BY <2>3 DEF Wake, Activated
    <3> QED BY <2>1, <3>2, <3>3
  <2> QED BY <1>11, <2>2, <2>3 DEF handle_overlapped
<1>12. CASE PollBegin \/ PollEnd
  BY <1>12 DEF PollBegin, PollEnd, aiocbVars, olapVars
<1>13. CASE UNCHANGED vars
  BY <1>13 DEF vars, aiocbVars, portVars, olapVars
<1> QED
  BY <1>1, <1>2, <1>3, <1>4, <1>5, <1>6, <1>7, <1>8, <1>9, <1>10, <1>11, <1>12, <1>13 DEF Next
-----------------------------------------------------------------------------
(* The theorems.                                                           *)

\* A new port has no filp and no object.
LEMMA InitInv == Init => IndInv
<1> SUFFICES ASSUME Init PROVE IndInv
  OBVIOUS
<1>1. PortTypes
  BY DEF Init, AiocbInitially, PortTypes
<1>2. \A f \in Filp : FilpInv(f)
  BY DEF Init, AiocbInitially, FilpInv, Attached
<1>3. \A o \in Olap : OlapInv(o)
  BY FS_EmptySet DEF Init, OlapInv
<1> QED BY <1>1, <1>2, <1>3 DEF IndInv

\* Every step of the program and of the kernel keeps the invariant.
LEMMA StepInv == ASSUME IndInv, [Next]_vars PROVE IndInv'
<1>1. PortTypes'
  BY TypesStep
<1> SUFFICES Preserved
  BY <1>1 DEF IndInv, Preserved
<1>2. ASSUME NEW f \in Filp,
             \/ AiocbInit(f) \/ Fini(f) \/ Sendout(f) \/ RecvUpdate(f) \/ Accept(f)
             \/ \E t \in Task : ActiveIn(f, t) \/ ActiveOut(f, t) \/ Connect(f, t) \/ Cancel(f, t)
      PROVE  Preserved
  BY <1>2, InitStep, FiniStep, SendoutStep, CancelStep, AcceptStep, ActiveInStep, ActiveOutStep,
     ConnectStep
<1>3. ASSUME NEW o \in Olap, NEW op \in Op, handle_overlapped(o, op) PROVE Preserved
  BY <1>3, HandleStep
<1>4. ASSUME NEW o \in Olap, NEW op \in Op, Complete(o, op) PROVE Preserved
  <2>1. \A p \in Olap : completed'[p] \subseteq inflight[p]
    BY <1>4 DEF Complete, IndInv, PortTypes, OlapInv
  <2> QED BY <1>4, <2>1, QuietStep DEF Complete, aiocbVars, olapVars
<1>5. ASSUME UNCHANGED <<flags, filterin, filterout, privp, refcnt, filp, newfd, inflight, refused,
                         completed>>
      PROVE  Preserved
  <2>1. \A p \in Olap : completed'[p] \subseteq inflight[p]
    BY <1>5 DEF IndInv, OlapInv
  <2> QED BY <1>5, <2>1, QuietStep
<1>6. CASE (\E t \in Task : Run(t)) \/ PollBegin \/ PollEnd
  BY <1>5, <1>6 DEF Run, RunTask, PollBegin, PollEnd, filpVars, aiocbVars, portVars, olapVars
<1>7. CASE UNCHANGED vars
  BY <1>5, <1>7 DEF vars, aiocbVars, portVars, olapVars
<1> QED BY <1>2, <1>3, <1>4, <1>6, <1>7 DEF Next

\* The invariant of the port.
THEOREM PortInvariant == Spec => []IndInv
BY InitInv, StepInv, PTL DEF Spec

\* tx_refcnt is the number of users of an object, so it is deleted when the last one
\* goes and the kernel holds no deleted one.
THEOREM PortAccounted == Spec => []OverlappedAccounted
<1>1. IndInv => OverlappedAccounted
  BY DEF IndInv, OlapInv, OverlappedAccounted
<1> QED BY <1>1, PortInvariant, PTL

\* A waiting task has an operation in flight, or its AcceptEx failed.
THEOREM PortNoLostWakeup == Spec => []NoLostWakeup
<1>1. IndInv => NoLostWakeup
  BY DEF IndInv, FilpInv, Linked, WaiterFlagged, NoLostWakeup
<1> QED BY <1>1, PortInvariant, PTL

\* One AcceptEx and one connection at a time.
THEOREM PortAcceptOnce == Spec => []AcceptOnce
<1>1. IndInv => AcceptOnce
  BY DEF IndInv, FilpInv, AcceptsOnce, AcceptOnce
<1> QED BY <1>1, PortInvariant, PTL
-----------------------------------------------------------------------------
(* netcat's relay, over the port.                                          *)

RelayTypes ==
    /\ buf \in [Dir -> Seq(Nat)] /\ off \in [Dir -> Nat] /\ eof \in [Dir -> BOOLEAN]
    /\ out \in [Dir -> Seq(Nat)]
    /\ sent \in [Filp -> Nat] /\ rd \in [Filp -> Nat]

\* w holds the first items in order, and b behind its first o places the next ones, up to
\* the r-th.
InOrder(b, o, w, r) ==
    /\ o <= Len(b)
    /\ Len(w) + (Len(b) - o) = r
    /\ \A i \in 1..Len(w) : w[i] = i
    /\ \A i \in (o + 1)..Len(b) : b[i] = Len(w) + (i - o)

\* What was handed over, then the unsent part of the buffer, is what was read.
Copied(d) == InOrder(buf[d], off[d], out[d], rd[From(d)])

\* After the end of file nothing is in the buffer, and nothing arrives.
Drained(d) ==
    eof[d] => Empty(d) /\ From(d) \in closed /\ rd[From(d)] = sent[From(d)]

RelayInv == RelayTypes /\ \A d \in Dir : Copied(d) /\ Drained(d)

-----------------------------------------------------------------------------
(* Copying, item by item.                                                  *)

\* An empty buffer is filled with the n items behind the r-th.
LEMMA ReadInOrder ==
    ASSUME NEW b \in Seq(Nat), NEW o \in Nat, NEW w \in Seq(Nat), NEW r \in Nat,
           InOrder(b, o, w, r), o = Len(b), NEW n \in Nat
    PROVE  /\ [i \in 1..n |-> r + i] \in Seq(Nat)
           /\ InOrder([i \in 1..n |-> r + i], 0, w, r + n)
<1> DEFINE s == [i \in 1..n |-> r + i]
<1>1. s \in Seq(Nat) /\ Len(s) = n
  OBVIOUS
<1>2. \A i \in 1..n : s[i] = r + i
  OBVIOUS
<1> HIDE DEF s
<1>3. Len(w) \in Nat /\ Len(w) = r /\ \A i \in 1..Len(w) : w[i] = i
  BY DEF InOrder
<1>4. \A i \in 1..Len(s) : s[i] = Len(w) + (i - 0)
  BY <1>1, <1>2, <1>3
<1>5. InOrder(s, 0, w, r + n)
  BY <1>1, <1>3, <1>4 DEF InOrder
<1> QED BY <1>1, <1>5 DEF s

\* An empty buffer may be forgotten.
LEMMA EmptyInOrder ==
    ASSUME NEW b \in Seq(Nat), NEW o \in Nat, NEW w \in Seq(Nat), NEW r \in Nat,
           InOrder(b, o, w, r), o = Len(b)
    PROVE  InOrder(<<>>, 0, w, r)
<1>1. Len(w) \in Nat /\ Len(w) = r /\ \A i \in 1..Len(w) : w[i] = i
  BY DEF InOrder
<1>2. Len(<<>>) = 0 /\ \A i \in (0 + 1)..0 : FALSE
  OBVIOUS
<1> QED BY <1>1, <1>2 DEF InOrder

\* What SubSeq and \o do to the unsent part of a buffer.
LEMMA HandOver ==
    ASSUME NEW b \in Seq(Nat), NEW o \in Nat, NEW w \in Seq(Nat), NEW r \in Nat,
           InOrder(b, o, w, r), NEW n \in Nat, o + n <= Len(b)
    PROVE  LET v == w \o SubSeq(b, o + 1, o + n) IN
           /\ v \in Seq(Nat) /\ Len(v) = Len(w) + n
           /\ \A i \in 1..Len(v) : v[i] = i
<1> DEFINE s == SubSeq(b, o + 1, o + n)
           v == w \o s
<1>1. Len(b) \in Nat /\ Len(w) \in Nat
  OBVIOUS
<1>2. \A i \in (o + 1)..(o + n) : b[i] \in Nat
  BY <1>1
<1>3. s \in Seq(Nat) /\ Len(s) = n
  <2>1. PICK m \in Int, k \in Int : m = o + 1 /\ k = o + n
    OBVIOUS
  <2>2. \A i \in m..k : b[i] \in Nat
    BY <1>2, <2>1
  <2>3. /\ SubSeq(b, m, k) \in Seq(Nat)
        /\ Len(SubSeq(b, m, k)) = IF m <= k THEN k - m + 1 ELSE 0
    BY <2>2, SubSeqProperties
  <2>4. (IF m <= k THEN k - m + 1 ELSE 0) = n
    BY <2>1
  <2> QED BY <2>1, <2>3, <2>4, Zenon
<1>4. \A i \in 1..n : s[i] = b[o + i]
  BY <1>1, <1>2
<1> HIDE DEF s
<1>5. \A i \in 1..n : s[i] = Len(w) + i
  <2> SUFFICES ASSUME NEW i \in 1..n PROVE s[i] = Len(w) + i
    OBVIOUS
  <2>1. o + i \in (o + 1)..Len(b) /\ (o + i) - o = i
    BY <1>1
  <2> QED BY <1>4, <2>1 DEF InOrder
<1>6. /\ v \in Seq(Nat) /\ Len(v) = Len(w) + Len(s)
      /\ \A i \in 1..Len(w) + Len(s) : v[i] = IF i <= Len(w) THEN w[i] ELSE s[i - Len(w)]
  BY <1>3, ConcatProperties, Zenon
<1> HIDE DEF v
<1>7. ASSUME NEW i \in 1..Len(v) PROVE v[i] = i
  <2>1. i \in 1..Len(w) + Len(s) /\ Len(v) = Len(w) + n
    BY <1>3, <1>6
  <2>2. CASE i <= Len(w)
    <3>1. v[i] = w[i] /\ i \in 1..Len(w)
      BY <1>1, <1>6, <2>1, <2>2
    <3> QED BY <3>1 DEF InOrder
  <2>3. CASE ~(i <= Len(w))
    <3>1. v[i] = s[i - Len(w)]
      BY <1>6, <2>1, <2>3
    <3>2. i - Len(w) \in 1..n /\ Len(w) + (i - Len(w)) = i
      BY <1>1, <2>1, <2>3
    <3> QED BY <1>5, <3>1, <3>2
  <2> QED BY <2>2, <2>3
<1> QED BY <1>3, <1>6, <1>7 DEF v, s

\* n items go from the buffer to what was handed over.
LEMMA WriteInOrder ==
    ASSUME NEW b \in Seq(Nat), NEW o \in Nat, NEW w \in Seq(Nat), NEW r \in Nat,
           InOrder(b, o, w, r), NEW n \in Nat, o + n <= Len(b)
    PROVE  InOrder(b, o + n, w \o SubSeq(b, o + 1, o + n), r)
<1> DEFINE v == w \o SubSeq(b, o + 1, o + n)
<1>0. /\ v \in Seq(Nat) /\ Len(v) = Len(w) + n
      /\ \A i \in 1..Len(v) : v[i] = i
  BY HandOver, Zenon
<1>1. Len(v) = Len(w) + n
  BY <1>0
<1> HIDE DEF v
<1>2. Len(b) \in Nat /\ Len(w) \in Nat /\ Len(w) + (Len(b) - o) = r
  BY DEF InOrder
<1>3. \A i \in ((o + n) + 1)..Len(b) : b[i] = Len(v) + (i - (o + n))
  <2> SUFFICES ASSUME NEW i \in ((o + n) + 1)..Len(b) PROVE b[i] = Len(v) + (i - (o + n))
    OBVIOUS
  <2>1. i \in (o + 1)..Len(b)
    BY <1>2
  <2>2. b[i] = Len(w) + (i - o)
    BY <2>1 DEF InOrder
  <2> QED BY <1>1, <1>2, <2>2
<1>4. Len(v) + (Len(b) - (o + n)) = r
  <2>1. PICK lb \in Nat, lw \in Nat, lv \in Nat : lb = Len(b) /\ lw = Len(w) /\ lv = lw + n
    BY <1>2
  <2>2. lw + (lb - o) = r => lv + (lb - (o + n)) = r
    BY <2>1
  <2> QED BY <1>1, <1>2, <2>1, <2>2, Zenon
<1>5. InOrder(b, o + n, v, r)
  BY <1>0, <1>3, <1>4 DEF InOrder
<1> QED BY <1>5 DEF v

\* All of the buffer would complete the first r items.
LEMMA AllInOrder ==
    ASSUME NEW b \in Seq(Nat), NEW o \in Nat, NEW w \in Seq(Nat), NEW r \in Nat,
           InOrder(b, o, w, r)
    PROVE  w \o SubSeq(b, o + 1, Len(b)) = [i \in 1..r |-> i]
<1> DEFINE v == w \o SubSeq(b, o + 1, Len(b))
<1>1. /\ Len(b) \in Nat /\ Len(w) \in Nat /\ Len(w) + (Len(b) - o) = r
      /\ Len(b) - o \in Nat /\ o + (Len(b) - o) = Len(b)
  BY DEF InOrder
<1>2. v \in Seq(Nat) /\ Len(v) = Len(w) + (Len(b) - o) /\ \A i \in 1..Len(v) : v[i] = i
  <2>1. LET x == w \o SubSeq(b, o + 1, o + (Len(b) - o)) IN
        /\ x \in Seq(Nat) /\ Len(x) = Len(w) + (Len(b) - o) /\ \A i \in 1..Len(x) : x[i] = i
    <3>1. o + (Len(b) - o) <= Len(b)
      BY <1>1
    <3> QED BY <1>1, <3>1, HandOver
  <2> QED BY <1>1, <2>1
<1> HIDE DEF v
<1>3. Len(v) = r
  BY <1>1, <1>2
<1>4. v = [i \in 1..r |-> i]
  BY <1>2, <1>3
<1> QED BY <1>4 DEF v

USE RelayAssumption

-----------------------------------------------------------------------------
(* The relay and the port.                                                 *)

\* Whatever the relay does is, to the port, an operation of its interface or nothing.
LEMMA RelayStepIsPortStep == [RelayNext]_allVars => [Next]_vars
<1>0. file \in Filp /\ file2 \in Filp /\ task \in Task /\ \A d : From(d) \in Filp /\ To(d) \in Filp
  BY DEF From, To
<1>1. ASSUME RelayNext PROVE [Next]_vars
  <2>1. CASE \E f \in Filp : Send(f) \/ Close(f)
    BY <2>1 DEF Send, Close
  <2>2. CASE \E o \in Olap, op \in Op : PortCompletes(o, op)
    BY <2>2 DEF PortCompletes, Next
  <2>3. CASE Polling
    BY <2>3 DEF Polling, Next
  <2>4. CASE Call
    BY <1>0, <2>4 DEF Call, Next
  <2>5. CASE Main
    BY <1>0, <2>5 DEF Main, Next
  <2>6. ASSUME NEW d \in Dir, Pipling(d) PROVE [Next]_vars
    <3>1. CASE Finish(d) \/ RecvData(d) \/ RecvEof(d) \/ RecvFails(d)
      BY <3>1 DEF Finish, RecvData, RecvEof, RecvFails
    <3>2. CASE WaitIn(d)
      BY <1>0, <3>2 DEF WaitIn, Next
    <3>3. CASE WaitOut(d)
      BY <1>0, <3>3 DEF WaitOut, Next
    <3>4. CASE RecvAgain(d)
      BY <1>0, <3>4 DEF RecvAgain, Next
    <3>5. CASE Write(d) \/ WriteFails(d)
      BY <1>0, <3>5 DEF Write, WriteFails, Next
    <3> QED BY <2>6, <3>1, <3>2, <3>3, <3>4, <3>5 DEF Pipling
  <2> QED BY <1>1, <2>1, <2>2, <2>3, <2>4, <2>5, <2>6 DEF RelayNext
<1> QED BY <1>1 DEF allVars

\* netcat.cpp uses the port only as TxPort lets an application use it.
THEOREM RelayRefinesPort == RelaySpec => Spec
<1>1. RelayInit => Init
  BY DEF RelayInit
<1> QED BY <1>1, RelayStepIsPortStep, PTL DEF RelaySpec, Spec

\* So the relay's overlapped objects are freed exactly when the kernel is done with them,
\* and the port loses none of its wakeups.
THEOREM RelayPortSound == RelaySpec => [](OverlappedAccounted /\ NoLostWakeup)
<1> QED BY RelayRefinesPort, PortAccounted, PortNoLostWakeup, PTL
-----------------------------------------------------------------------------
(* The copying.                                                            *)

\* The two directions read from different filps.
LEMMA DirectionsDiffer ==
    /\ \A d \in Dir : From(d) \in Filp
    /\ \A d, e \in Dir : From(d) = From(e) => d = e
BY DEF From, Dir

\* Nothing is copied, sent or read at first.
LEMMA RelayInitInv == RelayInit => RelayInv
<1> SUFFICES ASSUME RelayInit PROVE RelayInv
  OBVIOUS
<1>1. /\ buf = [d \in Dir |-> <<>>] /\ off = [d \in Dir |-> 0] /\ eof = [d \in Dir |-> FALSE]
      /\ sent = [f \in Filp |-> 0] /\ rd = [f \in Filp |-> 0] /\ out = [d \in Dir |-> <<>>]
  BY DEF RelayInit
<1>2. <<>> \in Seq(Nat) /\ Len(<<>>) = 0
  OBVIOUS
<1>3. RelayTypes
  BY <1>1, <1>2 DEF RelayTypes
<1>4. ASSUME NEW d \in Dir PROVE Copied(d) /\ Drained(d)
  <2>1. buf[d] = <<>> /\ out[d] = <<>> /\ off[d] = 0 /\ rd[From(d)] = 0 /\ ~eof[d]
    BY <1>1, DirectionsDiffer
  <2> QED BY <1>2, <2>1 DEF Copied, InOrder, Drained
<1> QED BY <1>3, <1>4 DEF RelayInv

\* What a direction's invariant looks at.
CopyFrame(d) ==
    UNCHANGED <<buf[d], off[d], out[d], rd[From(d)]>>

DrainFrame(d) ==
    /\ UNCHANGED <<buf[d], off[d], eof[d], rd[From(d)]>>
    /\ From(d) \in closed => From(d) \in closed' /\ sent'[From(d)] = sent[From(d)]

LEMMA Framed ==
    ASSUME NEW d \in Dir
    PROVE  /\ Copied(d) /\ CopyFrame(d) => Copied(d)'
           /\ Drained(d) /\ DrainFrame(d) => Drained(d)'
BY DEF Copied, CopyFrame, Drained, DrainFrame, Empty

\* The steps that copy nothing.
LEMMA QuietStepInv ==
    ASSUME RelayInv, UNCHANGED <<buf, off, eof, rd, out>>,
           sent' \in [Filp -> Nat],
           \A f \in Filp : f \in closed => f \in closed' /\ sent'[f] = sent[f]
    PROVE  RelayInv'
<1>1. RelayTypes'
  BY DEF RelayInv, RelayTypes
<1>2. ASSUME NEW d \in Dir PROVE Copied(d)' /\ Drained(d)'
  BY DirectionsDiffer, Framed DEF RelayInv, CopyFrame, DrainFrame
<1> QED BY <1>1, <1>2 DEF RelayInv

\* recv of n items fills the empty buffer with the items behind those handed over.
LEMMA RecvDataInv ==
    ASSUME RelayInv, NEW d \in Dir, RecvData(d)
    PROVE  RelayInv'
<1>1. PICK n \in 1..BufSize :
        /\ buf' = [buf EXCEPT ![d] = [i \in 1..n |-> rd[From(d)] + i]]
        /\ rd' = [rd EXCEPT ![From(d)] = @ + n]
  BY DEF RecvData
<1>2. /\ ~eof[d] /\ Empty(d) /\ off' = [off EXCEPT ![d] = 0]
      /\ UNCHANGED <<eof, sent, closed, out>>
  BY DEF RecvData, Reads, OffAfterRecv
<1>3. /\ buf \in [Dir -> Seq(Nat)] /\ off \in [Dir -> Nat] /\ rd \in [Filp -> Nat]
      /\ out \in [Dir -> Seq(Nat)] /\ From(d) \in Filp /\ n \in Nat
  BY DirectionsDiffer DEF RelayInv, RelayTypes
<1>4. PICK s : s = [i \in 1..n |-> rd[From(d)] + i]
  OBVIOUS
<1>5. s \in Seq(Nat) /\ InOrder(s, 0, out[d], rd[From(d)] + n)
  <2>1. InOrder(buf[d], off[d], out[d], rd[From(d)])
    BY DEF RelayInv, Copied
  <2>2. off[d] = Len(buf[d])
    BY <1>2 DEF Empty
  <2>3. buf[d] \in Seq(Nat) /\ off[d] \in Nat /\ out[d] \in Seq(Nat) /\ rd[From(d)] \in Nat
    BY <1>3
  <2>4. n \in Nat
    BY <1>3
  <2>5. /\ [i \in 1..n |-> rd[From(d)] + i] \in Seq(Nat)
        /\ InOrder([i \in 1..n |-> rd[From(d)] + i], 0, out[d], rd[From(d)] + n)
    BY <2>1, <2>2, <2>3, <2>4, ReadInOrder, Zenon
  <2> QED BY <1>4, <2>5
<1>6. /\ buf' \in [Dir -> Seq(Nat)] /\ buf'[d] = s
      /\ \A e \in Dir : e # d => buf'[e] = buf[e]
  BY <1>1, <1>3, <1>4, <1>5
<1>7. /\ off' \in [Dir -> Nat] /\ off'[d] = 0 /\ \A e \in Dir : e # d => off'[e] = off[e]
      /\ rd' \in [Filp -> Nat] /\ rd'[From(d)] = rd[From(d)] + n
      /\ \A e \in Dir : e # d => rd'[From(e)] = rd[From(e)]
  BY <1>1, <1>2, <1>3, DirectionsDiffer
<1>8. RelayTypes'
  BY <1>2, <1>6, <1>7 DEF RelayInv, RelayTypes
<1>9. Copied(d)' /\ Drained(d)'
  <2>1. /\ off'[d] = 0 /\ buf'[d] = s /\ out'[d] = out[d] /\ rd'[From(d)] = rd[From(d)] + n
        /\ ~eof'[d]
    BY <1>2, <1>6, <1>7
  <2> QED BY <1>5, <2>1 DEF Copied, Drained
<1>10. ASSUME NEW e \in Dir, e # d PROVE Copied(e)' /\ Drained(e)'
  <2>1. CopyFrame(e) /\ DrainFrame(e)
    BY <1>2, <1>6, <1>7, <1>10 DEF CopyFrame, DrainFrame
  <2> QED BY <2>1, Framed DEF RelayInv
<1> QED BY <1>8, <1>9, <1>10 DEF RelayInv

\* recv without data empties the buffer, which was sent; at the end of file all was read.
LEMMA RecvNothingInv ==
    ASSUME RelayInv, NEW d \in Dir, RecvEof(d) \/ RecvAgain(d)
    PROVE  RelayInv'
<1>1. /\ ~eof[d] /\ Empty(d) /\ off' = [off EXCEPT ![d] = 0] /\ buf' = [buf EXCEPT ![d] = <<>>]
      /\ UNCHANGED <<sent, closed, rd, out>>
  BY DEF RecvEof, RecvAgain, Reads, netVars
<1>2. /\ eof' \in [Dir -> BOOLEAN] /\ \A e \in Dir : e # d => eof'[e] = eof[e]
      /\ eof'[d] => From(d) \in closed /\ rd[From(d)] = sent[From(d)]
  <2>1. eof \in [Dir -> BOOLEAN]
    BY DEF RelayInv, RelayTypes
  <2>2. CASE RecvEof(d)
    BY <2>1, <2>2 DEF RecvEof, IsEof
  <2>3. CASE RecvAgain(d)
    BY <1>1, <2>1, <2>3 DEF RecvAgain
  <2> QED BY <2>2, <2>3
<1>3. /\ buf \in [Dir -> Seq(Nat)] /\ off \in [Dir -> Nat] /\ rd \in [Filp -> Nat]
      /\ out \in [Dir -> Seq(Nat)] /\ From(d) \in Filp /\ <<>> \in Seq(Nat) /\ Len(<<>>) = 0
  BY DirectionsDiffer DEF RelayInv, RelayTypes
<1>4. /\ buf' \in [Dir -> Seq(Nat)] /\ buf'[d] = <<>> /\ off' \in [Dir -> Nat] /\ off'[d] = 0
      /\ \A e \in Dir : e # d => buf'[e] = buf[e] /\ off'[e] = off[e]
  BY <1>1, <1>3
<1>5. RelayTypes'
  BY <1>1, <1>2, <1>4 DEF RelayInv, RelayTypes
<1>6. Copied(d)' /\ Drained(d)'
  <2>1. InOrder(buf[d], off[d], out[d], rd[From(d)]) /\ off[d] = Len(buf[d])
    BY <1>1 DEF RelayInv, Copied, Empty
  <2>2. buf[d] \in Seq(Nat) /\ off[d] \in Nat /\ out[d] \in Seq(Nat) /\ rd[From(d)] \in Nat
    BY <1>3
  <2>3. InOrder(<<>>, 0, out[d], rd[From(d)])
    BY <2>1, <2>2, EmptyInOrder
  <2>4. Copied(d)'
    BY <1>1, <1>4, <2>3 DEF Copied
  <2> QED BY <1>1, <1>2, <1>3, <1>4, <2>4 DEF Drained, Empty
<1>7. ASSUME NEW e \in Dir, e # d PROVE Copied(e)' /\ Drained(e)'
  <2>1. CopyFrame(e) /\ DrainFrame(e)
    BY <1>1, <1>2, <1>4, <1>7 DEF CopyFrame, DrainFrame
  <2> QED BY <2>1, Framed DEF RelayInv
<1> QED BY <1>5, <1>6, <1>7 DEF RelayInv

\* A write of n items moves them from the buffer to what was handed over.
LEMMA WriteInv ==
    ASSUME RelayInv, NEW d \in Dir, Write(d)
    PROVE  RelayInv'
<1>1. PICK n \in 1..(Len(buf[d]) - off[d]) :
        /\ out' = [out EXCEPT ![d] = @ \o SubSeq(buf[d], off[d] + 1, off[d] + n)]
        /\ off' = [off EXCEPT ![d] = @ + n]
  BY DEF Write
<1>2. ~Empty(d) /\ UNCHANGED <<buf, eof, sent, closed, rd>>
  BY DEF Write, Writes
<1>3. /\ buf \in [Dir -> Seq(Nat)] /\ off \in [Dir -> Nat] /\ rd \in [Filp -> Nat]
      /\ out \in [Dir -> Seq(Nat)] /\ From(d) \in Filp
      /\ Copied(d) /\ Drained(d)
  BY DirectionsDiffer DEF RelayInv, RelayTypes
<1>4. /\ buf[d] \in Seq(Nat) /\ off[d] \in Nat /\ out[d] \in Seq(Nat) /\ rd[From(d)] \in Nat
      /\ InOrder(buf[d], off[d], out[d], rd[From(d)])
  BY <1>3 DEF Copied
<1>5. n \in Nat /\ off[d] + n <= Len(buf[d])
  <2>1. Len(buf[d]) \in Nat
    BY <1>4
  <2> QED BY <1>4, <2>1
<1>6. PICK v : v = out[d] \o SubSeq(buf[d], off[d] + 1, off[d] + n)
  OBVIOUS
<1>7. v \in Seq(Nat)
  BY <1>4, <1>5, <1>6, HandOver
<1>8. InOrder(buf[d], off[d] + n, v, rd[From(d)])
  BY <1>4, <1>5, <1>6, WriteInOrder
<1>9. off[d] + n \in Nat
  BY <1>4, <1>5
<1>10. /\ out' \in [Dir -> Seq(Nat)] /\ out'[d] = v
       /\ off' \in [Dir -> Nat] /\ off'[d] = off[d] + n
       /\ \A e \in Dir : e # d => out'[e] = out[e] /\ off'[e] = off[e]
  BY <1>1, <1>3, <1>6, <1>7, <1>9
<1>11. RelayTypes'
  BY <1>2, <1>10 DEF RelayInv, RelayTypes
<1>12. Copied(d)'
  BY <1>2, <1>8, <1>10 DEF Copied
<1>13. Drained(d)'
  <2>1. ~eof'[d]
    BY <1>2, <1>3 DEF Drained
  <2> QED BY <2>1 DEF Drained
<1>14. ASSUME NEW e \in Dir, e # d PROVE Copied(e)' /\ Drained(e)'
  <2>1. CopyFrame(e) /\ DrainFrame(e)
    BY <1>2, <1>10, <1>14 DEF CopyFrame, DrainFrame
  <2> QED BY <2>1, Framed DEF RelayInv
<1> QED BY <1>11, <1>12, <1>13, <1>14 DEF RelayInv

\* Every step keeps the invariant.
LEMMA RelayStepInv == RelayInv /\ [RelayNext]_allVars => RelayInv'
<1> SUFFICES ASSUME RelayInv, [RelayNext]_allVars PROVE RelayInv'
  OBVIOUS
<1>0. sent \in [Filp -> Nat]
  BY DEF RelayInv, RelayTypes
<1>1. ASSUME UNCHANGED <<buf, off, eof, netVars>> PROVE RelayInv'
  <2>1. UNCHANGED <<buf, off, eof, rd, out, sent, closed>>
    BY <1>1 DEF netVars
  <2> QED BY <1>0, <2>1, QuietStepInv
<1>2. ASSUME NEW f \in Filp, Send(f) \/ Close(f) PROVE RelayInv'
  <2>1. /\ UNCHANGED <<buf, off, eof, rd, out>> /\ sent' \in [Filp -> Nat]
        /\ \A g \in Filp : g \in closed => g \in closed' /\ sent'[g] = sent[g]
    BY <1>0, <1>2 DEF Send, Close, relayVars
  <2> QED BY <2>1, QuietStepInv
<1>3. ASSUME \/ Polling \/ Call \/ Main \/ UNCHANGED allVars
             \/ \E o \in Olap, op \in Op : PortCompletes(o, op)
      PROVE  RelayInv'
  <2>1. UNCHANGED <<relayVars, netVars>>
    BY <1>3 DEF Polling, Call, Main, Goto, PortCompletes, allVars
  <2> QED BY <1>1, <2>1 DEF relayVars
<1>4. ASSUME NEW d \in Dir, Pipling(d) PROVE RelayInv'
  <2>1. CASE Finish(d) \/ WaitIn(d) \/ RecvFails(d) \/ WaitOut(d) \/ WriteFails(d)
    BY <1>1, <2>1 DEF Finish, WaitIn, RecvFails, WaitOut, WriteFails
  <2> QED BY <1>4, <2>1, RecvDataInv, RecvNothingInv, WriteInv DEF Pipling
<1> QED BY <1>2, <1>3, <1>4 DEF RelayNext

\* RelayInv holds in every state of the relay.
THEOREM RelayInvariant == RelaySpec => []RelayInv
<1> QED BY RelayInitInv, RelayStepInv, PTL DEF RelaySpec

\* Both directions of netcat.cpp's tx_pipling_t copy exactly: nothing is lost, doubled or
\* reordered, however the reads and the writes split the data.
THEOREM RelayCopies == RelaySpec => []RelayExact
<1>1. RelayInv => RelayExact
  <2> SUFFICES ASSUME RelayInv, NEW d \in Dir
               PROVE  out[d] \o SubSeq(buf[d], off[d] + 1, Len(buf[d]))
                          = [i \in 1..rd[From(d)] |-> i]
    BY DEF RelayExact
  <2>1. buf \in [Dir -> Seq(Nat)] /\ off \in [Dir -> Nat] /\ out \in [Dir -> Seq(Nat)]
    BY DEF RelayInv, RelayTypes
  <2>2. rd[From(d)] \in Nat
    BY DirectionsDiffer DEF RelayInv, RelayTypes
  <2>3. InOrder(buf[d], off[d], out[d], rd[From(d)])
    BY DEF RelayInv, Copied
  <2> QED BY <2>1, <2>2, <2>3, AllInOrder
<1> QED BY <1>1, RelayInvariant, PTL

\* pipling ends in end of file only after everything the closed peer sent was handed over.
THEOREM RelayEof == RelaySpec => []EofDelivered
<1>1. RelayInv => EofDelivered
  <2> SUFFICES ASSUME RelayInv, NEW d \in Dir, eof[d]
               PROVE  From(d) \in closed /\ Len(out[d]) = sent[From(d)]
    BY DEF EofDelivered
  <2>1. /\ Empty(d) /\ From(d) \in closed /\ rd[From(d)] = sent[From(d)]
        /\ Len(out[d]) + (Len(buf[d]) - off[d]) = rd[From(d)]
    BY DEF RelayInv, Copied, InOrder, Drained
  <2>2. Len(out[d]) \in Nat /\ Len(buf[d]) \in Nat
    BY DEF RelayInv, RelayTypes
  <2> QED BY <2>1, <2>2 DEF Empty
<1> QED BY <1>1, RelayInvariant, PTL
===============================================================================
