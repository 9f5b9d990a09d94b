--------------------------- MODULE TxCatPortProofs ----------------------------
(***************************************************************************)
(* Proofs about TxCatPort, for any number of worker threads and whether or *)
(* not operations can be posted.  The argument: each IO_DATA is in one     *)
(* place only (the kernel, a packet in the port, a thread), so that its    *)
(* buffer is filled and emptied in turn.                                   *)
(***************************************************************************)
EXTENDS TxCatPort, TxQueue, FiniteSetTheorems, SequenceTheorems, TLAPS

USE CatAssumption

Io == {"recv", "send"}
PacketSet == [io : Io \cup {"quit"}, len : {0, 1}, ok : BOOLEAN]

\* A packet of an IO_DATA is in the port, and no second one.
Has(q, io) == \E p \in PacketSet : Contains(q, p) /\ p.io = io
Lone(q, io) == \A i, j \in 1..Len(q) : q[i].io = io /\ q[j].io = io => i = j

\* A thread has taken the packet of an IO_DATA and not posted the next operation.
Works(t, io) == \/ io = "recv" /\ at[t] \in {"write", "recv"}
                \/ io = "send" /\ at[t] = "stdin"

CatTypes ==
    /\ port \in Seq(PacketSet)
    /\ posted \in [Io -> {0, 1}]
    /\ aiobuf \in [Io -> Nat]
    /\ at \in [Thread -> {"wait", "write", "recv", "stdin"}]
    /\ exited \in BOOLEAN
    /\ net \in Nat /\ netRead \in Nat /\ stdin \in Nat
    /\ stdout \in Seq(Nat) /\ netOut \in Seq(Nat)
    /\ \A p \in PacketSet : Contains(port, p) /\ p.io = "quit" => p = quit

\* An IO_DATA is in one place at most.
OnePlace(io) ==
    /\ Lone(port, io)
    /\ \A t, u \in Thread : Works(t, io) /\ Works(u, io) => t = u
    /\ Has(port, io) => posted[io] = 0
    /\ \A t \in Thread : Works(t, io) => posted[io] = 0 /\ ~Has(port, io)

Ordered(s) == \A i \in 1..Len(s) : s[i] = i

\* The buffer of the receiving IO_DATA holds an item that is not on stdout yet.
RecvFull == \/ \E t \in Thread : at[t] = "write"
            \/ \E p \in PacketSet : Contains(port, p) /\ p.io = "recv" /\ p.len = 1

RecvAnywhere == \/ posted["recv"] = 1 \/ Has(port, "recv")
                \/ \E t \in Thread : Works(t, "recv")

Ending == exited \/ Contains(port, quit)

\* An item is lost only by a WriteFile that failed: then the process is ending, and
\* nobody receives again.
RecvInv ==
    /\ Ordered(stdout)
    /\ RecvFull => aiobuf["recv"] = netRead /\ netRead = Len(stdout) + 1
    /\ ~RecvFull => netRead = Len(stdout) \/ (Ending /\ ~RecvAnywhere)

\* The send posted by main is empty; every other one holds the last item of stdin.
SendInv ==
    /\ Ordered(netOut)
    /\ posted["send"] = 1 => /\ aiobuf["send"] = stdin
                             /\ Len(netOut) = (IF stdin = 0 THEN 0 ELSE stdin - 1)
    /\ \A t \in Thread : at[t] = "stdin" => Len(netOut) = stdin
    /\ \A p \in PacketSet : Contains(port, p) /\ p.io = "send" /\ p.ok => Len(netOut) = stdin

IndInv == /\ CatTypes
          /\ OnePlace("recv") /\ OnePlace("send")
          /\ RecvInv /\ SendInv
-----------------------------------------------------------------------------
(* The port.                                                               *)

\* The packets of this program.
LEMMA Packets ==
    /\ quit \in PacketSet /\ quit.io = "quit" /\ quit.ok
    /\ \A io \in Io, len \in {0, 1}, ok \in BOOLEAN :
          /\ Packet(io, len, ok) \in PacketSet
          /\ Packet(io, len, ok).io = io /\ Packet(io, len, ok).len = len
          /\ Packet(io, len, ok).ok = ok
          /\ Packet(io, len, ok) # quit
BY DEF quit, Packet, PacketSet, Io

\* PostQueuedCompletionStatus of one packet.
LEMMA AppendPacket ==
    ASSUME NEW q \in Seq(PacketSet), NEW p \in PacketSet
    PROVE  /\ Append(q, p) \in Seq(PacketSet)
           /\ \A x : Contains(Append(q, p), x) <=> Contains(q, x) \/ x = p
           /\ \A io : Has(Append(q, p), io) <=> Has(q, io) \/ p.io = io
           /\ \A io : Lone(q, io) /\ ~(Has(q, io) /\ p.io = io) => Lone(Append(q, p), io)
<1> DEFINE r == Append(q, p)
<1>1. /\ r \in Seq(PacketSet) /\ Len(q) \in Nat /\ Len(r) = Len(q) + 1
      /\ \A i \in 1..Len(q) : r[i] = q[i] /\ q[i] \in PacketSet
      /\ r[Len(q) + 1] = p
  OBVIOUS
<1> HIDE DEF r
<1>2. \A x : Contains(r, x) <=> Contains(q, x) \/ x = p
  <2> TAKE x
  <2>1. ASSUME Contains(r, x) PROVE Contains(q, x) \/ x = p
    <3>1. PICK i \in 1..Len(r) : r[i] = x
      BY <2>1 DEF Contains
    <3>2. i \in 1..Len(q) \/ i = Len(q) + 1
      BY <1>1
    <3> QED BY <1>1, <3>1, <3>2 DEF Contains
  <2>2. ASSUME Contains(q, x) PROVE Contains(r, x)
    <3>1. PICK i \in 1..Len(q) : q[i] = x
      BY <2>2 DEF Contains
    <3>2. i \in 1..Len(r) /\ r[i] = x
      BY <1>1, <3>1
    <3> QED BY <3>2 DEF Contains
  <2>3. Contains(r, p)
    <3>1. Len(q) + 1 \in 1..Len(r)
      BY <1>1
    <3> QED BY <1>1, <3>1 DEF Contains
  <2> QED BY <2>1, <2>2, <2>3
<1>3. \A io : Has(r, io) <=> Has(q, io) \/ p.io = io
  BY <1>2 DEF Has
<1>4. ASSUME NEW io, Lone(q, io), ~(Has(q, io) /\ p.io = io)
      PROVE  Lone(r, io)
  <2> SUFFICES ASSUME NEW i \in 1..Len(r), NEW j \in 1..Len(r), r[i].io = io, r[j].io = io
               PROVE  i = j
    BY DEF Lone
  <2>1. \A k \in 1..Len(q) : q[k].io = io => Has(q, io)
    BY <1>1 DEF Has, Contains
  <2>2. (i \in 1..Len(q) \/ i = Len(q) + 1) /\ (j \in 1..Len(q) \/ j = Len(q) + 1)
    BY <1>1
  <2> QED BY <1>1, <1>4, <2>1, <2>2 DEF Lone
<1> QED BY <1>1, <1>2, <1>3, <1>4 DEF r

\* GetQueuedCompletionStatus takes the oldest packet.
LEMMA TakePacket ==
    ASSUME NEW q \in Seq(PacketSet), q # <<>>
    PROVE  /\ Tail(q) \in Seq(PacketSet) /\ Head(q) \in PacketSet /\ Contains(q, Head(q))
           /\ \A x : Contains(q, x) <=> x = Head(q) \/ Contains(Tail(q), x)
           /\ \A io : Has(q, io) <=> Head(q).io = io \/ Has(Tail(q), io)
           /\ \A io : Lone(q, io) => Lone(Tail(q), io) /\ ~(Head(q).io = io /\ Has(Tail(q), io))
<1> DEFINE r == Tail(q)
           h == Head(q)
<1>1. /\ r \in Seq(PacketSet) /\ Len(r) \in Nat /\ Len(q) = Len(r) + 1
      /\ \A i \in 1..Len(r) : r[i] = q[i + 1] /\ i + 1 \in 1..Len(q)
      /\ h = q[1] /\ 1 \in 1..Len(q) /\ h \in PacketSet
  OBVIOUS
<1> HIDE DEF r, h
<1>2. \A x : Contains(q, x) <=> x = h \/ Contains(r, x)
  <2> TAKE x
  <2>1. ASSUME Contains(q, x), x # h PROVE Contains(r, x)
    <3>1. PICK i \in 1..Len(q) : q[i] = x
      BY <2>1 DEF Contains
    <3>2. i # 1
      BY <1>1, <2>1, <3>1
    <3>3. i - 1 \in 1..Len(r) /\ (i - 1) + 1 = i
      BY <1>1, <3>2
    <3>4. r[i - 1] = x
      BY <1>1, <3>1, <3>3
    <3> QED BY <3>3, <3>4 DEF Contains
  <2>2. ASSUME Contains(r, x) PROVE Contains(q, x)
    <3>1. PICK i \in 1..Len(r) : r[i] = x
      BY <2>2 DEF Contains
    <3> QED BY <1>1, <3>1 DEF Contains
  <2> QED BY <1>1, <2>1, <2>2 DEF Contains
<1>3. \A io : Has(q, io) <=> h.io = io \/ Has(r, io)
  BY <1>1, <1>2 DEF Has
<1>4. ASSUME NEW io, Lone(q, io) PROVE Lone(r, io) /\ ~(h.io = io /\ Has(r, io))
  <2>1. Lone(r, io)
    <3> SUFFICES ASSUME NEW i \in 1..Len(r), NEW j \in 1..Len(r), r[i].io = io, r[j].io = io
                 PROVE  i = j
      BY DEF Lone
    <3>1. i + 1 = j + 1
      BY <1>1, <1>4 DEF Lone
    <3> QED BY <1>1, <3>1
  <2>2. ASSUME h.io = io, Has(r, io) PROVE FALSE
    <3>1. PICK i \in 1..Len(r) : r[i].io = io
      BY <2>2 DEF Has, Contains
    <3>2. i + 1 = 1
      BY <1>1, <1>4, <2>2, <3>1 DEF Lone
    <3> QED BY <1>1, <3>2
  <2> QED BY <2>1, <2>2
<1> QED BY <1>1, <1>2, <1>3, <1>4 DEF r, h

\* do_post_quit adds quit packets, one at least, and no other.
LEMMA QuitPackets ==
    ASSUME NEW q \in Seq(PacketSet)
    PROVE  /\ do_post_quit(q) \in Seq(PacketSet)
           /\ \A x : Contains(do_post_quit(q), x) <=> Contains(q, x) \/ x = quit
           /\ \A io \in Io : Has(do_post_quit(q), io) <=> Has(q, io)
           /\ \A io \in Io : Lone(q, io) => Lone(do_post_quit(q), io)
<1> DEFINE n == Cardinality(Thread)
           s == [i \in 1..n |-> quit]
           r == do_post_quit(q)
<1>1. n \in Nat \ {0}
  BY FS_CardinalityType, FS_EmptySet
<1> HIDE DEF n
<1>2. s \in Seq(PacketSet) /\ Len(s) = n
  BY <1>1, Packets
<1>3. \A i \in 1..n : s[i] = quit
  OBVIOUS
<1>4. r = q \o s
  BY DEF do_post_quit, n
<1> HIDE DEF s, r
<1>5. /\ r \in Seq(PacketSet) /\ Len(q) \in Nat /\ Len(r) = Len(q) + n
      /\ \A i \in 1..Len(q) : r[i] = q[i] /\ q[i] \in PacketSet
  <2>1. /\ q \o s \in Seq(PacketSet) /\ Len(q \o s) = Len(q) + Len(s)
        /\ \A i \in 1..Len(q) + Len(s) : (q \o s)[i] = IF i <= Len(q) THEN q[i] ELSE s[i - Len(q)]
    BY <1>2, ConcatProperties, Zenon
  <2>2. Len(q) \in Nat
    OBVIOUS
  <2>3. \A i \in 1..Len(q) : r[i] = q[i]
    BY <1>1, <1>2, <1>4, <2>1, <2>2
  <2> QED BY <1>2, <1>4, <2>1, <2>2, <2>3
<1>6. \A i \in 1..Len(r) : i \notin 1..Len(q) => r[i] = quit
  <2> SUFFICES ASSUME NEW i \in 1..Len(r), i \notin 1..Len(q) PROVE r[i] = quit
    OBVIOUS
  <2>1. i - Len(q) \in 1..n
    BY <1>1, <1>5
  <2>2. r[i] = s[i - Len(q)]
    BY <1>1, <1>2, <1>4, <1>5, <2>1
  <2> QED BY <1>3, <2>1, <2>2
<1>7. \A x : Contains(r, x) <=> Contains(q, x) \/ x = quit
  <2> TAKE x
  <2>1. ASSUME Contains(r, x) PROVE Contains(q, x) \/ x = quit
    BY <1>5, <1>6, <2>1 DEF Contains
  <2>2. ASSUME Contains(q, x) PROVE Contains(r, x)
    <3>1. PICK i \in 1..Len(q) : q[i] = x
      BY <2>2 DEF Contains
    <3>2. i \in 1..Len(r) /\ r[i] = x
      BY <1>1, <1>5, <3>1
    <3> QED BY <3>2 DEF Contains
  <2>3. Contains(r, quit)
    <3>1. Len(r) \in 1..Len(r) /\ Len(r) \notin 1..Len(q)
      BY <1>1, <1>5
    <3> QED BY <1>6, <3>1 DEF Contains
  <2> QED BY <2>1, <2>2, <2>3
<1>8. ASSUME NEW io \in Io PROVE Has(r, io) <=> Has(q, io)
  BY <1>7, Packets DEF Has, Io
<1>9. ASSUME NEW io \in Io, Lone(q, io) PROVE Lone(r, io)
  <2>1. \A i \in 1..Len(r) : r[i].io = io => i \in 1..Len(q) /\ q[i].io = io
    BY <1>5, <1>6, Packets DEF Io
  <2> QED BY <1>9, <2>1 DEF Lone
<1> QED BY <1>5, <1>7, <1>8, <1>9 DEF r
-----------------------------------------------------------------------------
(* Every step keeps IndInv.                                                *)

\* main has posted a receive and an empty send.
LEMMA InitIndInv == Init => IndInv
<1> SUFFICES ASSUME Init PROVE IndInv
  OBVIOUS
<1>1. /\ port = <<>> /\ posted = [recv |-> 1, send |-> 1] /\ aiobuf = [io \in Io |-> 0]
      /\ at = [t \in Thread |-> "wait"] /\ exited = FALSE
      /\ net = 0 /\ netRead = 0 /\ stdin = 0 /\ stdout = <<>> /\ netOut = <<>>
  BY DEF Init, PostedByMain, Io
<1>2. (\A x : ~Contains(<<>>, x)) /\ \A io : ~Has(<<>>, io) /\ Lone(<<>>, io)
  BY DEF Contains, Has, Lone
<1>3. posted["recv"] = 1 /\ posted["send"] = 1 /\ posted \in [Io -> {0, 1}]
  BY <1>1 DEF Io
<1>4. CatTypes
  <2>1. aiobuf \in [Io -> Nat] /\ at \in [Thread -> {"wait", "write", "recv", "stdin"}]
    BY <1>1
  <2>2. port \in Seq(PacketSet) /\ stdout \in Seq(Nat) /\ netOut \in Seq(Nat)
    BY <1>1
  <2> QED BY <1>1, <1>2, <1>3, <2>1, <2>2 DEF CatTypes
<1>5. \A t \in Thread : ~Works(t, "recv") /\ ~Works(t, "send") /\ at[t] = "wait"
  BY <1>1 DEF Works
<1>6. OnePlace("recv") /\ OnePlace("send")
  BY <1>1, <1>2, <1>5 DEF OnePlace
<1>7. Ordered(<<>>)
  BY DEF Ordered
<1>8. RecvInv
  BY <1>1, <1>2, <1>5, <1>7 DEF RecvInv, RecvFull
<1>9. SendInv
  BY <1>1, <1>2, <1>3, <1>5, <1>7 DEF SendInv, Io
<1> QED BY <1>4, <1>6, <1>8, <1>9 DEF IndInv

\* The next item goes behind those that are in order.
LEMMA NextItem ==
    ASSUME NEW s \in Seq(Nat), Ordered(s), NEW x \in Nat, x = Len(s) + 1
    PROVE  Append(s, x) \in Seq(Nat) /\ Ordered(Append(s, x)) /\ Len(Append(s, x)) = Len(s) + 1
BY DEF Ordered

\* What the peer does changes nothing that the invariant speaks of, except net.
LEMMA PeerInv ==
    ASSUME IndInv, PeerSends \/ PeerCloses
    PROVE  IndInv'
<1>1. /\ UNCHANGED <<port, posted, aiobuf, at, exited, netRead, stdin, stdout, netOut>>
      /\ net' \in Nat
  BY DEF PeerSends, PeerCloses, IndInv, CatTypes
<1> USE DEF IndInv
<1>2. CatTypes'
  BY <1>1 DEF CatTypes
<1>3. OnePlace("recv")' /\ OnePlace("send")'
  BY <1>1 DEF OnePlace, Works
<1>4. RecvInv' /\ SendInv'
  BY <1>1 DEF RecvInv, SendInv, RecvFull, RecvAnywhere, Ending, Works
<1> QED BY <1>2, <1>3, <1>4

\* An operation that ends passes its IO_DATA from the kernel to the port.
LEMMA EndsFacts ==
    ASSUME IndInv, NEW io \in Io, NEW len \in {0, 1}, NEW ok \in BOOLEAN, Ends(io, len, ok)
    PROVE  /\ posted[io] = 1 /\ posted'[io] = 0 /\ posted' \in [Io -> {0, 1}]
           /\ \A jo \in Io : jo # io => posted'[jo] = posted[jo]
           /\ port' \in Seq(PacketSet)
           /\ \A x : Contains(port', x) <=> Contains(port, x) \/ x = Packet(io, len, ok)
           /\ \A x \in PacketSet : Contains(port, x) => x.io # io
           /\ \A t \in Thread : ~Works(t, io)
           /\ OnePlace("recv")' /\ OnePlace("send")'
           /\ UNCHANGED <<at, exited, net, stdin, stdout>>
<1> DEFINE p == Packet(io, len, ok)
<1>1. p \in PacketSet /\ p.io = io
  BY Packets
<1>2. /\ port' = Append(port, p) /\ posted[io] > 0 /\ posted' = [posted EXCEPT ![io] = @ - 1]
      /\ UNCHANGED <<at, exited, net, stdin, stdout>>
  BY DEF Ends
<1> HIDE DEF p
<1>3. /\ port \in Seq(PacketSet) /\ posted \in [Io -> {0, 1}]
      /\ OnePlace("recv") /\ OnePlace("send")
  BY DEF IndInv, CatTypes
<1>4. OnePlace(io)
  BY <1>3 DEF Io
<1>5. /\ posted[io] = 1 /\ posted'[io] = 0 /\ posted' \in [Io -> {0, 1}]
      /\ \A jo \in Io : jo # io => posted'[jo] = posted[jo]
  BY <1>2, <1>3
<1>6. ~Has(port, io) /\ \A t \in Thread : ~Works(t, io)
  BY <1>4, <1>5 DEF OnePlace
<1>7. /\ port' \in Seq(PacketSet)
      /\ \A x : Contains(port', x) <=> Contains(port, x) \/ x = p
      /\ \A jo : Has(port', jo) <=> Has(port, jo) \/ io = jo
      /\ \A jo : Lone(port, jo) /\ ~(Has(port, jo) /\ io = jo) => Lone(port', jo)
  BY <1>1, <1>2, <1>3, AppendPacket
<1>8. ASSUME NEW jo \in Io, OnePlace(jo) PROVE OnePlace(jo)'
  <2>1. \A t \in Thread : Works(t, jo)' <=> Works(t, jo)
    BY <1>2 DEF Works
  <2> QED BY <1>5, <1>6, <1>7, <1>8, <2>1 DEF OnePlace
<1>9. \A x \in PacketSet : Contains(port, x) => x.io # io
  BY <1>6 DEF Has
<1>10. OnePlace("recv")' /\ OnePlace("send")'
  BY <1>3, <1>8 DEF Io
<1> QED BY <1>2, <1>5, <1>6, <1>7, <1>9, <1>10 DEF p

\* WSARecv ends: with data, which it reads into an empty buffer, or without.
LEMMA RecvEndsInv ==
    ASSUME IndInv, RecvEnds
    PROVE  IndInv'
<1>0. "recv" \in Io /\ "send" \in Io
  BY DEF Io
<1>1. PICK len \in {0, 1}, ok \in BOOLEAN :
        /\ Ends("recv", len, ok) /\ netOut' = netOut
        /\ \/ /\ len = 1 /\ netRead' = netRead + 1
              /\ aiobuf' = [aiobuf EXCEPT !["recv"] = netRead']
           \/ len = 0 /\ UNCHANGED <<netRead, aiobuf>>
  BY DEF RecvEnds
<1> DEFINE p == Packet("recv", len, ok)
<1>2. p \in PacketSet /\ p.io = "recv" /\ p.len = len /\ p # quit
  BY <1>0, Packets
<1>3. /\ posted["recv"] = 1 /\ posted'["recv"] = 0 /\ posted' \in [Io -> {0, 1}]
      /\ posted'["send"] = posted["send"]
      /\ port' \in Seq(PacketSet)
      /\ \A x : Contains(port', x) <=> Contains(port, x) \/ x = p
      /\ \A x \in PacketSet : Contains(port, x) => x.io # "recv"
      /\ \A t \in Thread : ~Works(t, "recv")
      /\ OnePlace("recv")' /\ OnePlace("send")'
      /\ UNCHANGED <<at, exited, net, stdin, stdout>>
  BY <1>0, <1>1, EndsFacts
<1> HIDE DEF p
<1>4. /\ aiobuf' \in [Io -> Nat] /\ aiobuf'["send"] = aiobuf["send"] /\ netRead' \in Nat
      /\ netRead \in Nat /\ aiobuf \in [Io -> Nat]
      /\ len = 1 => aiobuf'["recv"] = netRead' /\ netRead' = netRead + 1
      /\ len = 0 => netRead' = netRead
  <2>1. netRead \in Nat /\ aiobuf \in [Io -> Nat]
    BY DEF IndInv, CatTypes
  <2>2. CASE len = 1
    <3>1. netRead' = netRead + 1 /\ aiobuf' = [aiobuf EXCEPT !["recv"] = netRead']
      BY <1>1, <2>2
    <3> QED BY <1>0, <2>1, <2>2, <3>1
  <2>3. CASE len = 0
    <3>1. netRead' = netRead /\ aiobuf' = aiobuf
      BY <1>1, <2>3
    <3> QED BY <2>1, <2>3, <3>1
  <2> QED BY <2>2, <2>3
<1>5. CatTypes'
  BY <1>1, <1>2, <1>3, <1>4 DEF IndInv, CatTypes
<1>6. ~RecvFull /\ netRead = Len(stdout) /\ Ordered(stdout)
  <2>1. ~RecvFull
    BY <1>3 DEF RecvFull, Works
  <2> QED BY <1>3, <2>1 DEF IndInv, RecvInv, RecvAnywhere
<1>7. RecvFull' <=> len = 1
  <2>1. \A t \in Thread : at'[t] # "write"
    BY <1>3 DEF Works
  <2>2. RecvFull' <=> \E x \in PacketSet : Contains(port', x) /\ x.io = "recv" /\ x.len = 1
    BY <2>1 DEF RecvFull
  <2> QED BY <1>2, <1>3, <2>2
<1>8. RecvInv'
  BY <1>1, <1>3, <1>4, <1>6, <1>7 DEF RecvInv
<1>9. SendInv'
  BY <1>1, <1>2, <1>3, <1>4 DEF IndInv, SendInv
<1> QED BY <1>3, <1>5, <1>8, <1>9 DEF IndInv

\* WSASend ends: the item in its buffer, if main's first send is over, is sent.
LEMMA SendEndsInv ==
    ASSUME IndInv, SendEnds
    PROVE  IndInv'
<1>0. "recv" \in Io /\ "send" \in Io
  BY DEF Io
<1>1. PICK len \in {0, 1}, ok \in BOOLEAN :
        /\ Ends("send", len, ok) /\ UNCHANGED <<aiobuf, netRead>>
        /\ \/ ok /\ netOut' = IF aiobuf["send"] = 0 THEN netOut ELSE Append(netOut, aiobuf["send"])
           \/ ~ok /\ netOut' = netOut
  BY DEF SendEnds
<1> DEFINE p == Packet("send", len, ok)
<1>2. p \in PacketSet /\ p.io = "send" /\ p.ok = ok /\ p # quit
  BY <1>0, Packets
<1>3. /\ posted["send"] = 1 /\ posted'["send"] = 0 /\ posted' \in [Io -> {0, 1}]
      /\ posted'["recv"] = posted["recv"]
      /\ port' \in Seq(PacketSet)
      /\ \A x : Contains(port', x) <=> Contains(port, x) \/ x = p
      /\ \A x \in PacketSet : Contains(port, x) => x.io # "send"
      /\ \A t \in Thread : ~Works(t, "send")
      /\ OnePlace("recv")' /\ OnePlace("send")'
      /\ UNCHANGED <<at, exited, net, stdin, stdout>>
  BY <1>0, <1>1, EndsFacts
<1> HIDE DEF p
<1>4. /\ netOut \in Seq(Nat) /\ Ordered(netOut) /\ aiobuf["send"] = stdin /\ stdin \in Nat
      /\ Len(netOut) = IF stdin = 0 THEN 0 ELSE stdin - 1
  BY <1>3 DEF IndInv, CatTypes, SendInv
<1>5. netOut' \in Seq(Nat) /\ Ordered(netOut') /\ (ok => Len(netOut') = stdin)
  <2>1. CASE ok /\ stdin # 0
    <3>1. netOut' = Append(netOut, stdin) /\ stdin = Len(netOut) + 1
      BY <1>1, <1>4, <2>1
    <3> QED BY <1>4, <3>1, NextItem
  <2>2. CASE ~(ok /\ stdin # 0)
    BY <1>1, <1>4, <2>2
  <2> QED BY <2>1, <2>2
<1>6. CatTypes'
  BY <1>1, <1>2, <1>3, <1>5 DEF IndInv, CatTypes
<1>7. RecvInv'
  <2>1. RecvFull' <=> RecvFull
    BY <1>2, <1>3 DEF RecvFull
  <2>2. Has(port', "recv") <=> Has(port, "recv")
    BY <1>2, <1>3 DEF Has
  <2>3. RecvAnywhere' <=> RecvAnywhere
    BY <1>3, <2>2 DEF RecvAnywhere, Works
  <2>4. Ending => Ending'
    BY <1>3 DEF Ending
  <2> QED BY <1>1, <1>3, <2>1, <2>3, <2>4 DEF IndInv, RecvInv
<1>8. SendInv'
  <2>1. \A t \in Thread : at'[t] # "stdin"
    BY <1>3 DEF Works
  <2>2. \A x \in PacketSet : Contains(port', x) /\ x.io = "send" => x = p
    BY <1>3
  <2> QED BY <1>2, <1>3, <1>5, <2>1, <2>2 DEF SendInv
<1> QED BY <1>3, <1>6, <1>7, <1>8 DEF IndInv

\* A thread goes on, and the others stay where they are.
LEMMA GotoFacts ==
    ASSUME IndInv, NEW t \in Thread, NEW l \in {"wait", "write", "recv", "stdin"}, Goto(t, l)
    PROVE  /\ at' \in [Thread -> {"wait", "write", "recv", "stdin"}]
           /\ at'[t] = l
           /\ \A u \in Thread : u # t => at'[u] = at[u]
           /\ \A u \in Thread : \A io : u # t => (Works(u, io)' <=> Works(u, io))
<1>1. at \in [Thread -> {"wait", "write", "recv", "stdin"}]
  BY DEF IndInv, CatTypes
<1> QED BY <1>1 DEF Goto, Works

\* Posting the next operation hands the IO_DATA of a thread to the kernel, or loses it.
LEMMA PostFacts ==
    ASSUME IndInv, NEW io \in Io, posted[io] = 0, Post(io)
    PROVE  /\ posted' \in [Io -> {0, 1}]
           /\ \A jo \in Io : jo # io => posted'[jo] = posted[jo]
BY DEF Post, IndInv, CatTypes

\* A step that leaves a direction alone keeps its part of the invariant.
LEMMA RecvKept ==
    ASSUME RecvInv, UNCHANGED <<netRead, stdout>>, aiobuf'["recv"] = aiobuf["recv"],
           RecvFull' <=> RecvFull, RecvAnywhere' => RecvAnywhere, Ending => Ending'
    PROVE  RecvInv'
BY DEF RecvInv

LEMMA SendKept ==
    ASSUME SendInv, UNCHANGED <<stdin, netOut>>,
           posted'["send"] = 1 => posted["send"] = 1 /\ aiobuf'["send"] = aiobuf["send"],
           \A t \in Thread : at'[t] = "stdin" => at[t] = "stdin",
           \A p \in PacketSet : p.io = "send" /\ Contains(port', p) => Contains(port, p)
    PROVE  SendInv'
BY DEF SendInv

\* A thread at "write" or "recv" has the receiving IO_DATA to itself.
LEMMA WorksAlone ==
    ASSUME IndInv, NEW t \in Thread, NEW io \in Io, Works(t, io)
    PROVE  /\ posted[io] = 0 /\ ~Has(port, io)
           /\ \A p \in PacketSet : Contains(port, p) => p.io # io
           /\ \A u \in Thread : u # t => ~Works(u, io)
<1>1. OnePlace(io)
  BY DEF IndInv, Io
<1> QED BY <1>1 DEF OnePlace, Has

\* What a thread does with its own IO_DATA keeps every IO_DATA in one place: it goes on
\* with it, or hands it to the kernel, or gives it up.
LEMMA WorkerPlaces ==
    ASSUME IndInv, NEW t \in Thread, NEW io \in Io, Works(t, io),
           NEW l \in {"wait", "write", "recv", "stdin"}, Goto(t, l),
           Works(t, io)' \/ l = "wait",
           Works(t, io)' => posted' = posted,
           \A jo \in Io : jo # io => ~Works(t, jo)' /\ posted'[jo] = posted[jo],
           port' = port \/ port' = do_post_quit(port)
    PROVE  /\ OnePlace("recv")' /\ OnePlace("send")'
           /\ port' \in Seq(PacketSet)
           /\ \A x \in PacketSet : x.io \in Io => (Contains(port', x) <=> Contains(port, x))
           /\ \A x \in PacketSet : Contains(port', x) /\ x.io = "quit" => x = quit
           /\ Contains(port, quit) => Contains(port', quit)
<1>1. port \in Seq(PacketSet) /\ \A x \in PacketSet : Contains(port, x) /\ x.io = "quit" => x = quit
  BY DEF IndInv, CatTypes
<1>2. /\ port' \in Seq(PacketSet)
      /\ \A jo \in Io : Has(port', jo) <=> Has(port, jo)
      /\ \A jo \in Io : Lone(port, jo) => Lone(port', jo)
      /\ \A x : Contains(port', x) => Contains(port, x) \/ x = quit
      /\ \A x : Contains(port, x) => Contains(port', x)
  BY <1>1, QuitPackets
<1>3. \A x \in PacketSet : x.io \in Io => (Contains(port', x) <=> Contains(port, x))
  BY <1>2, Packets DEF Io
<1>4. \A u \in Thread : \A jo : u # t => (Works(u, jo)' <=> Works(u, jo))
  BY GotoFacts
<1>5. /\ posted[io] = 0 /\ ~Has(port, io) /\ \A u \in Thread : u # t => ~Works(u, io)
  BY WorksAlone
<1>6. l = "wait" => ~Works(t, io)'
  BY GotoFacts DEF Works
<1>7. OnePlace(io)'
  BY <1>2, <1>4, <1>5, <1>6 DEF OnePlace, IndInv, Io
<1>8. ASSUME NEW jo \in Io, jo # io PROVE OnePlace(jo)'
  <2>1. OnePlace(jo)
    BY DEF IndInv, Io
  <2> QED BY <1>2, <1>4, <1>8, <2>1 DEF OnePlace
<1>9. OnePlace("recv")' /\ OnePlace("send")'
  BY <1>7, <1>8 DEF Io
<1> QED BY <1>1, <1>2, <1>3, <1>9

\* WriteFile: the item is on stdout, or the process is ending and no one receives again.
LEMMA WriteOutInv ==
    ASSUME IndInv, NEW t \in Thread, WriteOut(t)
    PROVE  IndInv'
<1>1. PICK l \in {"wait", "recv"} :
        /\ Goto(t, l) /\ at[t] = "write"
        /\ UNCHANGED <<posted, aiobuf, exited, net, netRead, stdin, netOut>>
        /\ \/ l = "recv" /\ stdout' = Append(stdout, aiobuf["recv"]) /\ port' = port
           \/ l = "wait" /\ stdout' = stdout /\ port' = do_post_quit(port)
  BY DEF WriteOut, CopyEnds
<1>2. Works(t, "recv") /\ "recv" \in Io
  BY <1>1 DEF Works, Io
<1>3. /\ at' \in [Thread -> {"wait", "write", "recv", "stdin"}] /\ at'[t] = l
      /\ \A u \in Thread : u # t => at'[u] = at[u]
      /\ \A u \in Thread : \A io : u # t => (Works(u, io)' <=> Works(u, io))
  BY <1>1, GotoFacts
<1>4. /\ OnePlace("recv")' /\ OnePlace("send")'
      /\ port' \in Seq(PacketSet)
      /\ \A x \in PacketSet : x.io \in Io => (Contains(port', x) <=> Contains(port, x))
      /\ \A x \in PacketSet : Contains(port', x) /\ x.io = "quit" => x = quit
      /\ Contains(port, quit) => Contains(port', quit)
  <2>1. Works(t, "recv")' \/ l = "wait"
    BY <1>1, <1>3 DEF Works
  <2>2. \A io \in Io : io # "recv" => ~Works(t, io)' /\ posted'[io] = posted[io]
    BY <1>1, <1>3 DEF Works, Io
  <2> QED BY <1>1, <1>2, <2>1, <2>2, WorkerPlaces
<1>5. /\ posted["recv"] = 0
      /\ \A x \in PacketSet : Contains(port, x) => x.io # "recv"
      /\ \A u \in Thread : u # t => ~Works(u, "recv")
  BY <1>2, WorksAlone
<1>6. RecvFull /\ aiobuf["recv"] = netRead /\ netRead = Len(stdout) + 1 /\ netRead \in Nat
      /\ stdout \in Seq(Nat) /\ Ordered(stdout)
  <2>1. RecvFull
    BY <1>1 DEF RecvFull
  <2> QED BY <2>1 DEF IndInv, CatTypes, RecvInv
<1>7. ~RecvFull'
  <2>1. \A u \in Thread : at'[u] # "write"
    BY <1>3, <1>5 DEF Works
  <2>2. \A x \in PacketSet : Contains(port', x) => x.io # "recv"
    BY <1>2, <1>4, <1>5
  <2> QED BY <2>1, <2>2 DEF RecvFull
<1>8. stdout' \in Seq(Nat) /\ RecvInv'
  <2>1. CASE l = "recv"
    <3>1. stdout' = Append(stdout, netRead)
      BY <1>1, <1>6, <2>1
    <3>2. stdout' \in Seq(Nat) /\ Ordered(stdout') /\ Len(stdout') = Len(stdout) + 1
      BY <1>6, <3>1, NextItem
    <3> QED BY <1>1, <1>6, <1>7, <3>2 DEF RecvInv
  <2>2. CASE l = "wait"
    <3>1. stdout' = stdout /\ port' = do_post_quit(port)
      BY <1>1, <2>2
    <3>2. Contains(port', quit)
      BY <3>1, QuitPackets DEF IndInv, CatTypes
    <3>3. ~Has(port', "recv")
      BY <1>2, <1>4, <1>5 DEF Has
    <3>4. \A u \in Thread : ~Works(u, "recv")'
      <4>1. ~Works(t, "recv")'
        BY <1>3, <2>2 DEF Works
      <4> QED BY <1>3, <1>5, <4>1
    <3>5. Ending' /\ ~RecvAnywhere'
      BY <1>1, <1>5, <3>2, <3>3, <3>4 DEF Ending, RecvAnywhere
    <3> QED BY <1>1, <1>6, <1>7, <3>1, <3>5 DEF RecvInv
  <2> QED BY <2>1, <2>2
<1>9. SendInv'
  <2>1. \A u \in Thread : at'[u] = "stdin" => at[u] = "stdin"
    BY <1>3
  <2> QED BY <1>1, <1>4, <2>1, SendKept DEF IndInv, Io
<1>10. CatTypes'
  BY <1>1, <1>3, <1>4, <1>8 DEF IndInv, CatTypes
<1> QED BY <1>4, <1>8, <1>9, <1>10 DEF IndInv

\* recv: the next item is read into the buffer that was emptied, or a receive is posted,
\* or the copying ends.
LEMMA RecvMoreInv ==
    ASSUME IndInv, NEW t \in Thread, RecvMore(t)
    PROVE  IndInv'
<1>0. "recv" \in Io /\ "send" \in Io
  BY DEF Io
<1>1. Works(t, "recv") /\ at[t] = "recv"
  BY DEF RecvMore, Works
<1>2. /\ posted["recv"] = 0
      /\ \A x \in PacketSet : Contains(port, x) => x.io # "recv"
      /\ \A u \in Thread : u # t => ~Works(u, "recv")
  BY <1>0, <1>1, WorksAlone
<1>3. PICK l \in {"wait", "write"} :
        /\ Goto(t, l)
        /\ UNCHANGED <<exited, net, stdin, stdout, netOut>>
        /\ port' = port \/ port' = do_post_quit(port)
        /\ posted' \in [Io -> {0, 1}] /\ posted'["send"] = posted["send"]
        /\ \/ /\ l = "write" /\ netRead' = netRead + 1 /\ posted' = posted
              /\ aiobuf' = [aiobuf EXCEPT !["recv"] = netRead']
           \/ l = "wait" /\ UNCHANGED <<aiobuf, netRead>>
  <2>1. posted \in [Io -> {0, 1}]
    BY DEF IndInv, CatTypes
  <2>2. Post("recv") => posted' \in [Io -> {0, 1}] /\ posted'["send"] = posted["send"]
    BY <1>0, <1>2, PostFacts
  <2> QED BY <2>1, <2>2 DEF RecvMore, CopyEnds
<1>4. /\ at' \in [Thread -> {"wait", "write", "recv", "stdin"}] /\ at'[t] = l
      /\ \A u \in Thread : u # t => at'[u] = at[u]
      /\ \A u \in Thread : \A io : u # t => (Works(u, io)' <=> Works(u, io))
  BY <1>3, GotoFacts
<1>5. /\ OnePlace("recv")' /\ OnePlace("send")'
      /\ port' \in Seq(PacketSet)
      /\ \A x \in PacketSet : x.io \in Io => (Contains(port', x) <=> Contains(port, x))
      /\ \A x \in PacketSet : Contains(port', x) /\ x.io = "quit" => x = quit
      /\ Contains(port, quit) => Contains(port', quit)
  <2>1. (l = "write" <=> Works(t, "recv")') /\ (Works(t, "recv")' => posted' = posted)
    BY <1>3, <1>4 DEF Works
  <2>2. \A io \in Io : io # "recv" => ~Works(t, io)' /\ posted'[io] = posted[io]
    BY <1>3, <1>4 DEF Works, Io
  <2> QED BY <1>0, <1>1, <1>3, <2>1, <2>2, WorkerPlaces
<1>6. /\ netRead \in Nat /\ aiobuf \in [Io -> Nat] /\ netRead = Len(stdout) /\ Ordered(stdout)
  <2>1. ~RecvFull
    BY <1>1, <1>2 DEF RecvFull, Works
  <2>2. RecvAnywhere
    BY <1>1 DEF RecvAnywhere
  <2> QED BY <2>1, <2>2 DEF IndInv, CatTypes, RecvInv
<1>7. RecvFull' <=> l = "write"
  <2>1. \A x \in PacketSet : Contains(port', x) => x.io # "recv"
    BY <1>0, <1>2, <1>5
  <2>2. \A u \in Thread : u # t => at'[u] # "write"
    BY <1>2, <1>4 DEF Works
  <2> QED BY <1>4, <2>1, <2>2 DEF RecvFull
<1>8. /\ aiobuf' \in [Io -> Nat] /\ netRead' \in Nat /\ aiobuf'["send"] = aiobuf["send"]
      /\ l = "write" => aiobuf'["recv"] = netRead' /\ netRead' = netRead + 1
      /\ l = "wait" => netRead' = netRead
  <2>1. CASE l = "write"
    <3>1. netRead' = netRead + 1 /\ aiobuf' = [aiobuf EXCEPT !["recv"] = netRead']
      BY <1>3, <2>1
    <3> QED BY <1>0, <1>6, <2>1, <3>1
  <2>2. CASE l = "wait"
    <3>1. netRead' = netRead /\ aiobuf' = aiobuf
      BY <1>3, <2>2
    <3> QED BY <1>6, <2>2, <3>1
  <2> QED BY <2>1, <2>2
<1>9. RecvInv'
  BY <1>3, <1>6, <1>7, <1>8 DEF RecvInv
<1>10. SendInv'
  <2>1. \A u \in Thread : at'[u] = "stdin" => at[u] = "stdin"
    BY <1>3, <1>4
  <2>2. \A x \in PacketSet : x.io = "send" /\ Contains(port', x) => Contains(port, x)
    BY <1>0, <1>5
  <2>3. posted'["send"] = 1 => posted["send"] = 1 /\ aiobuf'["send"] = aiobuf["send"]
    BY <1>3, <1>8
  <2> QED BY <1>3, <2>1, <2>2, <2>3, SendKept DEF IndInv
<1>11. CatTypes'
  BY <1>3, <1>4, <1>5, <1>8 DEF IndInv, CatTypes
<1> QED BY <1>5, <1>9, <1>10, <1>11 DEF IndInv

\* ReadFile: the next item of stdin goes into the buffer whose item was sent.
LEMMA ReadStdinInv ==
    ASSUME IndInv, NEW t \in Thread, ReadStdin(t)
    PROVE  IndInv'
<1>0. "recv" \in Io /\ "send" \in Io
  BY DEF Io
<1>1. Works(t, "send") /\ at[t] = "stdin" /\ Goto(t, "wait")
  BY DEF ReadStdin, Works
<1>2. /\ posted["send"] = 0
      /\ \A x \in PacketSet : Contains(port, x) => x.io # "send"
      /\ \A u \in Thread : u # t => ~Works(u, "send")
  BY <1>0, <1>1, WorksAlone
<1>3. /\ UNCHANGED <<exited, net, netRead, stdout, netOut>>
      /\ port' = port \/ port' = do_post_quit(port)
      /\ posted' \in [Io -> {0, 1}] /\ posted'["recv"] = posted["recv"]
      /\ \/ stdin' = stdin + 1 /\ aiobuf' = [aiobuf EXCEPT !["send"] = stdin']
         \/ UNCHANGED <<posted, aiobuf, stdin>>
  <2>1. posted \in [Io -> {0, 1}]
    BY DEF IndInv, CatTypes
  <2>2. Post("send") => posted' \in [Io -> {0, 1}] /\ posted'["recv"] = posted["recv"]
    BY <1>0, <1>2, PostFacts
  <2> QED BY <2>1, <2>2 DEF ReadStdin
<1>4. /\ at' \in [Thread -> {"wait", "write", "recv", "stdin"}] /\ at'[t] = "wait"
      /\ \A u \in Thread : u # t => at'[u] = at[u]
      /\ \A u \in Thread : \A io : u # t => (Works(u, io)' <=> Works(u, io))
  BY <1>1, GotoFacts
<1>5. /\ OnePlace("recv")' /\ OnePlace("send")'
      /\ port' \in Seq(PacketSet)
      /\ \A x \in PacketSet : x.io \in Io => (Contains(port', x) <=> Contains(port, x))
      /\ \A x \in PacketSet : Contains(port', x) /\ x.io = "quit" => x = quit
      /\ Contains(port, quit) => Contains(port', quit)
  <2>1. \A io : ~Works(t, io)'
    BY <1>4 DEF Works
  <2>2. \A io \in Io : io # "send" => posted'[io] = posted[io]
    BY <1>3 DEF Io
  <2> QED BY <1>0, <1>1, <1>3, <2>1, <2>2, WorkerPlaces
<1>6. stdin \in Nat /\ aiobuf \in [Io -> Nat] /\ Len(netOut) = stdin /\ Ordered(netOut)
  BY <1>1 DEF IndInv, CatTypes, SendInv
<1>7. /\ stdin' \in Nat /\ aiobuf' \in [Io -> Nat] /\ aiobuf'["recv"] = aiobuf["recv"]
      /\ posted'["send"] = 1 => aiobuf'["send"] = stdin' /\ stdin' = stdin + 1
  <2>1. CASE stdin' = stdin + 1 /\ aiobuf' = [aiobuf EXCEPT !["send"] = stdin']
    BY <1>0, <1>6, <2>1
  <2>2. CASE UNCHANGED <<posted, aiobuf, stdin>>
    BY <1>2, <1>6, <2>2
  <2> QED BY <1>3, <2>1, <2>2
<1>8. SendInv'
  <2>1. \A u \in Thread : at'[u] # "stdin"
    BY <1>2, <1>4 DEF Works
  <2>2. \A x \in PacketSet : Contains(port', x) => x.io # "send"
    BY <1>0, <1>2, <1>5
  <2>3. posted'["send"] = 1 => Len(netOut') = IF stdin' = 0 THEN 0 ELSE stdin' - 1
    BY <1>3, <1>6, <1>7
  <2>4. Ordered(netOut')
    BY <1>3, <1>6
  <2> QED BY <1>7, <2>1, <2>2, <2>3, <2>4 DEF SendInv
<1>9. RecvInv'
  <2>1. RecvFull' <=> RecvFull
    BY <1>0, <1>1, <1>4, <1>5 DEF RecvFull
  <2>2. Has(port', "recv") <=> Has(port, "recv")
    BY <1>0, <1>5 DEF Has
  <2>3. \A u \in Thread : Works(u, "recv")' <=> Works(u, "recv")
    BY <1>1, <1>4 DEF Works
  <2>4. RecvAnywhere' <=> RecvAnywhere
    BY <1>3, <2>2, <2>3 DEF RecvAnywhere
  <2>5. Ending => Ending'
    BY <1>3, <1>5 DEF Ending
  <2> QED BY <1>3, <1>7, <2>1, <2>4, <2>5, RecvKept DEF IndInv
<1>10. CatTypes'
  BY <1>3, <1>4, <1>5, <1>7 DEF IndInv, CatTypes
<1> QED BY <1>5, <1>8, <1>9, <1>10 DEF IndInv

\* GetQueuedCompletionStatus: the IO_DATA of the packet goes to the thread, or is given up.
LEMMA TakeInv ==
    ASSUME IndInv, NEW t \in Thread, Take(t)
    PROVE  IndInv'
<1>0. "recv" \in Io /\ "send" \in Io
  BY DEF Io
<1>1. PICK p : p = Head(port)
  OBVIOUS
<1>2. /\ port \in Seq(PacketSet) /\ port # <<>> /\ ~exited /\ at[t] = "wait"
      /\ UNCHANGED <<posted, aiobuf, net, netRead, stdin, stdout, netOut>>
  BY DEF IndInv, CatTypes, Take, ends
<1>3. exited' \in BOOLEAN /\ (exited' <=> (p = quit \/ ~p.ok))
  BY <1>1, Zenon DEF Take
<1>4. PICK q \in Seq(PacketSet) : q = Tail(port)
  BY <1>2, TakePacket
<1>5. /\ p \in PacketSet /\ Contains(port, p)
      /\ \A x : Contains(port, x) <=> x = p \/ Contains(q, x)
      /\ \A io : Has(port, io) <=> p.io = io \/ Has(q, io)
      /\ \A io : Lone(port, io) => Lone(q, io) /\ ~(p.io = io /\ Has(q, io))
  BY <1>1, <1>2, <1>4, TakePacket
<1>6. port' = q \/ port' = do_post_quit(q)
  BY <1>1, <1>4 DEF Take, CopyEnds
<1>7. /\ port' \in Seq(PacketSet)
      /\ \A x \in PacketSet : x.io \in Io => (Contains(port', x) <=> Contains(q, x))
      /\ \A x : Contains(port', x) => Contains(q, x) \/ x = quit
      /\ Contains(q, quit) => Contains(port', quit)
      /\ \A io \in Io : Has(port', io) <=> Has(q, io)
      /\ \A io \in Io : Lone(q, io) => Lone(port', io)
  BY <1>6, QuitPackets, Packets DEF Io
<1>8. PICK l \in {"wait", "write", "stdin"} :
        /\ Goto(t, l)
        /\ l = "write" => p.io = "recv" /\ p.len = 1
        /\ l = "stdin" => p.io = "send" /\ p.ok
        /\ l = "wait" => exited' \/ AtEof(p)
  <2>1. Goto(t, CASE exited' \/ AtEof(p) -> "wait"
                  [] OTHER -> IF p.io = "recv" THEN "write" ELSE "stdin")
    BY <1>1 DEF Take
  <2>2. p.io \in {"recv", "send", "quit"} /\ p.len \in {0, 1}
    BY <1>5 DEF PacketSet, Io
  <2>3. p.io = "quit" => p = quit
    BY <1>5 DEF IndInv, CatTypes
  <2>4. CASE exited' \/ AtEof(p)
    BY <2>1, <2>4
  <2>5. CASE ~(exited' \/ AtEof(p))
    <3>1. Goto(t, IF p.io = "recv" THEN "write" ELSE "stdin")
      BY <2>1, <2>5
    <3> QED BY <1>3, <2>2, <2>3, <2>5, <3>1 DEF AtEof
  <2> QED BY <2>4, <2>5
<1>9. /\ at' \in [Thread -> {"wait", "write", "recv", "stdin"}] /\ at'[t] = l
      /\ \A u \in Thread : u # t => at'[u] = at[u]
      /\ \A u \in Thread : \A io : u # t => (Works(u, io)' <=> Works(u, io))
  BY <1>8, GotoFacts
<1>10. ASSUME NEW io \in Io PROVE Works(t, io)' => p.io = io
  BY <1>8, <1>9 DEF Works, Io
<1>11. ASSUME NEW io \in Io, OnePlace(io) PROVE OnePlace(io)'
  <2>1. ~Works(t, io)
    BY <1>2 DEF Works
  <2>2. p.io = io => ~Has(q, io) /\ posted[io] = 0 /\ \A u \in Thread : ~Works(u, io)
    BY <1>5, <1>11 DEF OnePlace
  <2>3. Lone(port', io) /\ (Has(port', io) => posted'[io] = 0)
    BY <1>2, <1>5, <1>7, <1>11 DEF OnePlace
  <2>4. ASSUME NEW u \in Thread, Works(u, io)' PROVE posted'[io] = 0 /\ ~Has(port', io)
    BY <1>2, <1>5, <1>7, <1>9, <1>10, <1>11, <2>2, <2>4 DEF OnePlace
  <2>5. ASSUME NEW u \in Thread, NEW v \in Thread, Works(u, io)', Works(v, io)' PROVE u = v
    BY <1>9, <1>10, <1>11, <2>2, <2>5 DEF OnePlace
  <2> QED BY <2>3, <2>4, <2>5 DEF OnePlace
<1>12. OnePlace("recv")' /\ OnePlace("send")'
  BY <1>0, <1>11 DEF IndInv
<1>13. CatTypes'
  <2>1. \A x \in PacketSet : Contains(port', x) /\ x.io = "quit" => x = quit
    BY <1>5, <1>7 DEF IndInv, CatTypes
  <2> QED BY <1>2, <1>3, <1>7, <1>9, <2>1 DEF IndInv, CatTypes
<1>14. SendInv'
  <2>1. at'[t] = "stdin" => Len(netOut) = stdin
    BY <1>5, <1>8, <1>9 DEF IndInv, SendInv
  <2>2. \A u \in Thread : at'[u] = "stdin" => Len(netOut) = stdin
    BY <1>9, <2>1 DEF IndInv, SendInv
  <2>3. \A x \in PacketSet : Contains(port', x) /\ x.io = "send" => Contains(port, x)
    BY <1>0, <1>5, <1>7
  <2> QED BY <1>2, <2>2, <2>3 DEF IndInv, SendInv
<1>15. Ending => Ending'
  BY <1>2, <1>3, <1>5, <1>7 DEF Ending
<1>16. RecvInv'
  <2>1. \A x \in PacketSet : x.io = "recv" => (Contains(port', x) <=> Contains(q, x))
    BY <1>0, <1>7
  <2>2. CASE p.io # "recv"
    <3>1. RecvFull' <=> RecvFull
      <4>1. \A u \in Thread : at'[u] = "write" <=> at[u] = "write"
        BY <1>2, <1>8, <1>9, <2>2
      <4>2. \A x \in PacketSet : x.io = "recv" => (Contains(port', x) <=> Contains(port, x))
        BY <1>5, <2>1, <2>2
      <4> QED BY <4>1, <4>2 DEF RecvFull
    <3>2. RecvAnywhere' => RecvAnywhere
      BY <1>0, <1>2, <1>5, <1>7, <1>9, <1>10, <2>2 DEF RecvAnywhere
    <3> QED BY <1>2, <1>15, <3>1, <3>2, RecvKept DEF IndInv
  <2>3. CASE p.io = "recv"
    <3>1. /\ ~Has(q, "recv") /\ posted["recv"] = 0 /\ \A u \in Thread : ~Works(u, "recv")
      BY <1>5, <2>3 DEF IndInv, OnePlace
    <3>2. /\ \A x \in PacketSet : x.io = "recv" => ~Contains(port', x)
          /\ ~Has(port', "recv")
      BY <1>0, <1>7, <2>1, <3>1 DEF Has
    <3>3. RecvAnywhere /\ (RecvFull <=> p.len = 1)
      <4>1. RecvAnywhere
        BY <1>5, <2>3 DEF RecvAnywhere
      <4>2. \A u \in Thread : at[u] # "write"
        BY <3>1 DEF Works
      <4>3. \A x \in PacketSet : x.io = "recv" /\ Contains(port, x) => x = p
        BY <1>5, <3>1 DEF Has
      <4> QED BY <1>5, <2>3, <4>1, <4>2, <4>3 DEF RecvFull
    <3>4. RecvFull' <=> l = "write"
      <4>1. \A u \in Thread : u # t => at'[u] # "write"
        BY <1>9, <3>1 DEF Works
      <4> QED BY <1>9, <3>2, <4>1 DEF RecvFull
    <3>5. CASE l = "write"
      <4>1. RecvFull' /\ RecvFull
        BY <1>8, <3>3, <3>4, <3>5
      <4> QED BY <1>2, <4>1 DEF IndInv, RecvInv
    <3>6. CASE l # "write"
      <4>1. ~RecvFull' /\ ~RecvAnywhere'
        <5>1. \A u \in Thread : ~Works(u, "recv")'
          BY <1>9, <3>1, <3>6, <1>8, <2>3 DEF Works
        <5> QED BY <1>2, <3>1, <3>2, <3>4, <3>6, <5>1 DEF RecvAnywhere
      <4>2. CASE p.len = 1
        <5>1. ~AtEof(p)
          BY <4>2 DEF AtEof
        <5>2. Ending'
          BY <1>8, <2>3, <3>6, <5>1 DEF Ending
        <5> QED BY <1>2, <4>1, <5>2 DEF IndInv, RecvInv
      <4>3. CASE p.len # 1
        <5>1. netRead = Len(stdout)
          BY <3>3, <4>3 DEF IndInv, RecvInv
        <5> QED BY <1>2, <4>1, <5>1 DEF IndInv, RecvInv
      <4> QED BY <4>2, <4>3
    <3> QED BY <3>5, <3>6
  <2> QED BY <2>2, <2>3
<1> QED BY <1>12, <1>13, <1>14, <1>16 DEF IndInv

\* Every step keeps the invariant.
LEMMA NextIndInv == IndInv /\ [Next]_vars => IndInv'
<1> SUFFICES ASSUME IndInv, [Next]_vars PROVE IndInv'
  OBVIOUS
<1>1. CASE UNCHANGED vars
  <2> USE <1>1 DEF vars, IndInv
  <2>1. CatTypes'
    BY DEF CatTypes
  <2>2. OnePlace("recv")' /\ OnePlace("send")'
    BY DEF OnePlace, Works
  <2>3. RecvInv' /\ SendInv'
    BY DEF RecvInv, SendInv, RecvFull, RecvAnywhere, Ending, Works
  <2> QED BY <2>1, <2>2, <2>3
<1> QED BY <1>1, PeerInv, RecvEndsInv, SendEndsInv, TakeInv, WriteOutInv, RecvMoreInv,
           ReadStdinInv DEF Next
-----------------------------------------------------------------------------
(* The properties.                                                         *)

\* IndInv holds in every state of netcat-win32.cpp: each IO_DATA is in one place.
THEOREM CatInvariant == Spec => []IndInv
<1> QED BY InitIndInv, NextIndInv, PTL DEF Spec

\* The worker threads of netcat-win32.cpp, however many, copy both ways in order, and
\* lose an item only when WriteFile fails, which ends the process.
THEOREM CatCopies == Spec => []CopiedInOrder
<1>1. IndInv => CopiedInOrder
  <2> SUFFICES ASSUME IndInv PROVE CopiedInOrder
    OBVIOUS
  <2>1. stdout \in Seq(Nat) /\ netOut \in Seq(Nat) /\ Ordered(stdout) /\ Ordered(netOut)
    BY DEF IndInv, CatTypes, RecvInv, SendInv
  <2>2. ASSUME NEW s \in Seq(Nat), Ordered(s) PROVE s = Count(Len(s))
    BY <2>2 DEF Ordered, Count
  <2>3. ASSUME ~exited, \A t \in Thread : at[t] = "wait", port = <<>> PROVE Len(stdout) = netRead
    <3>1. \A x : ~Contains(port, x)
      BY <2>3 DEF Contains
    <3>2. ~RecvFull /\ ~Ending
      BY <2>3, <3>1 DEF RecvFull, Ending
    <3> QED BY <3>2 DEF IndInv, RecvInv
  <2> QED BY <2>1, <2>2, <2>3 DEF CopiedInOrder
<1> QED BY <1>1, CatInvariant, PTL
===============================================================================
