----------------------------- MODULE TxLoopProofs -----------------------------
(***************************************************************************)
(* Proofs of the safety properties of TxLoop and TxRing, for any finite    *)
(* set of tasks, any pollers and wait queues.  IndInv is inductive, and    *)
(* with RingInv for the timer ring; the properties are consequences.  The  *)
(* loop with the ring implements the loop, and the loop the lists of       *)
(* TxTaskLists.                                                            *)
(***************************************************************************)
EXTENDS TxRing, SequenceTheorems, FiniteSetTheorems, TLAPS

(* What each list operation does to membership, order and distinctness.    *)
(* The proofs below cite these lemmas and never look at indices.           *)

\* RemoveAt shifts the elements behind position k down by one.
LEMMA RemoveAtElements ==
    ASSUME NEW S, NEW q \in Seq(S), NEW k \in 1..Len(q)
    PROVE  /\ RemoveAt(q, k) \in Seq(S)
           /\ Len(RemoveAt(q, k)) = Len(q) - 1
           /\ \A i \in 1..(Len(q) - 1) :
                RemoveAt(q, k)[i] = IF i < k THEN q[i] ELSE q[i + 1]
<1> DEFINE a == SubSeq(q, 1, k - 1)
           b == SubSeq(q, k + 1, Len(q))
<1>1. /\ a \in Seq(S) /\ Len(a) = k - 1
      /\ \A i \in 1..(k - 1) : a[i] = q[i]
  BY SubSeqProperties
<1>2. /\ b \in Seq(S) /\ Len(b) = Len(q) - k
      /\ \A i \in 1..(Len(q) - k) : b[i] = q[k + i]
  <2>1. CASE k = Len(q)
    BY <2>1, SubSeqProperties
  <2>2. CASE k < Len(q)
    BY <2>2, SubSeqProperties
  <2> QED BY <2>1, <2>2
<1>3. RemoveAt(q, k) = a \o b
  BY DEF RemoveAt
<1>4. /\ a \o b \in Seq(S)
      /\ Len(a \o b) = Len(a) + Len(b)
      /\ \A i \in 1..(Len(a) + Len(b)) :
            (a \o b)[i] = IF i <= Len(a) THEN a[i] ELSE b[i - Len(a)]
  BY <1>1, <1>2, ConcatProperties
<1> HIDE DEF a, b
<1> QED BY <1>1, <1>2, <1>3, <1>4

\* LIST_REMOVE takes out exactly x and keeps the order of the others.
LEMMA UnlinkFacts ==
    ASSUME NEW S, NEW q \in Seq(S), NEW x, Distinct(q)
    PROVE  /\ Unlink(q, x) \in Seq(S)
           /\ Distinct(Unlink(q, x))
           /\ ~Contains(Unlink(q, x), x)
           /\ \A y : y # x => (Contains(Unlink(q, x), y) <=> Contains(q, y))
           /\ \A y, z : Precedes(Unlink(q, x), y, z) => Precedes(q, y, z)
           /\ \A y, z : y # x /\ z # x /\ Precedes(q, y, z)
                            => Precedes(Unlink(q, x), y, z)
<1>1. CASE ~Contains(q, x)
  <2>1. Unlink(q, x) = q
    BY <1>1 DEF Unlink
  <2> QED BY <2>1, <1>1
<1>2. CASE Contains(q, x)
  <2> DEFINE k == CHOOSE i \in 1..Len(q) : q[i] = x
             r == RemoveAt(q, k)
  <2>1. k \in 1..Len(q) /\ q[k] = x
    BY <1>2 DEF Contains
  <2>2. Unlink(q, x) = r
    BY <1>2 DEF Unlink
  <2>3. /\ r \in Seq(S) /\ Len(r) = Len(q) - 1
        /\ \A i \in 1..(Len(q) - 1) : r[i] = IF i < k THEN q[i] ELSE q[i + 1]
    BY <2>1, RemoveAtElements
  <2>4. Len(q) \in Nat
    BY LenProperties
  <2> HIDE DEF k, r
  <2> DEFINE old(i) == IF i < k THEN i ELSE i + 1
             new(i) == IF i < k THEN i ELSE i - 1
  <2>5. \A i \in 1..Len(r) : old(i) \in 1..Len(q) /\ old(i) # k /\ r[i] = q[old(i)]
    BY <2>1, <2>3, <2>4
  <2>6. \A i \in 1..Len(q) : i # k => new(i) \in 1..Len(r) /\ r[new(i)] = q[i]
    BY <2>1, <2>3, <2>4
  <2>7. \A i, j \in 1..Len(r) : i < j <=> old(i) < old(j)
    BY <2>1, <2>3, <2>4
  <2>8. \A i, j \in 1..Len(q) : i # k /\ j # k /\ i < j => new(i) < new(j)
    BY <2>1, <2>3, <2>4
  <2>9. \A i \in 1..Len(q) : q[i] = x => i = k
    BY <2>1 DEF Distinct
  <2>10. Distinct(r)
    <3> SUFFICES ASSUME NEW i \in 1..Len(r), NEW j \in 1..Len(r), r[i] = r[j]
                 PROVE  i = j
      BY DEF Distinct
    <3>1. old(i) = old(j)
      BY <2>5 DEF Distinct
    <3> QED BY <3>1, <2>1, <2>3, <2>4
  <2>11. ~Contains(r, x)
    BY <2>5, <2>9 DEF Contains
  <2>12. ASSUME NEW y, y # x PROVE Contains(r, y) <=> Contains(q, y)
    BY <2>1, <2>5, <2>6, <2>12 DEF Contains
  <2> HIDE DEF old, new
  <2>13. ASSUME NEW y, NEW z, Precedes(r, y, z) PROVE Precedes(q, y, z)
    <3>1. PICK i \in 1..Len(r), j \in 1..Len(r) : i < j /\ r[i] = y /\ r[j] = z
      BY <2>13 DEF Precedes
    <3>2. /\ old(i) \in 1..Len(q) /\ old(j) \in 1..Len(q) /\ old(i) < old(j)
          /\ q[old(i)] = y /\ q[old(j)] = z
      BY <3>1, <2>5, <2>7
    <3> QED BY <3>2 DEF Precedes
  <2>14. ASSUME NEW y, NEW z, y # x, z # x, Precedes(q, y, z)
         PROVE  Precedes(r, y, z)
    <3>1. PICK i \in 1..Len(q), j \in 1..Len(q) : i < j /\ q[i] = y /\ q[j] = z
      BY <2>14 DEF Precedes
    <3>2. i # k /\ j # k
      BY <3>1, <2>1, <2>14
    <3>3. /\ new(i) \in 1..Len(r) /\ new(j) \in 1..Len(r) /\ new(i) < new(j)
          /\ r[new(i)] = y /\ r[new(j)] = z
      BY <3>1, <3>2, <2>6, <2>8
    <3> QED BY <3>3 DEF Precedes
  <2> QED BY <2>2, <2>3, <2>10, <2>11, <2>12, <2>13, <2>14
<1> QED BY <1>1, <1>2

\* LIST_INSERT_BEFORE(&tx_tailer, x) of an element that is on no list.
LEMMA AppendFacts ==
    ASSUME NEW S, NEW q \in Seq(S), NEW x \in S, Distinct(q), ~Contains(q, x)
    PROVE  /\ Append(q, x) \in Seq(S)
           /\ Distinct(Append(q, x))
           /\ \A y : Contains(Append(q, x), y) <=> Contains(q, y) \/ y = x
           /\ \A y, z : Precedes(Append(q, x), y, z) <=>
                            Precedes(q, y, z) \/ (z = x /\ Contains(q, y))
<1> DEFINE r == Append(q, x)
<1>1. /\ r \in Seq(S) /\ Len(r) = Len(q) + 1 /\ r[Len(q) + 1] = x
      /\ \A i \in 1..Len(q) : r[i] = q[i]
  BY AppendProperties
<1>2. Len(q) \in Nat
  BY LenProperties
<1> HIDE DEF r
<1>3. \A y : Contains(r, y) <=> Contains(q, y) \/ y = x
  BY <1>1, <1>2 DEF Contains
<1>4. Distinct(r)
  BY <1>1, <1>2 DEF Distinct, Contains
<1>5. ASSUME NEW y, NEW z, Precedes(r, y, z)
      PROVE  Precedes(q, y, z) \/ (z = x /\ Contains(q, y))
  <2>1. PICK i \in 1..Len(r), j \in 1..Len(r) : i < j /\ r[i] = y /\ r[j] = z
    BY <1>5 DEF Precedes
  <2>2. i \in 1..Len(q) /\ q[i] = y
    BY <2>1, <1>1, <1>2
  <2>3. CASE j = Len(q) + 1
    BY <2>1, <2>2, <2>3, <1>1 DEF Contains
  <2>4. CASE j # Len(q) + 1
    <3>1. j \in 1..Len(q) /\ q[j] = z
      BY <2>1, <2>4, <1>1, <1>2
    <3> QED BY <3>1, <2>1, <2>2 DEF Precedes
  <2> QED BY <2>3, <2>4
<1>6. ASSUME NEW y, NEW z, Precedes(q, y, z) PROVE Precedes(r, y, z)
  <2>1. PICK i \in 1..Len(q), j \in 1..Len(q) : i < j /\ q[i] = y /\ q[j] = z
    BY <1>6 DEF Precedes
  <2>2. i \in 1..Len(r) /\ j \in 1..Len(r) /\ r[i] = y /\ r[j] = z
    BY <2>1, <1>1, <1>2
  <2> QED BY <2>1, <2>2 DEF Precedes
<1>7. ASSUME NEW y, Contains(q, y) PROVE Precedes(r, y, x)
  <2>1. PICK i \in 1..Len(q) : q[i] = y
    BY <1>7 DEF Contains
  <2>2. i \in 1..Len(r) /\ Len(q) + 1 \in 1..Len(r) /\ i < Len(q) + 1 /\ r[i] = y
    BY <2>1, <1>1, <1>2
  <2> QED BY <2>2, <1>1 DEF Precedes
<1> QED BY <1>1, <1>3, <1>4, <1>5, <1>6, <1>7 DEF r

\* LIST_REMOVE of the first element.
LEMMA TailFacts ==
    ASSUME NEW S, NEW q \in Seq(S), q # << >>, Distinct(q)
    PROVE  /\ Head(q) \in S /\ Contains(q, Head(q))
           /\ Tail(q) \in Seq(S)
           /\ Distinct(Tail(q))
           /\ \A y : Contains(Tail(q), y) <=> Contains(q, y) /\ y # Head(q)
           /\ \A y, z : Precedes(Tail(q), y, z) <=>
                            Precedes(q, y, z) /\ y # Head(q)
           /\ \A z : Contains(q, z) /\ z # Head(q) => Precedes(q, Head(q), z)
<1> DEFINE r == Tail(q)
<1>1. /\ r \in Seq(S) /\ Len(r) = Len(q) - 1
      /\ \A i \in 1..Len(r) : r[i] = q[i + 1]
      /\ Head(q) \in S /\ Head(q) = q[1]
  BY HeadTailProperties
<1>2. Len(q) \in Nat /\ Len(q) >= 1
  BY LenProperties, EmptySeq
<1> HIDE DEF r
<1>3. \A i \in 1..Len(q) : i = 1 \/ (i - 1 \in 1..Len(r) /\ r[i - 1] = q[i])
  BY <1>1, <1>2
<1>4. \A i \in 1..Len(q) : q[i] = q[1] => i = 1
  BY <1>2 DEF Distinct
<1>5. \A i \in 1..Len(r) : i + 1 \in 1..Len(q) /\ r[i] = q[i + 1] /\ r[i] # q[1]
  BY <1>1, <1>2, <1>4
<1>6. Contains(q, Head(q))
  BY <1>1, <1>2 DEF Contains
<1>7. \A y : Contains(r, y) <=> Contains(q, y) /\ y # Head(q)
  BY <1>1, <1>3, <1>5 DEF Contains
<1>8. Distinct(r)
  BY <1>1, <1>5 DEF Distinct
<1>9. ASSUME NEW y, NEW z, Precedes(r, y, z) PROVE Precedes(q, y, z) /\ y # Head(q)
  <2>1. PICK i \in 1..Len(r), j \in 1..Len(r) : i < j /\ r[i] = y /\ r[j] = z
    BY <1>9 DEF Precedes
  <2>2. /\ i + 1 \in 1..Len(q) /\ j + 1 \in 1..Len(q) /\ i + 1 < j + 1
        /\ q[i + 1] = y /\ q[j + 1] = z /\ y # q[1]
    BY <2>1, <1>5, <1>2, <1>1
  <2> QED BY <2>2, <1>1 DEF Precedes
<1>10. ASSUME NEW y, NEW z, Precedes(q, y, z), y # Head(q) PROVE Precedes(r, y, z)
  <2>1. PICK i \in 1..Len(q), j \in 1..Len(q) : i < j /\ q[i] = y /\ q[j] = z
    BY <1>10 DEF Precedes
  <2>2. /\ i - 1 \in 1..Len(r) /\ j - 1 \in 1..Len(r) /\ i - 1 < j - 1
        /\ r[i - 1] = y /\ r[j - 1] = z
    BY <2>1, <1>10, <1>1, <1>2, <1>3
  <2> QED BY <2>2 DEF Precedes
<1>11. ASSUME NEW z, Contains(q, z), z # Head(q) PROVE Precedes(q, Head(q), z)
  <2>1. PICK i \in 1..Len(q) : q[i] = z
    BY <1>11 DEF Contains
  <2>2. 1 \in 1..Len(q) /\ 1 < i /\ q[1] = Head(q)
    BY <2>1, <1>11, <1>1, <1>2
  <2> QED BY <2>1, <2>2 DEF Precedes
<1> QED BY <1>1, <1>6, <1>7, <1>8, <1>9, <1>10, <1>11 DEF r

\* LIST_INSERT_HEAD of an element that is on no list.
LEMMA ConsFacts ==
    ASSUME NEW S, NEW q \in Seq(S), NEW x \in S, Distinct(q), ~Contains(q, x)
    PROVE  /\ Cons(x, q) \in Seq(S)
           /\ Distinct(Cons(x, q))
           /\ \A y : Contains(Cons(x, q), y) <=> Contains(q, y) \/ y = x
<1> DEFINE r == Cons(x, q)
<1>1. <<x>> \in Seq(S) /\ Len(<<x>>) = 1 /\ <<x>>[1] = x
  OBVIOUS
<1>2. Len(q) \in Nat
  BY LenProperties
<1>3. /\ r \in Seq(S) /\ Len(r) = 1 + Len(q)
      /\ \A i \in 1..(1 + Len(q)) : r[i] = IF i <= 1 THEN <<x>>[i] ELSE q[i - 1]
  BY <1>1, ConcatProperties DEF Cons
<1> HIDE DEF r
<1>4. /\ 1 \in 1..Len(r) /\ r[1] = x
      /\ \A i \in 1..Len(q) : i + 1 \in 1..Len(r) /\ r[i + 1] = q[i]
      /\ \A i \in 1..Len(r) : i = 1 \/ (i - 1 \in 1..Len(q) /\ r[i] = q[i - 1])
  BY <1>1, <1>2, <1>3
<1>5. \A y : Contains(r, y) <=> Contains(q, y) \/ y = x
  <2>1. ASSUME NEW y, Contains(r, y) PROVE Contains(q, y) \/ y = x
    BY <2>1, <1>4 DEF Contains
  <2>2. ASSUME NEW y, Contains(q, y) PROVE Contains(r, y)
    BY <2>2, <1>4 DEF Contains
  <2>3. Contains(r, x)
    BY <1>4 DEF Contains
  <2> QED BY <2>1, <2>2, <2>3
<1>6. Distinct(r)
  <2> SUFFICES ASSUME NEW i \in 1..Len(r), NEW j \in 1..Len(r), r[i] = r[j]
               PROVE  i = j
    BY DEF Distinct
  <2>1. \A k \in 1..Len(r) : r[k] = x => k = 1
    BY <1>4 DEF Contains
  <2>2. CASE i = 1 \/ j = 1
    BY <2>1, <2>2, <1>4
  <2>3. CASE i # 1 /\ j # 1
    <3>1. i - 1 = j - 1
      BY <2>3, <1>4 DEF Distinct
    <3> QED BY <3>1, <1>2, <1>3
  <2> QED BY <2>2, <2>3
<1> QED BY <1>3, <1>5, <1>6 DEF r

\* Moving a whole list behind another one that shares no element with it.
LEMMA ConcatFacts ==
    ASSUME NEW S, NEW q \in Seq(S), NEW r \in Seq(S), Distinct(q), Distinct(r),
           \A y : ~(Contains(q, y) /\ Contains(r, y))
    PROVE  /\ q \o r \in Seq(S)
           /\ Distinct(q \o r)
           /\ \A y : Contains(q \o r, y) <=> Contains(q, y) \/ Contains(r, y)
           /\ \A y, z : Precedes(q, y, z) => Precedes(q \o r, y, z)
           /\ \A y, z : Precedes(q \o r, y, z) => Precedes(q, y, z) \/ Contains(r, z)
           /\ \A y, z : Contains(q, y) /\ Contains(r, z) => Precedes(q \o r, y, z)
<1> DEFINE c == q \o r
<1>1. Len(q) \in Nat /\ Len(r) \in Nat
  BY LenProperties
<1>2. /\ c \in Seq(S) /\ Len(c) = Len(q) + Len(r)
      /\ \A i \in 1..(Len(q) + Len(r)) :
            c[i] = IF i <= Len(q) THEN q[i] ELSE r[i - Len(q)]
  BY ConcatProperties
<1> HIDE DEF c
<1>3. \A i \in 1..Len(q) : i \in 1..Len(c) /\ c[i] = q[i]
  BY <1>1, <1>2
<1>4. ASSUME NEW i \in 1..Len(r)
      PROVE  Len(q) + i \in 1..Len(c) /\ c[Len(q) + i] = r[i]
  <2>1. /\ Len(q) + i \in 1..(Len(q) + Len(r)) /\ ~(Len(q) + i <= Len(q))
        /\ (Len(q) + i) - Len(q) = i
    BY <1>1
  <2> QED BY <2>1, <1>2
<1>5. \A i \in 1..Len(c) : \/ i \in 1..Len(q) /\ c[i] = q[i]
                           \/ i - Len(q) \in 1..Len(r) /\ c[i] = r[i - Len(q)]
  BY <1>1, <1>2
<1>6. \A y : Contains(c, y) <=> Contains(q, y) \/ Contains(r, y)
  BY <1>3, <1>4, <1>5 DEF Contains
<1>7. Distinct(c)
  <2> SUFFICES ASSUME NEW i \in 1..Len(c), NEW j \in 1..Len(c), c[i] = c[j]
               PROVE  i = j
    BY DEF Distinct
  <2>1. CASE i \in 1..Len(q) /\ c[i] = q[i] /\ j \in 1..Len(q) /\ c[j] = q[j]
    BY <2>1 DEF Distinct
  <2>2. CASE /\ i - Len(q) \in 1..Len(r) /\ c[i] = r[i - Len(q)]
             /\ j - Len(q) \in 1..Len(r) /\ c[j] = r[j - Len(q)]
    <3>1. i - Len(q) = j - Len(q)
      BY <2>2 DEF Distinct
    <3> QED BY <3>1, <1>1, <1>2
  <2>3. CASE i \in 1..Len(q) /\ c[i] = q[i] /\ j - Len(q) \in 1..Len(r) /\ c[j] = r[j - Len(q)]
    BY <2>3 DEF Contains
  <2>4. CASE j \in 1..Len(q) /\ c[j] = q[j] /\ i - Len(q) \in 1..Len(r) /\ c[i] = r[i - Len(q)]
    BY <2>4 DEF Contains
  <2> QED BY <1>5, <2>1, <2>2, <2>3, <2>4
<1>8. ASSUME NEW y, NEW z, Precedes(q, y, z) PROVE Precedes(c, y, z)
  BY <1>8, <1>3 DEF Precedes
<1>9. ASSUME NEW y, NEW z, Precedes(c, y, z) PROVE Precedes(q, y, z) \/ Contains(r, z)
  <2>1. PICK i \in 1..Len(c), j \in 1..Len(c) : i < j /\ c[i] = y /\ c[j] = z
    BY <1>9 DEF Precedes
  <2>2. CASE j \in 1..Len(q) /\ c[j] = q[j]
    <3>1. i \in 1..Len(q) /\ q[i] = y
      BY <2>1, <2>2, <1>1, <1>2, <1>3
    <3> QED BY <3>1, <2>1, <2>2 DEF Precedes
  <2>3. CASE j - Len(q) \in 1..Len(r) /\ c[j] = r[j - Len(q)]
    BY <2>1, <2>3 DEF Contains
  <2> QED BY <2>2, <2>3, <1>5
<1>10. ASSUME NEW y, NEW z, Contains(q, y), Contains(r, z) PROVE Precedes(c, y, z)
  <2>1. PICK i \in 1..Len(q) : q[i] = y
    BY <1>10 DEF Contains
  <2>2. PICK j \in 1..Len(r) : r[j] = z
    BY <1>10 DEF Contains
  <2>3. /\ i \in 1..Len(c) /\ c[i] = y
        /\ Len(q) + j \in 1..Len(c) /\ c[Len(q) + j] = z
        /\ i < Len(q) + j
    BY <2>1, <2>2, <1>1, <1>3, <1>4
  <2> QED BY <2>3 DEF Precedes
<1> QED BY <1>2, <1>6, <1>7, <1>8, <1>9, <1>10 DEF c
-----------------------------------------------------------------------------
(* The invariant.                                                          *)

IndInv ==
    /\ TypeOK
    /\ FlagsMatchLists
    /\ BusyBits
    /\ ActivesCover
    /\ QuietBits
    /\ OncePerPass
    /\ PollerAlive

USE LoopAssumption

-----------------------------------------------------------------------------
(* Bits and counts.                                                        *)

\* tx_busy |= 1 and tx_busy <<= 1 on the two bits that are read.
LEMMA BusyArithmetic ==
    ASSUME NEW b \in 0..3
    PROVE  /\ SetLowBit(b) \in 0..3 /\ Odd(SetLowBit(b)) /\ SetLowBit(b) # 0
           /\ (2 * b) % 4 \in 0..3
           /\ ~Odd((2 * b) % 4)
           /\ Odd(b) => (2 * b) % 4 # 0
           /\ ~Odd(b) => (2 * b) % 4 = 0
<1>1. b = 0 \/ b = 1 \/ b = 2 \/ b = 3
  OBVIOUS
<1> QED BY <1>1 DEF SetLowBit, Odd

\* A list holds at most as many elements as it is long.
LEMMA ContentsBound ==
    ASSUME NEW S, NEW q \in Seq(S)
    PROVE  /\ IsFiniteSet({t \in S : Contains(q, t)})
           /\ Cardinality({t \in S : Contains(q, t)}) <= Len(q)
<1> DEFINE C == {t \in S : Contains(q, t)}
<1>1. Len(q) \in Nat /\ q \in [1..Len(q) -> S]
  BY LenProperties
<1>2. q \in Surjection(1..Len(q), C)
  BY <1>1 DEF Surjection, Contains
<1>3. IsFiniteSet(1..Len(q)) /\ Cardinality(1..Len(q)) = Len(q)
  BY <1>1, FS_Interval
<1> HIDE DEF C
<1>4. IsFiniteSet(C) /\ Cardinality(C) <= Cardinality(1..Len(q))
  BY <1>2, <1>3, FS_Surjection
<1> QED BY <1>3, <1>4 DEF C

\* There are finitely many tasks, so Cardinality(Busy) is a number.
LEMMA BusyFinite == IsFiniteSet(Busy) /\ Cardinality(Busy) \in Nat
<1>1. Busy \subseteq Task
  BY DEF Busy
<1> QED BY <1>1, FS_Subset, FS_CardinalityType

\* A step that makes no task BUSY and lowers no count keeps ActivesCover.
LEMMA ActivesKept ==
    ASSUME TypeOK, ActivesCover, Busy' \subseteq Busy, tx_actives' = tx_actives
    PROVE  ActivesCover'
<1>1. Cardinality(Busy') <= Cardinality(Busy) /\ Cardinality(Busy') \in Nat
  BY BusyFinite, FS_Subset, FS_CardinalityType
<1> QED BY <1>1, BusyFinite DEF ActivesCover, TypeOK

-----------------------------------------------------------------------------
(* Every step keeps IndInv.                                                *)

\* A new loop satisfies the invariant: every list is empty, every task IDLE.
LEMMA InitIndInv == Init => IndInv
<1> SUFFICES ASSUME Init PROVE IndInv
  OBVIOUS
<1> USE DEF Init
<1>1. \A x : ~Contains(<<>>, x)
  BY DEF Contains
<1>2. Distinct(<<>>)
  BY DEF Distinct
<1>3. TypeOK
  <2>1. <<>> \in Seq(Elem) /\ <<>> \in Seq(Task)
    OBVIOUS
  <2>2. waitq \in [WaitQ -> Seq(Task)]
    BY <2>1
  <2>3. flags \in [Task \cup Poll -> SUBSET Flag]
    BY DEF Flag
  <2>4. taskq \in Seq(Elem)
    BY <2>1
  <2>5. tx_stop \in BOOLEAN /\ tx_break \in BOOLEAN /\ first_run \in BOOLEAN
    OBVIOUS
  <2>6. /\ tx_busy \in 0..3 /\ tx_actives \in Nat /\ quiet \in 0..2
        /\ pc \in {"out", "loop", "call"} /\ pc # "call"
    OBVIOUS
  <2>7. /\ tx_holder \in Poll \cup {NoTask} /\ current \in Task \cup Poll \cup {NoTask}
        /\ current = NoTask
        /\ started \in SUBSET Poll /\ ran \in SUBSET (Task \cup Poll)
    OBVIOUS
  <2> HIDE DEF Init
  <2> QED BY <2>2, <2>3, <2>4, <2>5, <2>6, <2>7 DEF TypeOK
<1>4. FlagsMatchLists
  BY <1>1, <1>2 DEF FlagsMatchLists, DistinctLists, PhonyQueued, PollFlags, TaskFlags, Linked
<1>5. BusyBits /\ QuietBits /\ OncePerPass /\ PollerAlive
  BY <1>1 DEF BusyBits, QuietBits, OncePerPass, PollerAlive
<1>6. ActivesCover
  <2>1. Busy = {}
    BY DEF Busy
  <2> QED BY <2>1, FS_EmptySet DEF ActivesCover
<1> QED BY <1>3, <1>4, <1>5, <1>6 DEF IndInv

\* The lists of a wait queue function after one LIST_REMOVE.
LEMMA UnlinkWaiting ==
    ASSUME TypeOK, DistinctLists, NEW t \in Task, NEW w \in WaitQ
    PROVE  /\ Unlink(waitq[w], t) \in Seq(Task)
           /\ Distinct(Unlink(waitq[w], t))
           /\ ~Contains(Unlink(waitq[w], t), t)
           /\ \A y : y # t => (Contains(Unlink(waitq[w], t), y) <=> Contains(waitq[w], y))
<1>1. waitq[w] \in Seq(Task) /\ Distinct(waitq[w])
  BY DEF TypeOK, DistinctLists
<1> QED BY <1>1, UnlinkFacts

\* tx_task_active moves a task that is not BUSY to the end of the run queue.
LEMMA TaskActiveInv ==
    ASSUME IndInv, NEW t \in Task, TaskActive(t) PROVE IndInv'
<1> USE DEF IndInv, FlagsMatchLists
<1>1. taskq \in Seq(Elem) /\ t \in Elem /\ Distinct(taskq)
  BY DEF TypeOK, DistinctLists, Elem
<1>2. ~Contains(taskq, t)
  BY DEF TaskActive, MayActivate, Queued, Counted, TaskFlags
<1>3. taskq' = Append(taskq, t)
  BY <1>2 DEF TaskActive, MayActivate, Queued, Counted, Unlink
<1>4. /\ taskq' \in Seq(Elem) /\ Distinct(taskq')
      /\ \A y : Contains(taskq', y) <=> Contains(taskq, y) \/ y = t
      /\ \A y, z : Precedes(taskq', y, z) <=>
                      Precedes(taskq, y, z) \/ (z = t /\ Contains(taskq, y))
  BY <1>1, <1>2, <1>3, AppendFacts
<1>5. \A w \in WaitQ : /\ waitq'[w] \in Seq(Task) /\ Distinct(waitq'[w])
                       /\ ~Contains(waitq'[w], t)
                       /\ \A y : y # t => (Contains(waitq'[w], y) <=> Contains(waitq[w], y))
  BY UnlinkWaiting DEF TaskActive, MayActivate, Queued, Counted
<1>6. tx_busy' \in 0..3 /\ Odd(tx_busy') /\ tx_busy' # 0
  BY BusyArithmetic DEF TaskActive, MayActivate, Queued, Counted, TypeOK
<1>7. flags' = [flags EXCEPT ![t] = (@ \ {"PENDING", "IDLE"}) \cup {"BUSY"}]
  BY DEF TaskActive, MayActivate, Queued, Counted
<1>8. TypeOK'
  BY <1>4, <1>5, <1>6, <1>7 DEF TypeOK, TaskActive, MayActivate, Queued, Counted, loopVars, Flag
<1>9. DistinctLists'
  BY <1>4, <1>5 DEF DistinctLists
<1>10. PhonyQueued' /\ PollFlags'
  BY <1>4, <1>7 DEF PhonyQueued, PollFlags, TaskActive, MayActivate, Queued, Counted, loopVars, TypeOK
<1>11. TaskFlags'
  BY <1>4, <1>5, <1>7 DEF TaskFlags, Linked, TypeOK, TaskActive, MayActivate, Queued, Counted, loopVars
<1>12. BusyBits' /\ QuietBits' /\ OncePerPass' /\ PollerAlive'
  BY <1>4, <1>6 DEF BusyBits, QuietBits, OncePerPass, PollerAlive, PhonyQueued, TaskActive, MayActivate, Queued, Counted,
                    loopVars, TypeOK
<1>13. ActivesCover'
  <2>1. Busy' = Busy \cup {t} /\ t \notin Busy
    BY <1>7 DEF Busy, TypeOK, TaskActive, MayActivate, Queued, Counted
  <2>2. Cardinality(Busy') = Cardinality(Busy) + 1
    BY <2>1, BusyFinite, FS_AddElement
  <2> QED BY <2>2, BusyFinite DEF ActivesCover, TaskActive, MayActivate, Queued, Counted, TypeOK
<1> QED BY <1>8, <1>9, <1>10, <1>11, <1>12, <1>13

\* tx_task_init of a task on no list changes no list.
LEMMA TaskInitInv ==
    ASSUME IndInv, NEW t \in Task, TaskInit(t) PROVE IndInv'
<1> USE DEF IndInv, FlagsMatchLists
<1>1. "BUSY" \notin flags[t] /\ "PENDING" \notin flags[t] /\ ~Linked(t)
  BY DEF TaskInit, TaskFlags, Linked
<1>2. flags' = [flags EXCEPT ![t] = {"IDLE"}]
  BY DEF TaskInit
<1> USE DEF TaskInit, loopVars
<1>3. TypeOK'
  BY <1>2 DEF TypeOK, Flag
<1>4. DistinctLists' /\ PhonyQueued' /\ PollFlags'
  BY <1>2 DEF DistinctLists, PhonyQueued, PollFlags, TypeOK
<1>5. TaskFlags'
  BY <1>1, <1>2 DEF TaskFlags, Linked, TypeOK
<1>6. BusyBits' /\ QuietBits' /\ OncePerPass' /\ PollerAlive'
  BY DEF BusyBits, QuietBits, OncePerPass, PollerAlive
<1>7. ActivesCover'
  <2>1. Busy' \subseteq Busy
    BY <1>2 DEF Busy, TypeOK
  <2> QED BY <2>1, ActivesKept
<1> QED BY <1>3, <1>4, <1>5, <1>6, <1>7

\* tx_task_mark sets a flag that no part of the invariant reads.
LEMMA TaskMarkInv ==
    ASSUME IndInv, NEW t \in Task, TaskMark(t) PROVE IndInv'
<1> USE DEF IndInv, FlagsMatchLists
<1>1. flags' = [flags EXCEPT ![t] = @ \cup {"USER_MARK"}]
  BY DEF TaskMark
<1> USE DEF TaskMark, loopVars
<1>2. TypeOK'
  BY <1>1 DEF TypeOK, Flag
<1>3. DistinctLists' /\ PhonyQueued' /\ PollFlags'
  BY <1>1 DEF DistinctLists, PhonyQueued, PollFlags, TypeOK
<1>4. TaskFlags'
  BY <1>1 DEF TaskFlags, Linked, TypeOK
<1>5. BusyBits' /\ QuietBits' /\ OncePerPass' /\ PollerAlive'
  BY DEF BusyBits, QuietBits, OncePerPass, PollerAlive
<1>6. ActivesCover'
  <2>1. Busy' \subseteq Busy
    BY <1>1 DEF Busy, TypeOK
  <2> QED BY <2>1, ActivesKept
<1> QED BY <1>2, <1>3, <1>4, <1>5, <1>6

\* tx_loop_break, tx_loop_stop and the holder touch no list and no flag.
LEMMA ScalarInv ==
    ASSUME IndInv, LoopBreak \/ LoopStop \/ \E p \in Poll : Hold(p) \/ Release(p)
    PROVE  IndInv'
<1> USE DEF IndInv, FlagsMatchLists
<1>1. /\ UNCHANGED <<taskq, waitq, flags, tx_busy, tx_actives, first_run, current, pc,
                     started, ran, quiet>>
      /\ tx_stop => tx_stop'
  BY DEF LoopBreak, LoopStop, Hold, Release
<1>2. TypeOK'
  BY DEF TypeOK, LoopBreak, LoopStop, Hold, Release
<1>3. DistinctLists' /\ PhonyQueued' /\ PollFlags'
  BY <1>1 DEF DistinctLists, PhonyQueued, PollFlags
<1>4. TaskFlags'
  BY <1>1 DEF TaskFlags, Linked
<1>5. BusyBits' /\ QuietBits' /\ OncePerPass' /\ PollerAlive'
  BY <1>1 DEF BusyBits, QuietBits, OncePerPass, PollerAlive
<1>6. ActivesCover'
  BY <1>1 DEF ActivesCover, Busy
<1> QED BY <1>2, <1>3, <1>4, <1>5, <1>6

\* What LIST_REMOVE(t) leaves of the run queue.
LEMMA UnlinkQueued ==
    ASSUME TypeOK, DistinctLists, NEW t, taskq' = Unlink(taskq, t)
    PROVE  /\ taskq' \in Seq(Elem) /\ Distinct(taskq')
           /\ \A y : Contains(taskq', y) <=> Contains(taskq, y) /\ y # t
           /\ \A y, z : Precedes(taskq', y, z) => Precedes(taskq, y, z)
           /\ \A y, z : y # t /\ z # t /\ Precedes(taskq, y, z) => Precedes(taskq', y, z)
<1>1. taskq \in Seq(Elem) /\ Distinct(taskq)
  BY DEF TypeOK, DistinctLists
<1> QED BY <1>1, UnlinkFacts

\* tx_task_drop takes a task off its list; tx_actives stays an upper bound.
LEMMA TaskDropInv ==
    ASSUME IndInv, NEW t \in Task, TaskDrop(t) PROVE IndInv'
<1> USE DEF IndInv, FlagsMatchLists
<1>1. /\ taskq' \in Seq(Elem) /\ Distinct(taskq')
      /\ \A y : Contains(taskq', y) <=> Contains(taskq, y) /\ y # t
      /\ \A y, z : Precedes(taskq', y, z) => Precedes(taskq, y, z)
      /\ \A y, z : y # t /\ z # t /\ Precedes(taskq, y, z) => Precedes(taskq', y, z)
  BY UnlinkQueued DEF TaskDrop
<1>2. \A w \in WaitQ : /\ waitq'[w] \in Seq(Task) /\ Distinct(waitq'[w])
                       /\ ~Contains(waitq'[w], t)
                       /\ \A y : y # t => (Contains(waitq'[w], y) <=> Contains(waitq[w], y))
  BY UnlinkWaiting DEF TaskDrop
<1>3. flags' = [flags EXCEPT ![t] = (@ \ {"PENDING", "BUSY"}) \cup {"IDLE"}]
  BY DEF TaskDrop
<1> USE DEF loopVars
<1>4. TypeOK'
  BY <1>1, <1>2, <1>3 DEF TypeOK, TaskDrop, Flag
<1>5. DistinctLists'
  BY <1>1, <1>2 DEF DistinctLists
<1>6. PhonyQueued' /\ PollFlags'
  BY <1>1, <1>3 DEF PhonyQueued, PollFlags, TaskDrop, TypeOK
<1>7. TaskFlags'
  BY <1>1, <1>2, <1>3 DEF TaskFlags, Linked, TypeOK, TaskDrop
<1>8. BusyBits' /\ QuietBits' /\ PollerAlive'
  BY <1>1 DEF BusyBits, QuietBits, PollerAlive, TaskDrop, TypeOK
<1>9. OncePerPass'
  BY <1>1 DEF OncePerPass, TaskDrop
<1>10. ActivesCover'
  <2>1. Busy' \subseteq Busy
    BY <1>3 DEF Busy, TypeOK
  <2> QED BY <2>1, ActivesKept DEF TaskDrop
<1> QED BY <1>4, <1>5, <1>6, <1>7, <1>8, <1>9, <1>10

\* tx_task_record moves a task to the head of a wait queue.
LEMMA TaskRecordInv ==
    ASSUME IndInv, NEW t \in Task, NEW w \in WaitQ, TaskRecord(w, t) PROVE IndInv'
<1> USE DEF IndInv, FlagsMatchLists
<1>1. /\ taskq' \in Seq(Elem) /\ Distinct(taskq')
      /\ \A y : Contains(taskq', y) <=> Contains(taskq, y) /\ y # t
      /\ \A y, z : Precedes(taskq', y, z) => Precedes(taskq, y, z)
      /\ \A y, z : y # t /\ z # t /\ Precedes(taskq, y, z) => Precedes(taskq', y, z)
  BY UnlinkQueued DEF TaskRecord
<1>2. ASSUME NEW v \in WaitQ
      PROVE  /\ waitq'[v] \in Seq(Task) /\ Distinct(waitq'[v])
             /\ Contains(waitq'[v], t) <=> v = w
             /\ \A y : y # t => (Contains(waitq'[v], y) <=> Contains(waitq[v], y))
  <2> DEFINE u == Unlink(waitq[v], t)
  <2>1. /\ u \in Seq(Task) /\ Distinct(u) /\ ~Contains(u, t)
        /\ \A y : y # t => (Contains(u, y) <=> Contains(waitq[v], y))
    BY UnlinkWaiting
  <2>2. waitq'[v] = IF v = w THEN Cons(t, u) ELSE u
    BY DEF TaskRecord
  <2> HIDE DEF u
  <2>3. CASE v = w
    BY <2>1, <2>2, <2>3, ConsFacts
  <2>4. CASE v # w
    BY <2>1, <2>2, <2>4
  <2> QED BY <2>3, <2>4
<1>3. flags' = [flags EXCEPT ![t] = (@ \ {"IDLE", "BUSY"}) \cup {"PENDING"}]
  BY DEF TaskRecord
<1> USE DEF loopVars
<1>4. TypeOK'
  <2>1. waitq' \in [WaitQ -> Seq(Task)]
    <3>1. waitq' = [v \in WaitQ |-> waitq'[v]]
      BY DEF TaskRecord
    <3> QED BY <3>1, <1>2
  <2> QED BY <1>1, <1>3, <2>1 DEF TypeOK, TaskRecord, Flag
<1>5. DistinctLists'
  <2>1. ASSUME NEW u \in WaitQ, NEW v \in WaitQ, NEW s \in Task,
               Contains(waitq'[u], s), Contains(waitq'[v], s)
        PROVE  u = v
    <3>1. CASE s = t
      BY <2>1, <3>1, <1>2
    <3>2. CASE s # t
      BY <2>1, <3>2, <1>2 DEF DistinctLists
    <3> QED BY <3>1, <3>2
  <2> QED BY <2>1, <1>1, <1>2 DEF DistinctLists
<1>6. PhonyQueued' /\ PollFlags'
  BY <1>1, <1>3 DEF PhonyQueued, PollFlags, TaskRecord, TypeOK
<1>7. TaskFlags'
  <2> SUFFICES ASSUME NEW s \in Task
               PROVE  /\ Contains(taskq', s) <=> "BUSY" \in flags'[s]
                      /\ (\E v \in WaitQ : Contains(waitq'[v], s)) <=> "PENDING" \in flags'[s]
                      /\ ~("BUSY" \in flags'[s] /\ "PENDING" \in flags'[s])
                      /\ Linked(s)' => "IDLE" \notin flags'[s]
                      /\ ~tx_stop' /\ ~Linked(s)' => "IDLE" \in flags'[s]
    BY DEF TaskFlags
  <2>1. CASE s = t
    <3>1. Contains(waitq'[w], s) /\ Linked(s)' /\ ~Contains(taskq', s)
      BY <2>1, <1>1, <1>2 DEF Linked
    <3>2. "PENDING" \in flags'[s] /\ "IDLE" \notin flags'[s] /\ "BUSY" \notin flags'[s]
      BY <2>1, <1>3 DEF TypeOK
    <3> QED BY <3>1, <3>2
  <2>2. CASE s # t
    <3>1. flags'[s] = flags[s] /\ (Contains(taskq', s) <=> Contains(taskq, s))
      BY <2>2, <1>1, <1>3 DEF TypeOK
    <3>2. \A v \in WaitQ : Contains(waitq'[v], s) <=> Contains(waitq[v], s)
      BY <2>2, <1>2
    <3>3. Linked(s)' <=> Linked(s)
      BY <3>1, <3>2 DEF Linked
    <3> QED BY <3>1, <3>2, <3>3 DEF TaskFlags, TaskRecord
  <2> QED BY <2>1, <2>2
<1>8. BusyBits' /\ QuietBits' /\ PollerAlive'
  BY <1>1 DEF BusyBits, QuietBits, PollerAlive, TaskRecord, TypeOK
<1>9. OncePerPass'
  BY <1>1 DEF OncePerPass, TaskRecord
<1>10. ActivesCover'
  <2>1. Busy' \subseteq Busy
    BY <1>3 DEF Busy, TypeOK
  <2> QED BY <2>1, ActivesKept DEF TaskRecord
<1> QED BY <1>4, <1>5, <1>6, <1>7, <1>8, <1>9, <1>10

\* tx_task_wakeup moves a whole wait queue behind the run queue; on a stopped
\* loop it only empties the wait queue.
LEMMA TaskWakeupInv ==
    ASSUME IndInv, NEW w \in WaitQ, TaskWakeup(w) PROVE IndInv'
<1> DEFINE woken == {t \in Task : Contains(waitq[w], t)}
           q == waitq[w]
<1> USE DEF IndInv, FlagsMatchLists
<1>1. /\ taskq \in Seq(Elem) /\ Distinct(taskq) /\ q \in Seq(Task) /\ Distinct(q)
      /\ q \in Seq(Elem)
  <2>1. Task \subseteq Elem
    BY DEF Elem
  <2>2. waitq[w] \in Seq(Task)
    BY DEF TypeOK
  <2>3. waitq[w] \in Seq(Elem)
    BY <2>1, <2>2, SeqMonotonic
  <2> QED BY <2>2, <2>3 DEF TypeOK, DistinctLists
<1>2. \A y : Contains(q, y) => y \in Task
  BY <1>1 DEF Contains
<1>3. \A v \in WaitQ : /\ waitq'[v] \in Seq(Task) /\ Distinct(waitq'[v])
                       /\ \A y : Contains(waitq'[v], y) <=> Contains(waitq[v], y) /\ v # w
  <2>1. <<>> \in Seq(Task) /\ Distinct(<<>>) /\ \A y : ~Contains(<<>>, y)
    BY DEF Distinct, Contains
  <2>2. \A v \in WaitQ : waitq'[v] = IF v = w THEN <<>> ELSE waitq[v]
    BY DEF TaskWakeup, TypeOK
  <2>3. \A v \in WaitQ : waitq[v] \in Seq(Task) /\ Distinct(waitq[v])
    BY DEF TypeOK, DistinctLists
  <2> QED BY <2>1, <2>2, <2>3
<1>4. \A t \in woken : "PENDING" \in flags[t] /\ "IDLE" \notin flags[t] /\ "BUSY" \notin flags[t]
  BY DEF TaskFlags, Linked
<1>5. DistinctLists' <=> Distinct(taskq')
  BY <1>3 DEF DistinctLists
<1>6. waitq' \in [WaitQ -> Seq(Task)]
  BY DEF TaskWakeup, TypeOK
<1>7. CASE tx_stop
  <2>1. /\ taskq' = taskq /\ tx_actives' = tx_actives /\ tx_busy' = tx_busy
        /\ quiet' = quiet /\ tx_stop'
        /\ UNCHANGED <<pc, ran, started, current>>
    BY <1>7 DEF TaskWakeup, loopVars
  <2>2. flags' = [x \in Task \cup Poll |-> IF x \in woken THEN flags[x] \ {"PENDING"} ELSE flags[x]]
    BY <1>7 DEF TaskWakeup
  <2>3. TypeOK'
    BY <1>6, <2>1, <2>2 DEF TypeOK, TaskWakeup, loopVars
  <2>4. DistinctLists' /\ PhonyQueued' /\ PollFlags'
    BY <1>1, <1>5, <2>1, <2>2 DEF PhonyQueued, PollFlags
  <2>5. TaskFlags'
    <3> SUFFICES ASSUME NEW t \in Task
                 PROVE  /\ Contains(taskq', t) <=> "BUSY" \in flags'[t]
                        /\ (\E v \in WaitQ : Contains(waitq'[v], t)) <=> "PENDING" \in flags'[t]
                        /\ ~("BUSY" \in flags'[t] /\ "PENDING" \in flags'[t])
                        /\ Linked(t)' => "IDLE" \notin flags'[t]
      BY <2>1 DEF TaskFlags
    <3>1. CASE t \in woken
      <4>1. flags'[t] = flags[t] \ {"PENDING"}
        BY <2>2, <3>1
      <4>2. \A v \in WaitQ : ~Contains(waitq'[v], t)
        BY <1>3, <3>1 DEF DistinctLists
      <4>3. "IDLE" \notin flags'[t] /\ "BUSY" \notin flags'[t] /\ "PENDING" \notin flags'[t]
        BY <4>1, <1>4, <3>1
      <4> QED BY <4>2, <4>3, <2>1, <1>4, <3>1 DEF TaskFlags
    <3>2. CASE t \notin woken
      <4>1. flags'[t] = flags[t]
        BY <2>2, <3>2
      <4>2. \A v \in WaitQ : Contains(waitq'[v], t) <=> Contains(waitq[v], t)
        BY <1>3, <3>2
      <4> QED BY <4>1, <4>2, <2>1 DEF TaskFlags, Linked
    <3> QED BY <3>1, <3>2
  <2>6. BusyBits' /\ QuietBits' /\ OncePerPass' /\ PollerAlive'
    BY <2>1 DEF BusyBits, QuietBits, OncePerPass, PollerAlive
  <2>7. ActivesCover'
    <3>1. Busy' \subseteq Busy
      BY <2>2 DEF Busy
    <3> QED BY <3>1, <2>1, ActivesKept
  <2> QED BY <2>3, <2>4, <2>5, <2>6, <2>7
<1>8. CASE ~tx_stop
  <2>1. /\ taskq' = taskq \o q /\ tx_actives' = tx_actives + Len(q)
        /\ tx_busy' = SetLowBit(tx_busy) /\ quiet' = 0 /\ ~tx_stop'
        /\ UNCHANGED <<pc, ran, started, current>>
    BY <1>8 DEF TaskWakeup, loopVars
  <2>2. flags' = [x \in Task \cup Poll |->
                    IF x \in woken THEN (flags[x] \ {"PENDING"}) \cup {"BUSY"} ELSE flags[x]]
    BY <1>8 DEF TaskWakeup
  <2>3. \A y : ~(Contains(taskq, y) /\ Contains(q, y))
    BY <1>2, <1>4 DEF TaskFlags
  <2>4. /\ taskq' \in Seq(Elem) /\ Distinct(taskq')
        /\ \A y : Contains(taskq', y) <=> Contains(taskq, y) \/ Contains(q, y)
        /\ \A y, z : Precedes(taskq, y, z) => Precedes(taskq', y, z)
        /\ \A y, z : Contains(taskq, y) /\ Contains(q, z) => Precedes(taskq', y, z)
    BY <1>1, <2>1, <2>3, ConcatFacts
  <2>5. tx_busy' \in 0..3 /\ Odd(tx_busy') /\ tx_busy' # 0
    BY <2>1, BusyArithmetic DEF TypeOK
  <2>6. Len(q) \in Nat
    BY <1>1, LenProperties
  <2>7. TypeOK'
    BY <1>6, <2>1, <2>2, <2>4, <2>5, <2>6 DEF TypeOK, TaskWakeup, loopVars, Flag
  <2>8. DistinctLists' /\ PhonyQueued'
    BY <1>2, <1>5, <2>1, <2>4 DEF PhonyQueued
  <2>9. PollFlags'
    BY <1>2, <2>2, <2>4 DEF PollFlags
  <2>10. TaskFlags'
    <3> SUFFICES ASSUME NEW t \in Task
                 PROVE  /\ Contains(taskq', t) <=> "BUSY" \in flags'[t]
                        /\ (\E v \in WaitQ : Contains(waitq'[v], t)) <=> "PENDING" \in flags'[t]
                        /\ ~("BUSY" \in flags'[t] /\ "PENDING" \in flags'[t])
                        /\ Linked(t)' => "IDLE" \notin flags'[t]
                        /\ ~tx_stop' /\ ~Linked(t)' => "IDLE" \in flags'[t]
      BY DEF TaskFlags
    <3>1. CASE t \in woken
      <4>1. "IDLE" \notin flags'[t] /\ "BUSY" \in flags'[t] /\ "PENDING" \notin flags'[t]
        BY <2>2, <1>4, <3>1
      <4>2. \A v \in WaitQ : ~Contains(waitq'[v], t)
        BY <1>3, <3>1 DEF DistinctLists
      <4>3. Contains(taskq', t) /\ Linked(t)'
        BY <2>4, <3>1 DEF Linked
      <4> QED BY <4>1, <4>2, <4>3
    <3>2. CASE t \notin woken
      <4>1. flags'[t] = flags[t]
        BY <2>2, <3>2
      <4>2. \A v \in WaitQ : Contains(waitq'[v], t) <=> Contains(waitq[v], t)
        BY <1>3, <3>2
      <4>3. Contains(taskq', t) <=> Contains(taskq, t)
        BY <2>4, <3>2
      <4> QED BY <4>1, <4>2, <4>3, <2>1, <1>8 DEF TaskFlags, Linked
    <3> QED BY <3>1, <3>2
  <2>11. BusyBits' /\ QuietBits' /\ PollerAlive'
    BY <1>8, <2>1, <2>4, <2>5 DEF BusyBits, QuietBits, PollerAlive
  <2>12. OncePerPass'
    BY <2>1, <2>4 DEF OncePerPass, PhonyQueued
  <2>13. ActivesCover'
    <3>1. Busy' = Busy \cup woken
      BY <2>2 DEF Busy
    <3>2. IsFiniteSet(woken) /\ Cardinality(woken) <= Len(q) /\ Cardinality(woken) \in Nat
      BY <1>1, ContentsBound, FS_CardinalityType
    <3>3. IsFiniteSet(Busy \cap woken) /\ Cardinality(Busy \cap woken) \in Nat
      BY <3>2, FS_Subset, FS_CardinalityType
    <3>4. Cardinality(Busy \cup woken)
            = Cardinality(Busy) + Cardinality(woken) - Cardinality(Busy \cap woken)
      BY <3>2, BusyFinite, FS_Union
    <3> HIDE DEF woken, q
    <3> QED BY <3>1, <3>2, <3>3, <3>4, <2>1, <2>6, BusyFinite DEF ActivesCover, TypeOK
  <2> QED BY <2>7, <2>8, <2>9, <2>10, <2>11, <2>12, <2>13
<1> QED BY <1>7, <1>8

\* tx_poll_active keeps the lists and the flags in step.  pc may change with it
\* (Return), but not into or out of "out".
LEMMA PollActiveInv ==
    ASSUME IndInv, NEW p \in Poll, PollActive(p),
           UNCHANGED <<waitq, tx_busy, tx_actives, tx_stop, ran, quiet>>,
           pc' = "out" <=> pc = "out"
    PROVE  /\ taskq' \in Seq(Elem) /\ flags' \in [Task \cup Poll -> SUBSET Flag]
           /\ started \subseteq started' /\ started' \subseteq started \cup {p}
           /\ FlagsMatchLists' /\ BusyBits' /\ QuietBits' /\ OncePerPass' /\ ActivesCover'
           /\ \A y : Contains(taskq, y) => Contains(taskq', y)
           /\ ~tx_stop => Contains(taskq', p)
           /\ \A y, z : Precedes(taskq, y, z) => Precedes(taskq', y, z)
           /\ tx_stop => taskq' = taskq
<1> USE DEF IndInv, FlagsMatchLists
<1>1. CASE ~tx_stop /\ "IDLE" \in flags[p]
  <2>1. /\ taskq' = Append(taskq, p) /\ flags' = [flags EXCEPT ![p] = @ \ {"IDLE"}]
        /\ started' = started \cup {p}
    BY <1>1 DEF PollActive
  <2>2. ~Contains(taskq, p) /\ p \in Elem /\ taskq \in Seq(Elem) /\ Distinct(taskq)
    BY <1>1 DEF PollFlags, Elem, TypeOK, DistinctLists
  <2>3. /\ taskq' \in Seq(Elem) /\ Distinct(taskq')
        /\ \A y : Contains(taskq', y) <=> Contains(taskq, y) \/ y = p
        /\ \A y, z : Precedes(taskq', y, z) <=>
                        Precedes(taskq, y, z) \/ (z = p /\ Contains(taskq, y))
    BY <2>1, <2>2, AppendFacts
  <2>4. flags' \in [Task \cup Poll -> SUBSET Flag]
    BY <2>1 DEF TypeOK
  <2>5. /\ \A x \in Task \cup Poll : x # p => flags'[x] = flags[x]
        /\ flags'[p] = flags[p] \ {"IDLE"}
    BY <2>1 DEF TypeOK
  <2>6. DistinctLists' /\ PhonyQueued' /\ PollFlags'
    BY <2>3, <2>5 DEF DistinctLists, PhonyQueued, PollFlags
  <2>7. TaskFlags'
    BY <2>3, <2>5 DEF TaskFlags, Linked
  <2>8. BusyBits' /\ QuietBits'
    BY <2>3 DEF BusyBits, QuietBits
  <2>9. OncePerPass'
    BY <2>3 DEF OncePerPass, PhonyQueued
  <2>10. ActivesCover'
    <3>1. Busy' \subseteq Busy
      BY <2>5 DEF Busy
    <3> QED BY <3>1, ActivesKept
  <2> QED BY <1>1, <2>1, <2>3, <2>4, <2>6, <2>7, <2>8, <2>9, <2>10
<1>2. CASE ~(~tx_stop /\ "IDLE" \in flags[p])
  <2>1. UNCHANGED <<taskq, flags, started>>
    BY <1>2 DEF PollActive
  <2>2. FlagsMatchLists'
    BY <2>1 DEF DistinctLists, PhonyQueued, PollFlags, TaskFlags, Linked
  <2>3. BusyBits' /\ QuietBits' /\ OncePerPass' /\ ActivesCover'
    BY <2>1 DEF BusyBits, QuietBits, OncePerPass, ActivesCover, Busy
  <2>4. ~tx_stop => Contains(taskq', p)
    BY <1>2, <2>1 DEF PollFlags
  <2> HIDE DEF FlagsMatchLists
  <2> QED BY <2>1, <2>2, <2>3, <2>4 DEF TypeOK
<1> QED BY <1>1, <1>2

\* The constructor of a poller queues it, unless the loop is stopped.
LEMMA PollStartInv ==
    ASSUME IndInv, NEW p \in Poll, PollStart(p) PROVE IndInv'
<1>1. PollActive(p) /\ UNCHANGED <<waitq, tx_busy, tx_actives, tx_stop, tx_break, tx_holder,
                                  first_run, current, pc, ran, quiet>>
  BY DEF PollStart
<1>2. /\ taskq' \in Seq(Elem) /\ flags' \in [Task \cup Poll -> SUBSET Flag]
      /\ started \subseteq started' /\ started' \subseteq started \cup {p}
      /\ FlagsMatchLists' /\ BusyBits' /\ QuietBits' /\ OncePerPass' /\ ActivesCover'
      /\ \A y : Contains(taskq, y) => Contains(taskq', y)
      /\ ~tx_stop => Contains(taskq', p)
  BY <1>1, PollActiveInv
<1>3. TypeOK'
  BY <1>1, <1>2 DEF IndInv, TypeOK
<1>4. PollerAlive'
  BY <1>1, <1>2 DEF IndInv, PollerAlive
<1> QED BY <1>2, <1>3, <1>4 DEF IndInv

\* A callback returns; a poller queues itself again.
LEMMA ReturnInv ==
    ASSUME IndInv, Return PROVE IndInv'
<1>1. UNCHANGED <<waitq, tx_busy, tx_actives, tx_stop, tx_break, tx_holder, first_run,
                  ran, quiet>>
  BY DEF Return
<1>2. pc = "call" /\ pc' = "loop" /\ current' = NoTask /\ current \in Task \cup Poll
  BY DEF Return, IndInv, TypeOK
<1>3. CASE current \in Poll
  <2>1. PollActive(current)
    BY <1>3 DEF Return
  <2>2. /\ taskq' \in Seq(Elem) /\ flags' \in [Task \cup Poll -> SUBSET Flag]
        /\ started \subseteq started' /\ started' \subseteq started \cup {current}
        /\ FlagsMatchLists' /\ BusyBits' /\ QuietBits' /\ OncePerPass' /\ ActivesCover'
        /\ \A y : Contains(taskq, y) => Contains(taskq', y)
        /\ ~tx_stop => Contains(taskq', current)
    BY <1>1, <1>2, <1>3, <2>1, PollActiveInv
  <2>3. TypeOK'
    BY <1>1, <1>2, <1>3, <2>2 DEF IndInv, TypeOK
  <2>4. PollerAlive'
    BY <1>1, <2>2 DEF IndInv, PollerAlive
  <2> QED BY <2>2, <2>3, <2>4 DEF IndInv
<1>4. CASE current \in Task
  <2>1. UNCHANGED <<taskq, flags, started>>
    BY <1>4 DEF Return
  <2> USE DEF IndInv, FlagsMatchLists
  <2>2. TypeOK'
    BY <1>1, <1>2, <2>1 DEF TypeOK
  <2>3. DistinctLists' /\ PhonyQueued' /\ PollFlags'
    BY <1>1, <1>2, <2>1 DEF DistinctLists, PhonyQueued, PollFlags
  <2>4. TaskFlags'
    BY <1>1, <2>1 DEF TaskFlags, Linked
  <2>5. BusyBits' /\ QuietBits' /\ OncePerPass' /\ ActivesCover'
    BY <1>1, <1>2, <2>1 DEF BusyBits, QuietBits, OncePerPass, ActivesCover, Busy
  <2>6. PollerAlive'
    BY <1>1, <1>4, <2>1 DEF PollerAlive, TypeOK
  <2> QED BY <2>2, <2>3, <2>4, <2>5, <2>6
<1> QED BY <1>2, <1>3, <1>4

\* tx_loop_main queues its phony task behind everything.
LEMMA LoopEnterInv ==
    ASSUME IndInv, LoopEnter PROVE IndInv'
<1> USE DEF IndInv, FlagsMatchLists
<1>1. UNCHANGED <<waitq, flags, tx_busy, tx_actives, tx_stop, tx_break, tx_holder, current,
                  started, quiet>> /\ pc = "out" /\ pc' = "loop" /\ first_run' = TRUE /\ ran' = {}
  BY DEF LoopEnter
<1>2. ~Contains(taskq, Phony) /\ Phony \in Elem /\ taskq \in Seq(Elem) /\ Distinct(taskq)
  BY <1>1 DEF PhonyQueued, Elem, TypeOK, DistinctLists
<1>3. /\ taskq' \in Seq(Elem) /\ Distinct(taskq')
      /\ \A y : Contains(taskq', y) <=> Contains(taskq, y) \/ y = Phony
      /\ \A y, z : Precedes(taskq', y, z) <=>
                      Precedes(taskq, y, z) \/ (z = Phony /\ Contains(taskq, y))
  BY <1>2, AppendFacts DEF LoopEnter
<1>4. \A z : ~Precedes(taskq, Phony, z)
  BY <1>2 DEF Precedes, Contains
<1>5. TypeOK'
  BY <1>1, <1>3 DEF TypeOK
<1>6. DistinctLists' /\ PhonyQueued' /\ PollFlags'
  BY <1>1, <1>3 DEF DistinctLists, PhonyQueued, PollFlags
<1>7. TaskFlags'
  BY <1>1, <1>3 DEF TaskFlags, Linked
<1>8. BusyBits'
  BY <1>1, <1>3, <1>4 DEF BusyBits
<1>9. QuietBits' /\ OncePerPass' /\ PollerAlive' /\ ActivesCover'
  BY <1>1, <1>3 DEF QuietBits, OncePerPass, PollerAlive, ActivesCover, Busy
<1> QED BY <1>5, <1>6, <1>7, <1>8, <1>9

\* Inside the loop the queue has a head, because the phony task is queued.
LEMMA HeadFacts ==
    ASSUME IndInv, pc # "out"
    PROVE  /\ taskq \in Seq(Elem) /\ Distinct(taskq) /\ taskq # <<>>
           /\ Head(taskq) \in Elem /\ Contains(taskq, Head(taskq))
           /\ Tail(taskq) \in Seq(Elem) /\ Distinct(Tail(taskq))
           /\ \A y : Contains(Tail(taskq), y) <=> Contains(taskq, y) /\ y # Head(taskq)
           /\ \A y, z : Precedes(Tail(taskq), y, z) <=>
                            Precedes(taskq, y, z) /\ y # Head(taskq)
           /\ \A z : Contains(taskq, z) /\ z # Head(taskq) => Precedes(taskq, Head(taskq), z)
<1>1. taskq \in Seq(Elem) /\ Distinct(taskq) /\ Contains(taskq, Phony)
  BY DEF IndInv, FlagsMatchLists, DistinctLists, PhonyQueued, TypeOK
<1>2. taskq # <<>>
  BY <1>1 DEF Contains
<1> QED BY <1>1, <1>2, TailFacts

\* The end of a pass: the phony task goes to the end, tx_busy ages by one bit.
LEMMA RotateInv ==
    ASSUME IndInv, Rotate PROVE IndInv'
<1> USE DEF IndInv, FlagsMatchLists
<1>1. /\ UNCHANGED <<waitq, flags, tx_stop, tx_holder, current, started>>
      /\ pc = "loop" /\ Head(taskq) = Phony /\ first_run' = FALSE /\ ran' = {}
      /\ tx_break' = FALSE
      /\ tx_busy' = (2 * tx_busy) % 4
      /\ tx_actives' = IF Odd(tx_busy) THEN tx_actives ELSE 0
      /\ quiet' = IF quiet < 2 THEN quiet + 1 ELSE 2
  BY DEF Rotate, KeptActives, Aged, Leaves, AtLoopHead
<1> DEFINE tl == Tail(taskq)
<1>2. /\ tl \in Seq(Elem) /\ Distinct(tl)
      /\ \A y : Contains(tl, y) <=> Contains(taskq, y) /\ y # Phony
      /\ \A y, z : Precedes(tl, y, z) <=> Precedes(taskq, y, z) /\ y # Phony
      /\ \A z : Contains(taskq, z) /\ z # Phony => Precedes(taskq, Phony, z)
  BY <1>1, HeadFacts
<1>3. \/ tx_break /\ pc' = "out" /\ taskq' = tl
      \/ ~tx_break /\ pc' = "loop" /\ taskq' = Append(tl, Phony)
  BY DEF Rotate, KeptActives, Aged, Leaves, TypeOK
<1> HIDE DEF tl
<1>4. ~Contains(tl, Phony) /\ Phony \in Elem
  BY <1>2 DEF Elem
<1>5. /\ Append(tl, Phony) \in Seq(Elem) /\ Distinct(Append(tl, Phony))
      /\ \A y : Contains(Append(tl, Phony), y) <=> Contains(tl, y) \/ y = Phony
      /\ \A y, z : Precedes(Append(tl, Phony), y, z) <=>
                      Precedes(tl, y, z) \/ (z = Phony /\ Contains(tl, y))
  BY <1>2, <1>4, AppendFacts
<1>6. /\ taskq' \in Seq(Elem) /\ Distinct(taskq')
      /\ \A y : y # Phony => (Contains(taskq', y) <=> Contains(taskq, y))
      /\ Contains(taskq', Phony) <=> pc' # "out"
      /\ \A z \in Task : ~Precedes(taskq', Phony, z)
  BY <1>2, <1>3, <1>4, <1>5
<1>7. (2 * tx_busy) % 4 \in 0..3 /\ ~Odd(tx_busy')
      /\ (Odd(tx_busy) => tx_busy' # 0) /\ (~Odd(tx_busy) => tx_busy' = 0)
  BY <1>1, BusyArithmetic DEF TypeOK
<1>8. \A t \in Task : Contains(taskq, t) => Odd(tx_busy)
  BY <1>2 DEF BusyBits
<1>9. TypeOK'
  <2>1. tx_busy' \in 0..3 /\ tx_actives' \in Nat /\ quiet' \in 0..2
    BY <1>1, <1>7 DEF TypeOK
  <2>2. pc' \in {"out", "loop"} /\ tx_break' \in BOOLEAN /\ first_run' \in BOOLEAN
    BY <1>1, <1>3
  <2>3. current' = NoTask /\ ran' \in SUBSET (Task \cup Poll)
    BY <1>1 DEF TypeOK
  <2>4. UNCHANGED <<waitq, flags, tx_stop, tx_holder, current, started>>
    BY <1>1
  <2> QED BY <1>6, <2>1, <2>2, <2>3, <2>4 DEF TypeOK
<1>10. DistinctLists' /\ PhonyQueued' /\ PollFlags'
  BY <1>1, <1>6 DEF DistinctLists, PhonyQueued, PollFlags
<1>11. TaskFlags'
  BY <1>1, <1>6 DEF TaskFlags, Linked
<1>12. BusyBits'
  BY <1>6, <1>7, <1>8 DEF BusyBits
<1>13. QuietBits'
  BY <1>1, <1>7 DEF QuietBits, TypeOK
<1>14. OncePerPass' /\ PollerAlive'
  BY <1>1, <1>6 DEF OncePerPass, PollerAlive, TypeOK
<1>15. ActivesCover'
  <2>1. CASE Odd(tx_busy)
    BY <1>1, <2>1 DEF ActivesCover, Busy
  <2>2. CASE ~Odd(tx_busy)
    <3>1. Busy' = {}
      BY <1>1, <1>8, <2>2 DEF Busy, TaskFlags
    <3> QED BY <3>1, <2>2, <1>1, FS_EmptySet DEF ActivesCover
  <2> QED BY <2>1, <2>2
<1> QED BY <1>9, <1>10, <1>11, <1>12, <1>13, <1>14, <1>15

\* tx_loop_main takes the head of the queue and calls it.
LEMMA DispatchInv ==
    ASSUME IndInv, Dispatch PROVE IndInv'
<1> DEFINE x == Head(taskq)
<1> USE DEF IndInv, FlagsMatchLists
<1>1. /\ UNCHANGED <<waitq, tx_busy, tx_stop, tx_break, tx_holder, first_run, started, quiet>>
      /\ pc = "loop" /\ pc' = "call" /\ current' = x /\ ran' = ran \cup {x}
      /\ x # Phony /\ taskq' = Tail(taskq)
      /\ tx_actives' = IF "BUSY" \in flags[x] THEN tx_actives - 1 ELSE tx_actives
      /\ flags' = [flags EXCEPT ![x] = (@ \ {"BUSY", "USER_MARK"}) \cup {"IDLE"}]
  BY DEF Dispatch, Discounted, AtLoopHead
<1>2. /\ taskq' \in Seq(Elem) /\ Distinct(taskq')
      /\ x \in Elem /\ Contains(taskq, x)
      /\ \A y : Contains(taskq', y) <=> Contains(taskq, y) /\ y # x
      /\ \A y, z : Precedes(taskq', y, z) <=> Precedes(taskq, y, z) /\ y # x
  BY <1>1, HeadFacts
<1> HIDE DEF x
<1>3. x \in Task \cup Poll
  BY <1>1, <1>2 DEF Elem
<1>4. /\ \A y \in Task \cup Poll : y # x => flags'[y] = flags[y]
      /\ flags'[x] = (flags[x] \ {"BUSY", "USER_MARK"}) \cup {"IDLE"}
  BY <1>1, <1>3 DEF TypeOK
<1>5. TypeOK'
  <2>1. flags' \in [Task \cup Poll -> SUBSET Flag]
    BY <1>1, <1>3 DEF TypeOK, Flag
  <2>2. current' # NoTask /\ ran' \in SUBSET (Task \cup Poll)
        /\ current' \in Task \cup Poll \cup {NoTask}
    BY <1>1, <1>3 DEF TypeOK
  <2>3. tx_actives' \in Nat
    <3>1. CASE "BUSY" \notin flags[x]
      BY <3>1, <1>1 DEF TypeOK
    <3>2. CASE "BUSY" \in flags[x]
      <4>1. x \in Busy
        BY <3>2, <1>3 DEF PollFlags, Busy
      <4>2. Cardinality(Busy) # 0
        BY <4>1, BusyFinite, FS_EmptySet
      <4> QED BY <3>2, <4>2, <1>1, BusyFinite DEF ActivesCover, TypeOK
    <3> QED BY <3>1, <3>2
  <2> QED BY <1>1, <1>2, <2>1, <2>2, <2>3 DEF TypeOK
<1>6. DistinctLists' /\ PhonyQueued'
  BY <1>1, <1>2 DEF DistinctLists, PhonyQueued
<1>7. PollFlags'
  BY <1>2, <1>4 DEF PollFlags
<1>8. TaskFlags'
  <2> SUFFICES ASSUME NEW t \in Task
               PROVE  /\ Contains(taskq', t) <=> "BUSY" \in flags'[t]
                      /\ (\E v \in WaitQ : Contains(waitq'[v], t)) <=> "PENDING" \in flags'[t]
                      /\ ~("BUSY" \in flags'[t] /\ "PENDING" \in flags'[t])
                      /\ Linked(t)' => "IDLE" \notin flags'[t]
                      /\ ~tx_stop' /\ ~Linked(t)' => "IDLE" \in flags'[t]
    BY DEF TaskFlags
  <2>1. CASE t = x
    <3>1. "PENDING" \notin flags[t] /\ \A v \in WaitQ : ~Contains(waitq[v], t)
      BY <2>1, <1>2 DEF TaskFlags
    <3>2. "BUSY" \notin flags'[t] /\ "IDLE" \in flags'[t] /\ "PENDING" \notin flags'[t]
      BY <2>1, <1>4, <3>1
    <3>3. ~Linked(t)' /\ ~Contains(taskq', t) /\ \A v \in WaitQ : ~Contains(waitq'[v], t)
      BY <2>1, <1>1, <1>2, <3>1 DEF Linked
    <3> QED BY <3>2, <3>3
  <2>2. CASE t # x
    <3>1. flags'[t] = flags[t] /\ (Contains(taskq', t) <=> Contains(taskq, t))
      BY <2>2, <1>2, <1>4
    <3>2. Linked(t)' <=> Linked(t)
      BY <3>1, <1>1 DEF Linked
    <3> QED BY <3>1, <3>2, <1>1 DEF TaskFlags
  <2> QED BY <2>1, <2>2
<1>9. BusyBits' /\ QuietBits'
  BY <1>1, <1>2 DEF BusyBits, QuietBits
<1>10. OncePerPass'
  BY <1>1, <1>2 DEF OncePerPass
<1>11. PollerAlive'
  BY <1>1, <1>2 DEF PollerAlive
<1>12. ActivesCover'
  <2>1. CASE x \in Task
    <3>1. x \in Busy /\ "BUSY" \in flags[x]
      BY <2>1, <1>2 DEF TaskFlags, Busy
    <3>2. Busy' = Busy \ {x}
      BY <1>3, <1>4 DEF Busy
    <3>3. Cardinality(Busy') = Cardinality(Busy) - 1
      BY <3>1, <3>2, BusyFinite, FS_RemoveElement
    <3> QED BY <3>1, <3>3, <1>1, BusyFinite DEF ActivesCover, TypeOK
  <2>2. CASE x \in Poll
    <3>1. "BUSY" \notin flags[x]
      BY <2>2 DEF PollFlags
    <3>2. Busy' \subseteq Busy
      BY <1>4, <2>2 DEF Busy
    <3> QED BY <3>1, <3>2, <1>1, ActivesKept
  <2> QED BY <1>3, <2>1, <2>2
<1> QED BY <1>5, <1>6, <1>7, <1>8, <1>9, <1>10, <1>11, <1>12

\* tx_loop_main removes the phony task from the middle of the queue.
LEMMA LoopExitInv ==
    ASSUME IndInv, LoopExit PROVE IndInv'
<1> USE DEF IndInv, FlagsMatchLists
<1>1. /\ UNCHANGED <<waitq, flags, tx_busy, tx_actives, tx_stop, tx_break, tx_holder,
                     first_run, current, started, quiet>>
      /\ pc = "loop" /\ pc' = "out" /\ ran' = {} /\ tx_stop
  BY DEF LoopExit
<1>2. /\ taskq' \in Seq(Elem) /\ Distinct(taskq')
      /\ \A y : Contains(taskq', y) <=> Contains(taskq, y) /\ y # Phony
      /\ \A y, z : Precedes(taskq', y, z) => Precedes(taskq, y, z)
  BY UnlinkQueued DEF LoopExit
<1>3. TypeOK'
  BY <1>1, <1>2 DEF TypeOK
<1>4. DistinctLists' /\ PhonyQueued' /\ PollFlags'
  BY <1>1, <1>2 DEF DistinctLists, PhonyQueued, PollFlags
<1>5. TaskFlags'
  BY <1>1, <1>2 DEF TaskFlags, Linked
<1>6. BusyBits' /\ QuietBits' /\ OncePerPass' /\ PollerAlive' /\ ActivesCover'
  BY <1>1, <1>2 DEF BusyBits, QuietBits, OncePerPass, PollerAlive, ActivesCover, Busy
<1> QED BY <1>3, <1>4, <1>5, <1>6

\* Every step keeps the invariant, one case per action.
LEMMA NextIndInv == IndInv /\ [Next]_vars => IndInv'
<1> SUFFICES ASSUME IndInv, [Next]_vars PROVE IndInv'
  OBVIOUS
<1>1. CASE LoopStep
  BY <1>1, LoopEnterInv, RotateInv, DispatchInv, ReturnInv, LoopExitInv DEF LoopStep
<1>2. CASE TaskStep
  BY <1>2, TaskInitInv, TaskMarkInv, TaskActiveInv, TaskDropInv, TaskRecordInv DEF TaskStep
<1>3. CASE WakeStep
  BY <1>3, TaskWakeupInv DEF WakeStep
<1>4. CASE PollStep
  BY <1>4, PollStartInv, ScalarInv DEF PollStep
<1>5. CASE LoopBreak \/ LoopStop
  BY <1>5, ScalarInv
<1>6. CASE UNCHANGED vars
  <2> USE DEF IndInv, FlagsMatchLists, vars
  <2>1. TypeOK'
    BY <1>6 DEF TypeOK
  <2>2. DistinctLists' /\ PhonyQueued' /\ PollFlags'
    BY <1>6 DEF DistinctLists, PhonyQueued, PollFlags
  <2>3. TaskFlags'
    BY <1>6 DEF TaskFlags, Linked
  <2>4. BusyBits' /\ QuietBits' /\ OncePerPass' /\ PollerAlive' /\ ActivesCover'
    BY <1>6 DEF BusyBits, QuietBits, OncePerPass, PollerAlive, ActivesCover, Busy
  <2> QED BY <2>1, <2>2, <2>3, <2>4
<1> QED BY <1>1, <1>2, <1>3, <1>4, <1>5, <1>6 DEF Next

\* IndInv holds in every state of every behaviour of the loop.
THEOREM Invariance == Spec => []IndInv
<1> QED BY InitIndInv, NextIndInv, PTL DEF Spec

-----------------------------------------------------------------------------
(* The properties.                                                         *)

\* Every state of tx_loop.cpp's data structures is well typed.
THEOREM TypeCorrect == Spec => []TypeOK
<1>1. IndInv => TypeOK
  BY DEF IndInv
<1> QED BY <1>1, Invariance, PTL

\* The flags of a task always tell which list its LIST_ENTRY is on, so that every
\* LIST_REMOVE in tx_loop.cpp is applied to a linked element.
THEOREM ListsConsistent == Spec => []FlagsMatchLists
<1>1. IndInv => FlagsMatchLists
  BY DEF IndInv
<1> QED BY <1>1, Invariance, PTL

\* tx_actives never drops below the number of BUSY tasks.
THEOREM ActivesCovered == Spec => []ActivesCover
<1>1. IndInv => ActivesCover
  BY DEF IndInv
<1> QED BY <1>1, Invariance, PTL

\* No poller sleeps while a task is BUSY: a BUSY task is queued, so tx_busy has
\* one of its two bits set, and it is counted, so tx_actives is positive.
THEOREM NoSleep == Spec => []NoSleepWithWork
<1>1. IndInv => NoSleepWithWork
  <2> SUFFICES ASSUME IndInv, Busy # {} PROVE \A p \in Poll : tx_loop_timeout(p) = 0
    BY DEF NoSleepWithWork
  <2>1. PICK t \in Task : "BUSY" \in flags[t]
    BY DEF Busy
  <2>2. tx_busy # 0
    BY <2>1 DEF IndInv, FlagsMatchLists, TaskFlags, BusyBits
  <2>3. Cardinality(Busy) # 0
    BY BusyFinite, FS_EmptySet
  <2>4. tx_actives > 0
    BY <2>3, BusyFinite DEF IndInv, ActivesCover, TypeOK
  <2> QED BY <2>2, <2>4 DEF tx_loop_timeout
<1> QED BY <1>1, Invariance, PTL

\* Two passes after the last activation the holder, or without a holder every
\* poller, may sleep.
THEOREM IdleSleeps == Spec => []IdleLoopSleeps
<1>1. IndInv => IdleLoopSleeps
  <2> SUFFICES ASSUME IndInv, quiet = 2, ~tx_break, NEW p \in Poll, tx_holder \in {NoTask, p}
               PROVE  tx_loop_timeout(p) = 10000
    BY DEF IdleLoopSleeps
  <2>1. tx_busy = 0
    BY DEF IndInv, QuietBits
  <2> QED BY <2>1 DEF tx_loop_timeout
<1> QED BY <1>1, Invariance, PTL

\* Within one pass tx_loop_main calls nothing twice.
THEOREM PassFair == Spec => []OncePerPass
<1>1. IndInv => OncePerPass
  BY DEF IndInv
<1> QED BY <1>1, Invariance, PTL

\* A started poller stays queued, or is being called, until the loop is stopped.
THEOREM PollersStay == Spec => []PollerAlive
<1>1. IndInv => PollerAlive
  BY DEF IndInv
<1> QED BY <1>1, Invariance, PTL

\* The run queue changes in four ways: an element is removed, elements that were
\* not queued are added behind the others, both in the rotation of the phony
\* task, or nothing changes.  None of them reorders what stays.
LEMMA StepKeepsOrder ==
    ASSUME IndInv, Next PROVE NoOvertaking /\ NothingQueuedAfterStop
<1> USE DEF NoOvertaking, NothingQueuedAfterStop
<1>1. taskq \in Seq(Elem) /\ Distinct(taskq) /\ DistinctLists /\ TypeOK
  BY DEF IndInv, FlagsMatchLists, DistinctLists, TypeOK
<1>2. ASSUME NEW t \in Task, TaskActive(t) PROVE NoOvertaking /\ NothingQueuedAfterStop
  <2>1. ~Contains(taskq, t) /\ taskq' = Append(taskq, t) /\ t \in Elem /\ ~tx_stop
    BY <1>2 DEF IndInv, FlagsMatchLists, TaskFlags, TaskActive, MayActivate, Queued, Counted, Unlink, Elem
  <2>2. \A y, z : Precedes(taskq, y, z) => Precedes(taskq', y, z)
    BY <1>1, <2>1, AppendFacts
  <2> QED BY <2>1, <2>2
<1>3. ASSUME NEW t \in Task, TaskDrop(t) \/ \E w \in WaitQ : TaskRecord(w, t)
      PROVE  NoOvertaking /\ NothingQueuedAfterStop
  <2>1. taskq' = Unlink(taskq, t) /\ tx_stop' = tx_stop
    BY <1>3 DEF TaskDrop, TaskRecord, loopVars
  <2>2. /\ \A y : Contains(taskq', y) <=> Contains(taskq, y) /\ y # t
        /\ \A y, z : y # t /\ z # t /\ Precedes(taskq, y, z) => Precedes(taskq', y, z)
    BY <1>1, <2>1, UnlinkQueued
  <2> QED BY <2>1, <2>2
<1>4. ASSUME NEW w \in WaitQ, TaskWakeup(w) PROVE NoOvertaking /\ NothingQueuedAfterStop
  <2>1. CASE tx_stop
    BY <1>4, <2>1 DEF TaskWakeup, loopVars
  <2>2. CASE ~tx_stop
    <3>1. taskq' = taskq \o waitq[w]
      BY <1>4, <2>2 DEF TaskWakeup
    <3>2. waitq[w] \in Seq(Task) /\ waitq[w] \in Seq(Elem) /\ Distinct(waitq[w])
      <4>1. Task \subseteq Elem /\ waitq[w] \in Seq(Task)
        BY <1>1 DEF Elem, TypeOK
      <4> QED BY <4>1, <1>1, SeqMonotonic DEF DistinctLists
    <3>3. \A y : ~(Contains(taskq, y) /\ Contains(waitq[w], y))
      <4>1. \A y : Contains(waitq[w], y) => y \in Task
        BY <3>2 DEF Contains
      <4> QED BY <4>1 DEF IndInv, FlagsMatchLists, TaskFlags
    <3>4. \A y, z : Precedes(taskq, y, z) => Precedes(taskq', y, z)
      BY <1>1, <3>1, <3>2, <3>3, ConcatFacts
    <3> QED BY <2>2, <3>4
  <2> QED BY <2>1, <2>2
<1>5. ASSUME NEW p \in Poll, PollStart(p) PROVE NoOvertaking /\ NothingQueuedAfterStop
  <2>1. /\ PollActive(p) /\ pc' = pc
        /\ UNCHANGED <<waitq, tx_busy, tx_actives, tx_stop, ran, quiet>>
    BY <1>5 DEF PollStart
  <2>2. /\ \A y, z : Precedes(taskq, y, z) => Precedes(taskq', y, z)
        /\ tx_stop => taskq' = taskq
    BY <2>1, PollActiveInv
  <2> QED BY <2>1, <2>2
<1>6. ASSUME Return PROVE NoOvertaking /\ NothingQueuedAfterStop
  <2>1. /\ UNCHANGED <<waitq, tx_busy, tx_actives, tx_stop, ran, quiet>>
        /\ pc' # "out" /\ pc # "out"
    BY <1>6 DEF Return
  <2>2. CASE current \in Poll
    <3>1. PollActive(current)
      BY <1>6, <2>2 DEF Return
    <3>2. /\ \A y, z : Precedes(taskq, y, z) => Precedes(taskq', y, z)
          /\ tx_stop => taskq' = taskq
      BY <2>1, <2>2, <3>1, PollActiveInv
    <3> QED BY <2>1, <3>2
  <2>3. CASE current \notin Poll
    BY <1>6, <2>3 DEF Return
  <2> QED BY <2>2, <2>3
<1>7. ASSUME LoopEnter PROVE NoOvertaking /\ NothingQueuedAfterStop
  <2>1. taskq' = Append(taskq, Phony) /\ ~Contains(taskq, Phony) /\ tx_stop' = tx_stop
        /\ Phony \in Elem
    BY <1>7 DEF LoopEnter, IndInv, FlagsMatchLists, PhonyQueued, Elem
  <2>2. /\ \A y, z : Precedes(taskq, y, z) => Precedes(taskq', y, z)
        /\ \A y : Contains(taskq', y) <=> Contains(taskq, y) \/ y = Phony
    BY <1>1, <2>1, AppendFacts
  <2> QED BY <2>1, <2>2
<1>8. ASSUME Rotate \/ Dispatch PROVE NoOvertaking /\ NothingQueuedAfterStop
  <2>1. pc # "out" /\ tx_stop' = tx_stop
    BY <1>8 DEF Rotate, KeptActives, Aged, Leaves, Dispatch, AtLoopHead
  <2> DEFINE tl == Tail(taskq)
  <2>2. /\ tl \in Seq(Elem) /\ Distinct(tl)
        /\ \A y : Contains(tl, y) <=> Contains(taskq, y) /\ y # Head(taskq)
        /\ \A y, z : Precedes(tl, y, z) <=> Precedes(taskq, y, z) /\ y # Head(taskq)
    BY <2>1, HeadFacts
  <2>3. taskq' = tl \/ (taskq' = Append(tl, Phony) /\ Head(taskq) = Phony)
    BY <1>8 DEF Rotate, KeptActives, Aged, Leaves, Dispatch
  <2> HIDE DEF tl
  <2>4. CASE taskq' = tl
    BY <2>1, <2>2, <2>4
  <2>5. CASE taskq' = Append(tl, Phony) /\ Head(taskq) = Phony
    <3>1. Phony \in Elem /\ ~Contains(tl, Phony)
      BY <2>2, <2>5 DEF Elem
    <3>2. /\ \A y : Contains(taskq', y) <=> Contains(tl, y) \/ y = Phony
          /\ \A y, z : Precedes(tl, y, z) => Precedes(taskq', y, z)
      BY <2>2, <2>5, <3>1, AppendFacts
    <3> QED BY <2>1, <2>2, <2>5, <3>2
  <2> QED BY <2>3, <2>4, <2>5
<1>9. ASSUME LoopExit PROVE NoOvertaking /\ NothingQueuedAfterStop
  <2>1. taskq' = Unlink(taskq, Phony) /\ tx_stop' = tx_stop
    BY <1>9 DEF LoopExit
  <2>2. /\ \A y : Contains(taskq', y) <=> Contains(taskq, y) /\ y # Phony
        /\ \A y, z : y # Phony /\ z # Phony /\ Precedes(taskq, y, z) => Precedes(taskq', y, z)
    BY <1>1, <2>1, UnlinkQueued
  <2> QED BY <2>1, <2>2
<1>10. ASSUME \/ LoopBreak \/ LoopStop \/ (\E p \in Poll : Hold(p) \/ Release(p))
              \/ \E t \in Task : TaskInit(t) \/ TaskMark(t)
       PROVE  NoOvertaking /\ NothingQueuedAfterStop
  <2>1. taskq' = taskq /\ (tx_stop => tx_stop')
    BY <1>10 DEF LoopBreak, LoopStop, Hold, Release, TaskInit, TaskMark, loopVars
  <2> QED BY <2>1
<1> HIDE DEF NoOvertaking, NothingQueuedAfterStop
<1> QED BY <1>2, <1>3, <1>4, <1>5, <1>6, <1>7, <1>8, <1>9, <1>10
        DEF Next, LoopStep, TaskStep, WakeStep, PollStep

\* The run queue of tx_loop.cpp is first-in first-out.
THEOREM FirstInFirstOut == Spec => OrderKept
<1>1. IndInv /\ [Next]_vars => [NoOvertaking]_vars
  BY StepKeepsOrder
<1> QED BY <1>1, Invariance, PTL DEF Spec, OrderKept

\* tx_loop_stop is final.
THEOREM StopFinal == Spec => StopIsFinal
<1>1. IndInv /\ [Next]_vars => [NothingQueuedAfterStop]_vars
  BY StepKeepsOrder
<1> QED BY <1>1, Invariance, PTL DEF Spec, StopIsFinal
-----------------------------------------------------------------------------
(* The timer ring.                                                         *)

USE RingAssumption

ringAll == <<vars, ringVars>>

\* RingKept is not inductive: a loop stopped late calls the ring no more, and a ring
\* exists only once its poller was queued.
RingInv ==
    /\ rings \in Nat
    /\ RingKept
    /\ Ring \notin started => rings = 0
    /\ late => tx_stop /\ ~first_run /\ current # Ring

\* With the ring the loop takes the steps of TxLoop: the ring only adds its own state.
LEMMA RingStepIsLoopStep == [RingNext]_ringAll => [Next]_vars
<1>1. ASSUME RingNext PROVE [Next]_vars
  <2>1. CASE \E p \in Poll : RingStart(p)
    BY <2>1 DEF RingStart, Next, PollStep
  <2>2. CASE RingGet
    BY <2>2 DEF RingGet
  <2>3. CASE RingReturn \/ RingStop \/ RingEnter
    BY <2>3 DEF RingReturn, RingStop, RingEnter, Next, LoopStep
  <2>4. CASE OtherStep
    BY <2>4 DEF OtherStep, Next, LoopStep, PollStep
  <2> QED BY <1>1, <2>1, <2>2, <2>3, <2>4 DEF RingNext
<1> QED BY <1>1 DEF ringAll

\* The loop that runs the timer ring is the loop of TxLoop: every theorem about Spec holds
\* of it.
THEOREM RingRefinesLoop == RingSpec => Spec
<1>1. RingInit => Init
  BY DEF RingInit
<1> QED BY <1>1, RingStepIsLoopStep, PTL DEF RingSpec, Spec, ringAll

\* What a step that is not the ring's own leaves alone: no such step queues the ring, and
\* only Dispatch, from the run queue, calls it.
LEMMA OtherStepKeepsRing ==
    ASSUME IndInv, IndInv', OtherStep
    PROVE  /\ Contains(taskq', Ring) => Contains(taskq, Ring)
           /\ current' = Ring => current = Ring \/ Contains(taskq, Ring)
           /\ Ring \in started' <=> Ring \in started
           /\ tx_stop' = tx_stop
           /\ tx_stop /\ ~first_run => ~first_run' /\ (current' = Ring => current = Ring)
<1>1. /\ Ring \in Poll /\ Ring \notin Task /\ Ring # Phony /\ Ring # NoTask
      /\ Contains(taskq, Ring) <=> "IDLE" \notin flags[Ring]
      /\ Contains(taskq', Ring) <=> "IDLE" \notin flags'[Ring]
      /\ flags \in [Task \cup Poll -> SUBSET Flag]
  BY DEF IndInv, FlagsMatchLists, PollFlags, TypeOK
<1>2. CASE Rotate \/ LoopExit
  BY <1>1, <1>2 DEF Rotate, LoopExit, AtLoopHead, KeptActives, Aged, Leaves
<1>3. CASE Dispatch
  <2> DEFINE x == Head(taskq)
  <2>1. pc # "out"
    BY <1>3 DEF Dispatch, AtLoopHead
  <2>2. Contains(taskq, x)
    BY <2>1, HeadFacts
  <2>3. /\ flags' = [flags EXCEPT ![x] = (@ \ {"BUSY", "USER_MARK"}) \cup {"IDLE"}]
        /\ current' = x /\ UNCHANGED <<tx_stop, first_run, started>>
        /\ ~tx_stop \/ first_run
    BY <1>3 DEF Dispatch, AtLoopHead
  <2> HIDE DEF x
  <2> QED BY <1>1, <2>2, <2>3
<1>4. CASE current # Ring /\ Return
  BY <1>1, <1>4 DEF Return, PollActive
<1>5. CASE TaskStep
  BY <1>1, <1>5 DEF TaskStep, TaskInit, TaskMark, TaskActive, Counted, TaskDrop, TaskRecord, loopVars
<1>6. CASE WakeStep
  BY <1>1, <1>6 DEF WakeStep, TaskWakeup, loopVars
<1>7. CASE LoopBreak \/ \E p \in Poll : Hold(p) \/ Release(p)
  BY <1>1, <1>7 DEF LoopBreak, Hold, Release
<1> QED BY <1>2, <1>3, <1>4, <1>5, <1>6, <1>7 DEF OtherStep

\* Every step keeps the ring's invariant.
LEMMA NextRingInv ==
    ASSUME IndInv, IndInv', RingInv, [RingNext]_ringAll
    PROVE  RingInv'
<1> USE DEF RingInv, RingKept
<1>1. /\ Ring \in Poll /\ Ring \notin Task /\ Ring # NoTask
      /\ Contains(taskq, Ring) <=> "IDLE" \notin flags[Ring]
      /\ Contains(taskq', Ring) <=> "IDLE" \notin flags'[Ring]
      /\ flags \in [Task \cup Poll -> SUBSET Flag]
      /\ pc = "call" <=> current # NoTask
  BY DEF IndInv, FlagsMatchLists, PollFlags, TypeOK
<1>2. InUserCode => current # Ring
  BY <1>1 DEF InUserCode
<1>3. ASSUME NEW p \in Poll, RingStart(p) PROVE RingInv'
  <2>1. /\ InUserCode /\ p \notin started /\ PollActive(p)
        /\ UNCHANGED <<tx_stop, first_run, current, late>>
    BY <1>3 DEF RingStart, PollStart
  <2>2. CASE p = Ring
    <3>1. rings = 0 /\ ~Contains(taskq, Ring) /\ current # Ring
      BY <2>1, <2>2
    <3>2. rings' = IF tx_stop THEN 0 ELSE 1
      BY <1>3, <2>2, <3>1 DEF RingStart, tx_timer_ring_new
    <3> QED BY <1>1, <2>1, <2>2, <3>1, <3>2 DEF PollActive
  <2>3. CASE p # Ring
    <3>1. rings' = rings
      BY <1>3, <2>3 DEF RingStart
    <3>2. flags'[Ring] = flags[Ring] /\ (Ring \in started' <=> Ring \in started)
      BY <1>1, <2>1, <2>3 DEF PollActive
    <3> QED BY <1>1, <2>1, <3>1, <3>2
  <2> QED BY <2>2, <2>3
<1>4. CASE RingGet
  <2>1. tx_stop
    BY <1>2, <1>4 DEF RingGet, IndInv, PollerAlive
  <2> QED BY <1>4, <2>1 DEF RingGet, tx_timer_ring_new, vars
<1>5. CASE RingReturn
  <2>1. /\ current = Ring /\ PollActive(Ring) /\ current' = NoTask
        /\ UNCHANGED <<tx_stop, first_run, late>>
        /\ rings' = rings - (IF "IDLE" \in flags'[Ring] THEN 1 ELSE 0)
    BY <1>1, <1>5 DEF RingReturn, Return
  <2>2. rings = 1 /\ ~late /\ Ring \in started
    BY <2>1
  <2>3. Ring \in started'
    BY <2>1, <2>2 DEF PollActive
  <2>4. "IDLE" \in flags'[Ring] => tx_stop
    BY <1>1, <2>1 DEF PollActive
  <2> QED BY <1>1, <2>1, <2>2, <2>3, <2>4
<1>6. CASE RingStop
  <2>1. /\ UNCHANGED <<taskq, first_run, current, started, rings>> /\ tx_stop' /\ current # Ring
        /\ late' <=> (late \/ (pc = "call" /\ ~first_run /\ ~tx_stop))
    BY <1>2, <1>6, Zenon DEF RingStop, LoopStop
  <2> QED BY <2>1
<1>7. CASE RingEnter
  <2>1. UNCHANGED <<flags, tx_stop, current, started, rings>> /\ ~late'
    BY <1>7 DEF RingEnter, LoopEnter
  <2> QED BY <1>1, <2>1
<1>8. CASE OtherStep
  <2>1. rings' = rings /\ late' = late
    BY <1>8 DEF OtherStep, ringVars
  <2> QED BY <1>8, <2>1, OtherStepKeepsRing
<1>9. CASE UNCHANGED ringAll
  BY <1>9 DEF ringAll, ringVars, vars
<1> QED BY <1>3, <1>4, <1>5, <1>6, <1>7, <1>8, <1>9 DEF RingNext

\* tx_timer.cpp never has two timer rings, the loop never calls a deleted one, and a ring is
\* deleted only if the loop was stopped in or before the first pass of a tx_loop_main.
THEOREM RingStays == RingSpec => []RingKept
<1>1. RingInit => IndInv /\ RingInv
  <2> SUFFICES ASSUME RingInit PROVE IndInv /\ RingInv
    OBVIOUS
  <2>1. IndInv
    BY InitIndInv DEF RingInit
  <2>2. ~Contains(taskq, Ring) /\ current # Ring /\ rings = 0 /\ ~late /\ Ring \notin started
    BY DEF RingInit, Init, Contains
  <2> QED BY <2>1, <2>2 DEF RingInv, RingKept
<1>2. IndInv /\ RingInv /\ [RingNext]_ringAll => (IndInv /\ RingInv)'
  BY RingStepIsLoopStep, NextIndInv, NextRingInv
<1>3. RingInv => RingKept
  BY DEF RingInv
<1> QED BY <1>1, <1>2, <1>3, PTL DEF RingSpec, ringAll
-----------------------------------------------------------------------------
(* The lists.  TxTaskLists, which the pointers of TxList implement, is      *)
(* implemented by the loop: pollers are queued as tasks are.                *)

TaskLists == INSTANCE TxTaskLists
                 WITH Task <- Task \cup Poll, phony <- Phony,
                      runq <- taskq, waitq <- waitq, stopped <- tx_stop

LEMMA TaskListsOperators ==
    ASSUME NEW q, NEW x
    PROVE  /\ TaskLists!Unlink(q, x) = Unlink(q, x)
           /\ TaskLists!Contains(q, x) <=> Contains(q, x)
           /\ TaskLists!Cons(x, q) = Cons(x, q)
BY DEF TaskLists!Unlink, Unlink, TaskLists!Contains, Contains, TaskLists!RemoveAt, RemoveAt,
       TaskLists!Cons, Cons

\* Unlinking the head of a queue leaves its tail.
LEMMA UnlinkHead ==
    ASSUME NEW S, NEW q \in Seq(S), q # << >>, Distinct(q)
    PROVE  Unlink(q, Head(q)) = Tail(q)
<1>1. Len(q) \in Nat /\ Len(q) # 0 /\ q[1] = Head(q)
  OBVIOUS
<1>2. 1 \in 1..Len(q)
  BY <1>1
<1>3. Contains(q, Head(q)) /\ (CHOOSE i \in 1..Len(q) : q[i] = Head(q)) = 1
  BY <1>1, <1>2 DEF Contains, Distinct
<1> DEFINE a == RemoveAt(q, 1)
           b == Tail(q)
<1>4. /\ a \in Seq(S) /\ Len(a) = Len(q) - 1
      /\ \A i \in 1..(Len(q) - 1) : a[i] = IF i < 1 THEN q[i] ELSE q[i + 1]
  BY <1>2, RemoveAtElements
<1>5. /\ b \in Seq(S) /\ Len(b) = Len(q) - 1
      /\ \A i \in 1..(Len(q) - 1) : b[i] = q[i + 1]
  BY <1>1
<1> HIDE DEF a, b
<1>6. \A i \in 1..Len(a) : a[i] = b[i]
  BY <1>1, <1>4, <1>5
<1>7. a = b
  BY <1>4, <1>5, <1>6, SeqEqual
<1> QED BY <1>3, <1>7 DEF a, b, Unlink

\* tx_poll_active of a poller that is not queued puts it at the end, once.
LEMMA PollActiveIsActive ==
    ASSUME IndInv, NEW p \in Poll, PollActive(p), UNCHANGED <<waitq, tx_stop>>
    PROVE  TaskLists!Active(p) \/ UNCHANGED <<taskq, waitq, tx_stop>>
<1>1. CASE ~tx_stop /\ "IDLE" \in flags[p]
  <2>1. ~Contains(taskq, p) /\ taskq' = Append(taskq, p)
    BY <1>1 DEF PollActive, IndInv, FlagsMatchLists, PollFlags
  <2>2. waitq \in [WaitQ -> Seq(Task)] /\ p \notin Task
    BY DEF IndInv, TypeOK
  <2>3. ASSUME NEW w \in WaitQ PROVE ~Contains(waitq[w], p)
    <3>1. waitq[w] \in Seq(Task)
      BY <2>2
    <3>2. \A i \in 1..Len(waitq[w]) : waitq[w][i] \in Task
      BY <3>1
    <3> QED BY <2>2, <3>2 DEF Contains
  <2>4. TaskLists!Off(p) = waitq
    BY <2>2, <2>3, TaskListsOperators DEF TaskLists!Off, Unlink
  <2>5. TaskLists!Unlink(taskq, p) = taskq
    BY <2>1, TaskListsOperators DEF Unlink
  <2> QED BY <1>1, <2>1, <2>4, <2>5 DEF TaskLists!Active
<1>2. CASE ~(~tx_stop /\ "IDLE" \in flags[p])
  BY <1>2 DEF PollActive
<1> QED BY <1>1, <1>2

\* Every step of the loop is a step of the lists, or leaves them alone.
LEMMA LoopStepIsListStep ==
    ASSUME IndInv, Next
    PROVE  TaskLists!Next \/ UNCHANGED <<taskq, waitq, tx_stop>>
<1>1. /\ taskq \in Seq(Elem) /\ Distinct(taskq)
      /\ Contains(taskq, Phony) <=> pc # "out"
      /\ waitq \in [WaitQ -> Seq(Task)]
  BY DEF IndInv, TypeOK, FlagsMatchLists, DistinctLists, PhonyQueued
<1>2. \A t : TaskLists!Off(t) = [w \in WaitQ |-> Unlink(waitq[w], t)]
  BY TaskListsOperators DEF TaskLists!Off
<1>3. ASSUME NEW t \in Task, TaskActive(t) PROVE TaskLists!Active(t)
  BY <1>2, <1>3, TaskListsOperators DEF TaskActive, MayActivate, Queued, loopVars, TaskLists!Active
<1>4. ASSUME NEW t \in Task, TaskDrop(t) PROVE TaskLists!Drop(t)
  BY <1>2, <1>4, TaskListsOperators DEF TaskDrop, loopVars, TaskLists!Drop
<1>5. ASSUME NEW t \in Task, NEW w \in WaitQ, TaskRecord(w, t) PROVE TaskLists!Record(w, t)
  <2>1. waitq' = [TaskLists!Off(t) EXCEPT ![w] = Cons(t, Unlink(waitq[w], t))]
    BY <1>2, <1>5 DEF TaskRecord
  <2>2. [TaskLists!Off(t) EXCEPT ![w] = TaskLists!Cons(t, @)]
        = [TaskLists!Off(t) EXCEPT ![w] = Cons(t, Unlink(waitq[w], t))]
    BY <1>2, TaskListsOperators
  <2> QED BY <1>5, <2>1, <2>2, TaskListsOperators DEF TaskRecord, loopVars, TaskLists!Record
<1>6. ASSUME NEW w \in WaitQ, TaskWakeup(w) PROVE TaskLists!Wakeup(w)
  BY <1>6 DEF TaskWakeup, loopVars, TaskLists!Wakeup
<1>7. CASE LoopStop
  BY <1>7 DEF LoopStop, TaskLists!Stop, TaskLists!Next
<1>8. CASE LoopEnter
  <2>1. TaskLists!Enter
    BY <1>1, <1>8, TaskListsOperators DEF LoopEnter, TaskLists!Enter
  <2> QED BY <2>1 DEF TaskLists!Next
<1>9. CASE Rotate
  <2>1. Contains(taskq, Phony) /\ Head(taskq) = Phony /\ taskq # << >>
    BY <1>1, <1>9 DEF Rotate, AtLoopHead, Contains
  <2>2. Unlink(taskq, Phony) = Tail(taskq)
    BY <1>1, <2>1, UnlinkHead
  <2>3. TaskLists!Leave \/ TaskLists!Take
    BY <1>9, <2>1, <2>2, TaskListsOperators DEF Rotate, TaskLists!Leave, TaskLists!Take
  <2> QED BY <2>3 DEF TaskLists!Next
<1>10. CASE Dispatch
  <2>1. TaskLists!Take
    BY <1>1, <1>10, TaskListsOperators DEF Dispatch, AtLoopHead, TaskLists!Take
  <2> QED BY <2>1 DEF TaskLists!Next
<1>11. CASE LoopExit
  <2>1. TaskLists!Leave
    BY <1>11, TaskListsOperators DEF LoopExit, TaskLists!Leave
  <2> QED BY <2>1 DEF TaskLists!Next
<1>12. CASE Return
  <2>1. CASE current \in Poll
    BY <1>12, <2>1, PollActiveIsActive DEF Return, TaskLists!Next
  <2>2. CASE current \notin Poll
    BY <1>12, <2>2 DEF Return
  <2> QED BY <2>1, <2>2
<1>13. ASSUME NEW p \in Poll, PollStart(p)
       PROVE  TaskLists!Next \/ UNCHANGED <<taskq, waitq, tx_stop>>
  BY <1>13, PollActiveIsActive DEF PollStart, TaskLists!Next
<1>14. ASSUME NEW p \in Poll, Hold(p) \/ Release(p) PROVE UNCHANGED <<taskq, waitq, tx_stop>>
  BY <1>14 DEF Hold, Release
<1>15. ASSUME NEW t \in Task, TaskInit(t) \/ TaskMark(t) PROVE UNCHANGED <<taskq, waitq, tx_stop>>
  BY <1>15 DEF TaskInit, TaskMark, loopVars
<1>16. CASE LoopBreak
  BY <1>16 DEF LoopBreak
<1>17. CASE LoopStep
  BY <1>8, <1>9, <1>10, <1>11, <1>12, <1>17 DEF LoopStep
<1>18. CASE TaskStep
  <2>1. PICK t \in Task : \/ TaskInit(t) \/ TaskMark(t) \/ TaskActive(t) \/ TaskDrop(t)
                          \/ \E w \in WaitQ : TaskRecord(w, t)
    BY <1>18 DEF TaskStep
  <2> QED BY <1>3, <1>4, <1>5, <1>15, <2>1 DEF TaskLists!Next
<1>19. CASE WakeStep
  BY <1>6, <1>19 DEF WakeStep, TaskLists!Next
<1>20. CASE PollStep
  BY <1>13, <1>14, <1>20 DEF PollStep
<1> QED BY <1>7, <1>16, <1>17, <1>18, <1>19, <1>20 DEF Next

\* The loop changes its lists only by the operations that TxList implements on pointers.
THEOREM LoopRefinesLists == Spec => TaskLists!Spec
<1>1. Init => TaskLists!Init
  BY DEF Init, TaskLists!Init
<1>2. IndInv /\ [Next]_vars => [TaskLists!Next]_(TaskLists!vars)
  <2>1. ASSUME UNCHANGED vars PROVE UNCHANGED <<taskq, waitq, tx_stop>>
    BY <2>1 DEF vars
  <2> QED BY <2>1, LoopStepIsListStep DEF TaskLists!vars
<1> QED BY <1>1, <1>2, Invariance, PTL DEF Spec, TaskLists!Spec
===============================================================================
