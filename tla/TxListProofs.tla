----------------------------- MODULE TxListProofs -----------------------------
(***************************************************************************)
(* The pointers of TxList form the sequences of TxTaskLists, for any       *)
(* number of tasks and wait queues.  The invariant is stated of sequences  *)
(* that the pointers link; that LIST_FOREACH_SAFE finds these sequences    *)
(* needs induction over the walk, which is taken from the well-foundedness *)
(* of the naturals.                                                        *)
(***************************************************************************)
EXTENDS TxList, TxQueue, FiniteSetTheorems, SequenceTheorems, TLAPS

Cells == Elem \cup Heads

MemTypes == [cell : [Cells -> Elem \cup {NULL}], prev : [Elem -> Cells]]

\* The i-th element of the list s, and its head.
Node(h, s, i) == IF i = 0 THEN h ELSE s[i]

\* The pointers link h and the elements of s, forward and back.
Links(cell, prev, h, s) ==
    /\ \A i \in 0..Len(s) : cell[Node(h, s, i)] = IF i = Len(s) THEN NULL ELSE s[i + 1]
    /\ \A i \in 1..Len(s) : prev[s[i]] = Node(h, s, i - 1)

\* No element is on two lists of q, or twice on one.
Apart(q) ==
    \A g, h \in Heads : \A i \in 1..Len(q[g]), j \in 1..Len(q[h]) :
        q[g][i] = q[h][j] => g = h /\ i = j

\* The memory m holds the lists q.
Holds(m, q) ==
    /\ m \in MemTypes
    /\ q \in [Heads -> Seq(Elem)]
    /\ Apart(q)
    /\ \A h \in Heads : Links(m.cell, m.prev, h, q[h])
-----------------------------------------------------------------------------
(* Induction over the naturals.                                            *)

LEMMA NatLeast ==
    ASSUME NEW T \in SUBSET Nat, T # {}
    PROVE  \E n \in T : \A m \in T : n <= m
<1> DEFINE R == OpToRel(<, Nat)
<1>1. R = {ss \in Nat \X Nat : ss[1] < ss[2]}
  BY DEF OpToRel
<1>2. IsWellFoundedOn(R, Nat)
  BY NatLessThanWellFounded
<1>3. PICK n \in T : \A m \in T : ~(<<m, n>> \in R)
  <2> HIDE DEF R
  <2> QED BY <1>2, WFMin
<1>4. \A m \in T : ~(m < n)
  BY <1>1, <1>3
<1> QED BY <1>4

LEMMA SetInduction ==
    ASSUME NEW T \in SUBSET Nat, 0 \in T, \A n \in T : n + 1 \in T
    PROVE  T = Nat
<1> SUFFICES ASSUME T # Nat PROVE FALSE
  OBVIOUS
<1> DEFINE B == Nat \ T
<1>1. B \in SUBSET Nat /\ B # {}
  OBVIOUS
<1>2. PICK n \in B : \A m \in B : n <= m
  <2> HIDE DEF B
  <2> QED BY <1>1, NatLeast
<1>3. n # 0 /\ n - 1 \in Nat /\ n - 1 \notin B
  BY <1>2
<1> QED BY <1>3

\* f is the function defined by recursion over 0..n: a at 0, and by g from there.
Recursion(f, n, S, a, g) ==
    /\ f \in [0..n -> S]
    /\ f[0] = a /\ \A i \in 1..n : f[i] = g[<<f[i - 1], i>>]

\* There is such a function.
LEMMA RecursionExists ==
    ASSUME NEW n \in Nat, NEW S, NEW a \in S, NEW g \in [S \X (1..n) -> S]
    PROVE  \E f : Recursion(f, n, S, a, g)
<1> DEFINE Upto(k) == \E f \in [0..k -> S] :
                         f = [i \in 0..k |-> IF i = 0 THEN a ELSE g[<<f[i - 1], i>>]]
           T == {k \in Nat : k <= n => Upto(k)}
<1>1. 0 \in T
  <2>1. Upto(0)
    <3> WITNESS [i \in 0..0 |-> a] \in [0..0 -> S]
    <3> QED OBVIOUS
  <2> QED BY <2>1
<1>2. ASSUME NEW k \in T PROVE k + 1 \in T
  <2> SUFFICES ASSUME k + 1 <= n PROVE Upto(k + 1)
    OBVIOUS
  <2>1. k \in Nat /\ k <= n
    OBVIOUS
  <2>2. PICK f \in [0..k -> S] :
              f = [i \in 0..k |-> IF i = 0 THEN a ELSE g[<<f[i - 1], i>>]]
    BY <2>1
  <2> DEFINE e == [i \in 0..(k + 1) |-> IF i = k + 1 THEN g[<<f[k], k + 1>>] ELSE f[i]]
  <2>3. e \in [0..(k + 1) -> S]
    BY <2>1, <2>2
  <2>4. \A i \in 0..(k + 1) : e[i] = IF i = 0 THEN a ELSE g[<<e[i - 1], i>>]
    <3>1. \A i \in 0..k : f[i] = IF i = 0 THEN a ELSE g[<<f[i - 1], i>>]
      BY <2>1, <2>2
    <3>2. \A i \in 0..k : e[i] = f[i]
      BY <2>1
    <3>3. e[k + 1] = g[<<f[k], k + 1>>]
      BY <2>1
    <3> HIDE DEF e, T, Upto
    <3> SUFFICES ASSUME NEW i \in 0..(k + 1)
                 PROVE  e[i] = IF i = 0 THEN a ELSE g[<<e[i - 1], i>>]
      OBVIOUS
    <3>4. CASE i = k + 1
      BY <2>1, <3>2, <3>3, <3>4
    <3>5. CASE i # k + 1
      <4>1. i \in 0..k /\ (i # 0 => i - 1 \in 0..k)
        BY <2>1, <3>5
      <4> QED BY <3>1, <3>2, <4>1
    <3> QED BY <3>4, <3>5
  <2> HIDE DEF e
  <2> QED BY <2>3, <2>4
<1>3. T = Nat
  <2>1. T \in SUBSET Nat
    OBVIOUS
  <2> HIDE DEF T
  <2> QED BY <1>1, <1>2, <2>1, SetInduction
<1>4. n \in T
  BY <1>3
<1>5. PICK f \in [0..n -> S] : f = [i \in 0..n |-> IF i = 0 THEN a ELSE g[<<f[i - 1], i>>]]
  BY <1>4
<1>6. Recursion(f, n, S, a, g)
  <2>1. 0 \in 0..n /\ \A i \in 1..n : i \in 0..n /\ i # 0
    OBVIOUS
  <2> QED BY <1>5, <2>1 DEF Recursion
<1> QED BY <1>6
-----------------------------------------------------------------------------
(* The macros.                                                             *)

LEMMA Names ==
    /\ NULL \notin Cells /\ Elem \cap Heads = {} /\ Elem \cup Heads = Cells
    /\ tx_tailer \in Elem /\ phony \in Elem /\ Task \subseteq Elem
    /\ tx_tailer # phony /\ tx_tailer \notin Task /\ phony \notin Task
    /\ taskq \in Heads /\ WaitQ \subseteq Heads /\ taskq \notin WaitQ
    /\ IsFiniteSet(Elem)
<1>1. taskq # tx_tailer /\ taskq # phony /\ taskq # NULL
      /\ tx_tailer # phony /\ tx_tailer # NULL /\ phony # NULL
  <2> DEFINE S == {tx_tailer, phony, NULL}
  <2>1. Cardinality({taskq, tx_tailer, phony, NULL}) = 4
    BY ListAssumption
  <2>2. IsFiniteSet({NULL}) /\ Cardinality({NULL}) = 1
    BY FS_Singleton
  <2>3. /\ IsFiniteSet({NULL} \cup {phony})
        /\ Cardinality({NULL} \cup {phony}) = IF phony \in {NULL} THEN 1 ELSE 2
    BY <2>2, FS_AddElement
  <2>4. /\ IsFiniteSet(({NULL} \cup {phony}) \cup {tx_tailer})
        /\ Cardinality(({NULL} \cup {phony}) \cup {tx_tailer})
           = Cardinality({NULL} \cup {phony}) + (IF tx_tailer \in {NULL} \cup {phony} THEN 0 ELSE 1)
    BY <2>3, FS_AddElement
  <2>5. Cardinality((({NULL} \cup {phony}) \cup {tx_tailer}) \cup {taskq})
        = Cardinality(({NULL} \cup {phony}) \cup {tx_tailer})
          + (IF taskq \in ({NULL} \cup {phony}) \cup {tx_tailer} THEN 0 ELSE 1)
    BY <2>3, <2>4, FS_AddElement
  <2>6. (({NULL} \cup {phony}) \cup {tx_tailer}) \cup {taskq} = {taskq, tx_tailer, phony, NULL}
    OBVIOUS
  <2> QED BY <2>1, <2>3, <2>4, <2>5, <2>6
<1>2. IsFiniteSet(Elem)
  <2>1. IsFiniteSet(Task \cup {tx_tailer}) /\ IsFiniteSet((Task \cup {tx_tailer}) \cup {phony})
    BY ListAssumption, FS_AddElement
  <2>2. Elem = (Task \cup {tx_tailer}) \cup {phony}
    BY DEF Elem
  <2> QED BY <2>1, <2>2
<1> QED BY <1>1, <1>2, ListAssumption DEF Elem, Heads, Cells

\* The nodes of the lists are all different.
LEMMA NodesApart ==
    ASSUME NEW m, NEW q, Holds(m, q), NEW g \in Heads, NEW h \in Heads,
           NEW i \in 0..Len(q[g]), NEW j \in 0..Len(q[h]),
           Node(g, q[g], i) = Node(h, q[h], j)
    PROVE  g = h /\ i = j
<1>1. q[g] \in Seq(Elem) /\ q[h] \in Seq(Elem)
  BY DEF Holds
<1> QED BY <1>1, Names DEF Holds, Apart, Node
\* x linked into the list of h behind node p.
Put(s, p, x) ==
    [i \in 1..(Len(s) + 1) |-> IF i <= p THEN s[i] ELSE IF i = p + 1 THEN x ELSE s[i - 1]]

\* ... and unlinked from there.
Cut(s, p) == [i \in 1..(Len(s) - 1) |-> IF i < p THEN s[i] ELSE s[i + 1]]

LEMMA PutElements ==
    ASSUME NEW S, NEW s \in Seq(S), NEW p \in 0..Len(s), NEW x \in S
    PROVE  /\ Put(s, p, x) \in Seq(S)
           /\ Len(Put(s, p, x)) = Len(s) + 1
           /\ \A i \in 1..(Len(s) + 1) :
                Put(s, p, x)[i] = IF i <= p THEN s[i] ELSE IF i = p + 1 THEN x ELSE s[i - 1]
<1>1. Put(s, p, x) \in [1..(Len(s) + 1) -> S]
  <2> SUFFICES ASSUME NEW i \in 1..(Len(s) + 1)
               PROVE  (IF i <= p THEN s[i] ELSE IF i = p + 1 THEN x ELSE s[i - 1]) \in S
    BY DEF Put
  <2>1. i <= p => i \in 1..Len(s)
    OBVIOUS
  <2>2. i > p + 1 => i - 1 \in 1..Len(s)
    OBVIOUS
  <2> QED BY <2>1, <2>2
<1> QED BY <1>1 DEF Put

LEMMA PutLinks ==
    ASSUME NEW S, NEW s \in Seq(S), NEW h, NEW p \in 0..Len(s), NEW x \in S,
           NEW c, NEW b, NEW d, NEW e,
           Links(c, b, h, s),
           \A i \in 1..Len(s) : s[i] # x,
           \A i \in 0..Len(s) : Node(h, s, i) = Node(h, s, p) => i = p,
           \A i \in 1..Len(s) : s[i] = c[Node(h, s, p)] => i = p + 1,
           \A i \in 0..Len(s) : d[Node(h, s, i)] = IF i = p THEN x ELSE c[Node(h, s, i)],
           d[x] = c[Node(h, s, p)],
           \A i \in 1..Len(s) : e[s[i]] = IF i = p + 1 THEN x ELSE b[s[i]],
           e[x] = Node(h, s, p)
    PROVE  Links(d, e, h, Put(s, p, x))
<1> DEFINE z == Put(s, p, x)
<1>1. /\ Len(z) = Len(s) + 1 /\ Len(s) \in Nat
      /\ \A i \in 1..(Len(s) + 1) :
           z[i] = IF i <= p THEN s[i] ELSE IF i = p + 1 THEN x ELSE s[i - 1]
  BY PutElements
<1> HIDE DEF z
<1>2. \A i \in 0..Len(z) : Node(h, z, i) = IF i <= p THEN Node(h, s, i)
                                           ELSE IF i = p + 1 THEN x ELSE Node(h, s, i - 1)
  BY <1>1 DEF Node
<1>3. ASSUME NEW i \in 0..Len(z)
      PROVE  d[Node(h, z, i)] = IF i = Len(z) THEN NULL ELSE z[i + 1]
  <2>1. CASE i < p
    <3>1. Node(h, z, i) = Node(h, s, i) /\ i \in 0..Len(s) /\ i # Len(s) /\ i # Len(z)
      BY <1>1, <1>2, <2>1
    <3>2. z[i + 1] = s[i + 1]
      BY <1>1, <2>1
    <3> QED BY <2>1, <3>1, <3>2 DEF Links
  <2>2. CASE i = p
    BY <1>1, <1>2, <2>2
  <2>3. CASE i = p + 1
    <3>1. Node(h, z, i) = x /\ d[x] = IF p = Len(s) THEN NULL ELSE s[p + 1]
      BY <1>1, <1>2, <2>3 DEF Links
    <3> QED BY <1>1, <2>3, <3>1
  <2>4. CASE i > p + 1
    <3>1. Node(h, z, i) = Node(h, s, i - 1) /\ i - 1 \in 0..Len(s) /\ i - 1 # p
      BY <1>1, <1>2, <2>4
    <3>2. d[Node(h, z, i)] = IF i - 1 = Len(s) THEN NULL ELSE s[(i - 1) + 1]
      BY <3>1 DEF Links
    <3>3. i = Len(z) <=> i - 1 = Len(s)
      BY <1>1
    <3>4. ASSUME i # Len(z) PROVE z[i + 1] = s[i]
      <4>1. i + 1 \in 1..(Len(s) + 1) /\ ~(i + 1 <= p) /\ i + 1 # p + 1 /\ (i + 1) - 1 = i
        BY <1>1, <2>4, <3>4
      <4> QED BY <1>1, <4>1
    <3>5. (i - 1) + 1 = i
      OBVIOUS
    <3> QED BY <3>2, <3>3, <3>4, <3>5
  <2> QED BY <1>1, <2>1, <2>2, <2>3, <2>4
<1>4. ASSUME NEW i \in 1..Len(z)
      PROVE  e[z[i]] = Node(h, z, i - 1)
  <2>1. Node(h, z, i - 1) = IF i - 1 <= p THEN Node(h, s, i - 1)
                            ELSE IF i - 1 = p + 1 THEN x ELSE Node(h, s, (i - 1) - 1)
    BY <1>1, <1>2
  <2>2. CASE i <= p
    <3>1. z[i] = s[i] /\ i \in 1..Len(s) /\ i # p + 1
      BY <1>1, <2>2
    <3> QED BY <2>1, <2>2, <3>1 DEF Links
  <2>3. CASE i = p + 1
    BY <1>1, <2>1, <2>3
  <2>4. CASE i = p + 2
    <3>1. z[i] = s[p + 1] /\ p + 1 \in 1..Len(s)
      BY <1>1, <2>4
    <3> QED BY <2>1, <2>4, <3>1
  <2>5. CASE i > p + 2
    <3>1. z[i] = s[i - 1] /\ i - 1 \in 1..Len(s) /\ i - 1 # p + 1
      BY <1>1, <2>5
    <3>2. e[s[i - 1]] = Node(h, s, (i - 1) - 1)
      BY <3>1 DEF Links
    <3> QED BY <2>1, <2>5, <3>1, <3>2
  <2> QED BY <1>1, <2>2, <2>3, <2>4, <2>5
<1>5. Links(d, e, h, z)
  BY <1>3, <1>4 DEF Links
<1> QED BY <1>5 DEF z

LEMMA CutElements ==
    ASSUME NEW S, NEW s \in Seq(S), NEW p \in 1..Len(s)
    PROVE  /\ Cut(s, p) \in Seq(S)
           /\ Len(Cut(s, p)) = Len(s) - 1
           /\ \A i \in 1..(Len(s) - 1) : Cut(s, p)[i] = IF i < p THEN s[i] ELSE s[i + 1]
<1>1. Len(s) - 1 \in Nat
  OBVIOUS
<1>2. Cut(s, p) \in [1..(Len(s) - 1) -> S]
  BY DEF Cut
<1> QED BY <1>1, <1>2 DEF Cut

LEMMA CutLinks ==
    ASSUME NEW S, NEW s \in Seq(S), NEW h, NEW p \in 1..Len(s),
           NEW c, NEW b, NEW d, NEW e,
           Links(c, b, h, s),
           \A i \in 1..Len(s) : s[i] = s[p] => i = p,
           \A i \in 0..Len(s) : Node(h, s, i) = Node(h, s, p - 1) => i = p - 1,
           \A i \in 1..Len(s) : s[i] = c[s[p]] => i = p + 1,
           \A i \in 0..Len(s) : d[Node(h, s, i)] = IF i = p - 1 THEN c[s[p]] ELSE c[Node(h, s, i)],
           \A i \in 1..Len(s) : e[s[i]] = IF i = p + 1 THEN Node(h, s, p - 1) ELSE b[s[i]]
    PROVE  Links(d, e, h, Cut(s, p))
<1> DEFINE z == Cut(s, p)
<1>1. /\ Len(z) = Len(s) - 1 /\ Len(s) \in Nat
      /\ \A i \in 1..(Len(s) - 1) : z[i] = IF i < p THEN s[i] ELSE s[i + 1]
  BY CutElements
<1> HIDE DEF z
<1>2. \A i \in 0..Len(z) : Node(h, z, i) = IF i < p THEN Node(h, s, i) ELSE Node(h, s, i + 1)
  BY <1>1 DEF Node
<1>3. ASSUME NEW i \in 0..Len(z)
      PROVE  d[Node(h, z, i)] = IF i = Len(z) THEN NULL ELSE z[i + 1]
  <2>1. CASE i < p - 1
    <3>0. i \in 0..Len(s) /\ i # Len(s) /\ i # Len(z) /\ i # p - 1 /\ i < p
      BY <1>1, <2>1
    <3>1. Node(h, z, i) = Node(h, s, i)
      BY <1>2, <3>0
    <3>2. z[i + 1] = s[i + 1]
      BY <1>1, <2>1
    <3> QED BY <3>0, <3>1, <3>2 DEF Links
  <2>2. CASE i = p - 1
    <3>1. Node(h, z, i) = Node(h, s, p - 1) /\ p - 1 \in 0..Len(s)
      BY <1>1, <1>2, <2>2
    <3>2. Node(h, s, p) = s[p] /\ p \in 0..Len(s)
      BY DEF Node
    <3>3. d[Node(h, z, i)] = IF p = Len(s) THEN NULL ELSE s[p + 1]
      BY <3>1, <3>2 DEF Links
    <3>4. i = Len(z) <=> p = Len(s)
      BY <1>1, <2>2
    <3>5. i # Len(z) => z[i + 1] = s[p + 1]
      BY <1>1, <2>2
    <3> QED BY <3>3, <3>4, <3>5
  <2>3. CASE i > p - 1
    <3>1. Node(h, z, i) = Node(h, s, i + 1) /\ i + 1 \in 0..Len(s) /\ i + 1 # p - 1
      BY <1>1, <1>2, <2>3
    <3>2. d[Node(h, z, i)] = IF i + 1 = Len(s) THEN NULL ELSE s[(i + 1) + 1]
      BY <3>1 DEF Links
    <3>3. i = Len(z) <=> i + 1 = Len(s)
      BY <1>1
    <3>4. ASSUME i # Len(z) PROVE z[i + 1] = s[(i + 1) + 1]
      <4>1. i \in Int /\ p \in Int /\ 0 <= i /\ i < Len(s) - 1
        BY <1>1, <3>4
      <4>2. i + 1 \in 1..(Len(s) - 1) /\ ~(i + 1 < p)
        BY <1>1, <2>3, <4>1
      <4> QED BY <1>1, <4>2
    <3> QED BY <3>2, <3>3, <3>4
  <2> QED BY <1>1, <2>1, <2>2, <2>3
<1>4. ASSUME NEW i \in 1..Len(z)
      PROVE  e[z[i]] = Node(h, z, i - 1)
  <2>1. Node(h, z, i - 1) = IF i - 1 < p THEN Node(h, s, i - 1) ELSE Node(h, s, i)
    <3>1. i - 1 \in 0..Len(z) /\ (i - 1) + 1 = i
      OBVIOUS
    <3> QED BY <1>2, <3>1
  <2>2. CASE i < p
    <3>1. z[i] = s[i] /\ i \in 1..Len(s) /\ i # p + 1
      BY <1>1, <2>2
    <3> QED BY <2>1, <2>2, <3>1 DEF Links
  <2>3. CASE i = p
    <3>1. z[i] = s[p + 1] /\ p + 1 \in 1..Len(s)
      BY <1>1, <2>3
    <3> QED BY <2>1, <2>3, <3>1
  <2>4. CASE i > p
    <3>1. z[i] = s[i + 1] /\ i + 1 \in 1..Len(s) /\ i + 1 # p + 1 /\ (i + 1) - 1 = i
      BY <1>1, <2>4
    <3>2. e[s[i + 1]] = Node(h, s, i)
      BY <3>1 DEF Links
    <3>3. ~(i - 1 < p)
      BY <2>4
    <3> QED BY <2>1, <3>1, <3>2, <3>3
  <2> QED BY <1>1, <2>2, <2>3, <2>4
<1>5. Links(d, e, h, z)
  BY <1>3, <1>4 DEF Links
<1> QED BY <1>5 DEF z
-----------------------------------------------------------------------------
(* Linking and unlinking keep the lists.                                   *)

\* m with x linked in behind the p-th node of h.
LEMMA PutKept ==
    ASSUME NEW m, NEW q, Holds(m, q), NEW h \in Heads, NEW s \in Seq(Elem), s = q[h],
           NEW p \in 0..Len(s), NEW x \in Elem,
           \A g \in Heads : \A i \in 1..Len(q[g]) : q[g][i] # x,
           NEW n \in MemTypes, NEW u, u = Node(h, s, p),
           \A y \in Cells : n.cell[y] = IF y = u THEN x ELSE IF y = x THEN m.cell[u] ELSE m.cell[y],
           \A y \in Elem : n.prev[y] = IF y = x THEN u ELSE IF y = m.cell[u] THEN x ELSE m.prev[y]
    PROVE  Holds(n, [q EXCEPT ![h] = Put(s, p, x)])
<1>1. /\ q \in [Heads -> Seq(Elem)] /\ q[h] \in Seq(Elem)
      /\ Links(m.cell, m.prev, h, q[h])
  BY DEF Holds
<1>2. s \in Seq(Elem) /\ s = q[h] /\ p \in 0..Len(s)
  OBVIOUS
<1> DEFINE z == Put(s, p, x)
<1>3. /\ z \in Seq(Elem) /\ Len(z) = Len(s) + 1
      /\ \A i \in 1..(Len(s) + 1) :
           z[i] = IF i <= p THEN s[i] ELSE IF i = p + 1 THEN x ELSE s[i - 1]
  <2>1. z \in Seq(Elem) /\ Len(z) = Len(s) + 1
    BY PutElements
  <2> QED BY <2>1 DEF Put
<1> HIDE DEF z
<1>4. PICK r : r = [q EXCEPT ![h] = z]
  OBVIOUS
<1>5. /\ r \in [Heads -> Seq(Elem)] /\ r[h] = z
      /\ \A g \in Heads : g # h => r[g] = q[g]
  BY <1>1, <1>3, <1>4
<1>6. /\ \A i \in 1..Len(s) : s[i] # x /\ s[i] \in Elem
      /\ Len(s) \in Nat
  BY <1>2
<1>7. \A a, b \in Heads : \A k \in 1..Len(q[a]), l \in 1..Len(q[b]) :
        q[a][k] = q[b][l] => a = b /\ k = l
  BY DEF Holds, Apart
<1>8. Apart(r)
  <2> DEFINE old(k) == IF k <= p THEN k ELSE k - 1
  <2>1. \A k \in 1..Len(z) : k # p + 1 => old(k) \in 1..Len(s) /\ z[k] = s[old(k)]
    BY <1>2, <1>3, <1>6
  <2>2. \A k \in 1..Len(z) : z[k] = x => k = p + 1
    BY <1>6, <2>1
  <2>3. z[p + 1] = x
    <3>1. p + 1 \in 1..(Len(s) + 1)
      BY <1>6
    <3> QED BY <1>3, <3>1
  <2>4. \A k, l \in 1..Len(z) : z[k] = z[l] => k = l
    <3> SUFFICES ASSUME NEW k \in 1..Len(z), NEW l \in 1..Len(z), z[k] = z[l] PROVE k = l
      OBVIOUS
    <3>1. CASE k = p + 1 \/ l = p + 1
      BY <2>2, <2>3, <3>1
    <3>2. CASE k # p + 1 /\ l # p + 1
      <4>1. s[old(k)] = s[old(l)] /\ old(k) \in 1..Len(s) /\ old(l) \in 1..Len(s)
        BY <2>1, <3>2
      <4>2. old(k) = old(l)
        <5> HIDE DEF old
        <5> QED BY <1>2, <1>7, <4>1
      <4> QED BY <1>2, <1>3, <3>2, <4>2
    <3> QED BY <3>1, <3>2
  <2>5. ASSUME NEW f \in Heads, NEW k \in 1..Len(q[f]), NEW l \in 1..Len(z), q[f][k] = z[l], f # h
        PROVE  FALSE
    <3>1. l # p + 1
      BY <2>3, <2>5
    <3>2. z[l] = s[old(l)] /\ old(l) \in 1..Len(s)
      BY <2>1, <3>1
    <3> HIDE DEF old
    <3> QED BY <1>2, <1>7, <2>5, <3>2
  <2> SUFFICES ASSUME NEW f \in Heads, NEW g \in Heads,
                      NEW i \in 1..Len(r[f]), NEW j \in 1..Len(r[g]), r[f][i] = r[g][j]
               PROVE  f = g /\ i = j
    BY DEF Apart
  <2>6. CASE f = h /\ g = h
    BY <1>5, <2>4, <2>6
  <2>7. CASE f # h /\ g = h
    BY <1>5, <2>5, <2>7
  <2>8. CASE f = h /\ g # h
    BY <1>5, <2>5, <2>8
  <2>9. CASE f # h /\ g # h
    <3>1. r[f] = q[f] /\ r[g] = q[g]
      BY <1>5, <2>9
    <3>2. q[f][i] = q[g][j] /\ i \in 1..Len(q[f]) /\ j \in 1..Len(q[g])
      BY <3>1
    <3> QED BY <1>7, <3>2
  <2> QED BY <2>6, <2>7, <2>8, <2>9
<1>9. /\ u \in Cells /\ x \in Cells /\ u # x
      /\ m.cell[u] = IF p = Len(s) THEN NULL ELSE s[p + 1]
  <2>1. u = Node(h, s, p)
    BY <1>2
  <2>2. m.cell[u] = IF p = Len(s) THEN NULL ELSE s[p + 1]
    BY <1>1, <1>2, <2>1 DEF Links
  <2>3. p # 0 => u = s[p] /\ p \in 1..Len(s)
    BY <1>2, <2>1 DEF Node
  <2>4. p = 0 => u = h
    BY <2>1 DEF Node
  <2> QED BY <1>6, <2>2, <2>3, <2>4, Names
<1>10. \A c \in Cells : n.cell[c] = IF c = u THEN x ELSE IF c = x THEN m.cell[u] ELSE m.cell[c]
  OBVIOUS
<1>11. ASSUME NEW g \in Heads, g # h PROVE Links(n.cell, n.prev, g, q[g])
  <2>1. Links(m.cell, m.prev, g, q[g]) /\ q[g] \in Seq(Elem)
    BY <1>1 DEF Holds
  <2>2. \A i \in 1..Len(q[g]) : q[g][i] \in Elem /\ q[g][i] # x
    BY <2>1
  <2>3. ASSUME NEW i \in 1..Len(q[g]) PROVE q[g][i] # m.cell[u]
    <3>1. CASE p = Len(s)
      BY <1>9, <2>2, <3>1, Names
    <3>2. CASE p # Len(s)
      <4>1. p + 1 \in 1..Len(q[h]) /\ m.cell[u] = q[h][p + 1]
        BY <1>2, <1>6, <1>9, <3>2
      <4> QED BY <1>7, <1>11, <4>1
    <3> QED BY <3>1, <3>2
  <2>4. ASSUME NEW i \in 0..Len(q[g])
        PROVE  /\ Node(g, q[g], i) \in Cells /\ Node(g, q[g], i) # x /\ Node(g, q[g], i) # u
    <3>1. Node(g, q[g], i) # u
      BY <1>11, NodesApart
    <3> QED BY <2>2, <3>1, Names DEF Node
  <2>5. \A i \in 0..Len(q[g]) : n.cell[Node(g, q[g], i)] = m.cell[Node(g, q[g], i)]
    BY <1>10, <2>4
  <2>6. \A i \in 1..Len(q[g]) : n.prev[q[g][i]] = m.prev[q[g][i]]
    BY <2>2, <2>3
  <2> QED BY <2>1, <2>5, <2>6 DEF Links
<1>12. Links(n.cell, n.prev, h, z)
  <2>1. \A i \in 0..Len(s) : /\ Node(h, s, i) \in Cells /\ Node(h, s, i) # x
                             /\ Node(h, s, i) = Node(h, s, p) => i = p
    <3> SUFFICES ASSUME NEW i \in 0..Len(s)
                 PROVE  /\ Node(h, s, i) \in Cells /\ Node(h, s, i) # x
                        /\ Node(h, s, i) = Node(h, s, p) => i = p
      OBVIOUS
    <3>1. Node(h, s, i) = Node(h, s, p) => i = p
      BY <1>2, NodesApart
    <3> QED BY <1>6, <3>1, Names DEF Node
  <2>2. \A i \in 0..Len(s) : n.cell[Node(h, s, i)] = IF i = p THEN x ELSE m.cell[Node(h, s, i)]
    BY <1>2, <1>10, <2>1
  <2>3. n.cell[x] = m.cell[Node(h, s, p)]
    BY <1>2, <1>9, <1>10
  <2>4. \A i \in 1..Len(s) : s[i] = m.cell[Node(h, s, p)] => i = p + 1
    <3> SUFFICES ASSUME NEW i \in 1..Len(s), s[i] = m.cell[u] PROVE i = p + 1
      BY <1>2
    <3>1. p # Len(s)
      BY <1>6, <1>9, Names
    <3>2. p + 1 \in 1..Len(q[h]) /\ q[h][i] = q[h][p + 1] /\ i \in 1..Len(q[h])
      BY <1>2, <1>6, <1>9, <3>1
    <3> QED BY <1>7, <3>2
  <2>5. \A i \in 1..Len(s) : n.prev[s[i]] = IF i = p + 1 THEN x ELSE m.prev[s[i]]
    <3> SUFFICES ASSUME NEW i \in 1..Len(s)
                 PROVE  n.prev[s[i]] = IF i = p + 1 THEN x ELSE m.prev[s[i]]
      OBVIOUS
    <3>1. i = p + 1 => s[i] = m.cell[u]
      BY <1>2, <1>6, <1>9
    <3>2. m.cell[u] = m.cell[Node(h, s, p)]
      BY <1>2
    <3> QED BY <1>6, <2>4, <3>1, <3>2
  <2>6. n.prev[x] = Node(h, s, p)
    BY <1>2
  <2>7. Links(n.cell, n.prev, h, Put(s, p, x))
    <3>1. Links(m.cell, m.prev, h, s)
      BY <1>1, <1>2
    <3>2. s \in Seq(Elem) /\ p \in 0..Len(s) /\ (\A i \in 1..Len(s) : s[i] # x)
          /\ (\A i \in 0..Len(s) : Node(h, s, i) = Node(h, s, p) => i = p)
      BY <1>2, <1>6, <2>1
    <3> QED BY <3>1, <3>2, <2>2, <2>3, <2>4, <2>5, <2>6, PutLinks
  <2> QED BY <2>7 DEF z
<1>13. Holds(n, r)
  BY <1>5, <1>8, <1>11, <1>12 DEF Holds
<1> QED BY <1>4, <1>13 DEF z

\* m with the p-th element of h unlinked.
LEMMA CutKept ==
    ASSUME NEW m, NEW q, Holds(m, q), NEW h \in Heads, NEW s \in Seq(Elem), s = q[h],
           NEW p \in 1..Len(s), NEW n \in MemTypes, NEW u, u = Node(h, s, p - 1),
           \A y \in Cells : n.cell[y] = IF y = u THEN m.cell[s[p]] ELSE m.cell[y],
           \A y \in Elem : n.prev[y] = IF y = m.cell[s[p]] THEN u ELSE m.prev[y]
    PROVE  Holds(n, [q EXCEPT ![h] = Cut(s, p)])
<1>1. q \in [Heads -> Seq(Elem)] /\ Links(m.cell, m.prev, h, s)
  BY DEF Holds
<1> DEFINE z == Cut(s, p)
<1>2. /\ z \in Seq(Elem) /\ Len(z) = Len(s) - 1
      /\ \A i \in 1..(Len(s) - 1) : z[i] = IF i < p THEN s[i] ELSE s[i + 1]
  <2>1. z \in Seq(Elem) /\ Len(z) = Len(s) - 1
    BY CutElements
  <2> QED BY <2>1 DEF Cut
<1> HIDE DEF z
<1>3. PICK r : r = [q EXCEPT ![h] = z]
  OBVIOUS
<1>4. /\ r \in [Heads -> Seq(Elem)] /\ r[h] = z
      /\ \A g \in Heads : g # h => r[g] = q[g]
  BY <1>1, <1>2, <1>3
<1>5. /\ \A i \in 1..Len(s) : s[i] \in Elem
      /\ Len(s) \in Nat
  OBVIOUS
<1>6. \A a, b \in Heads : \A k \in 1..Len(q[a]), l \in 1..Len(q[b]) :
        q[a][k] = q[b][l] => a = b /\ k = l
  BY DEF Holds, Apart
<1>7. \A k, l \in 1..Len(s) : s[k] = s[l] => k = l
  BY <1>6
<1>8. Apart(r)
  <2> DEFINE old(k) == IF k < p THEN k ELSE k + 1
  <2>1. \A k \in 1..Len(z) : old(k) \in 1..Len(s) /\ z[k] = s[old(k)]
    BY <1>2, <1>5
  <2>2. \A k, l \in 1..Len(z) : z[k] = z[l] => k = l
    <3> SUFFICES ASSUME NEW k \in 1..Len(z), NEW l \in 1..Len(z), z[k] = z[l] PROVE k = l
      OBVIOUS
    <3>1. s[old(k)] = s[old(l)] /\ old(k) \in 1..Len(s) /\ old(l) \in 1..Len(s)
      BY <2>1
    <3>2. old(k) = old(l)
      <4> HIDE DEF old
      <4> QED BY <1>7, <3>1
    <3> QED BY <1>2, <3>2
  <2>3. ASSUME NEW f \in Heads, NEW k \in 1..Len(q[f]), NEW l \in 1..Len(z), q[f][k] = z[l], f # h
        PROVE  FALSE
    <3>1. z[l] = s[old(l)] /\ old(l) \in 1..Len(s)
      BY <2>1
    <3> HIDE DEF old
    <3> QED BY <1>6, <2>3, <3>1
  <2> SUFFICES ASSUME NEW f \in Heads, NEW g \in Heads,
                      NEW i \in 1..Len(r[f]), NEW j \in 1..Len(r[g]), r[f][i] = r[g][j]
               PROVE  f = g /\ i = j
    BY DEF Apart
  <2>6. CASE f = h /\ g = h
    BY <1>4, <2>2, <2>6
  <2>7. CASE f # h /\ g = h
    BY <1>4, <2>3, <2>7
  <2>8. CASE f = h /\ g # h
    BY <1>4, <2>3, <2>8
  <2>9. CASE f # h /\ g # h
    <3>1. r[f] = q[f] /\ r[g] = q[g]
      BY <1>4, <2>9
    <3>2. q[f][i] = q[g][j] /\ i \in 1..Len(q[f]) /\ j \in 1..Len(q[g])
      BY <3>1
    <3> QED BY <1>6, <3>2
  <2> QED BY <2>6, <2>7, <2>8, <2>9
<1>9. m.cell[s[p]] = IF p = Len(s) THEN NULL ELSE s[p + 1]
  <2>1. Node(h, s, p) = s[p] /\ p \in 0..Len(s)
    BY DEF Node
  <2> QED BY <1>1, <2>1 DEF Links
<1>10. ASSUME NEW g \in Heads, g # h PROVE Links(n.cell, n.prev, g, q[g])
  <2>1. Links(m.cell, m.prev, g, q[g]) /\ q[g] \in Seq(Elem)
    BY <1>1 DEF Holds
  <2>2. \A i \in 1..Len(q[g]) : q[g][i] \in Elem
    BY <2>1
  <2>3. ASSUME NEW i \in 1..Len(q[g]) PROVE q[g][i] # m.cell[s[p]]
    <3>1. CASE p = Len(s)
      BY <1>9, <2>2, <3>1, Names
    <3>2. CASE p # Len(s)
      <4>1. p + 1 \in 1..Len(q[h]) /\ m.cell[s[p]] = q[h][p + 1]
        BY <1>5, <1>9, <3>2
      <4> QED BY <1>6, <1>10, <4>1
    <3> QED BY <3>1, <3>2
  <2>4. ASSUME NEW i \in 0..Len(q[g])
        PROVE  Node(g, q[g], i) \in Cells /\ Node(g, q[g], i) # u
    <3>1. p - 1 \in 0..Len(q[h])
      BY <1>5
    <3>2. Node(g, q[g], i) # u
      BY <1>10, <3>1, NodesApart
    <3> QED BY <2>2, <3>2, Names DEF Node
  <2>5. \A i \in 0..Len(q[g]) : n.cell[Node(g, q[g], i)] = m.cell[Node(g, q[g], i)]
    BY <2>4
  <2>6. \A i \in 1..Len(q[g]) : n.prev[q[g][i]] = m.prev[q[g][i]]
    BY <2>2, <2>3
  <2> QED BY <2>1, <2>5, <2>6 DEF Links
<1>11. Links(n.cell, n.prev, h, z)
  <2>1. ASSUME NEW i \in 0..Len(s)
        PROVE  /\ Node(h, s, i) \in Cells
               /\ Node(h, s, i) = Node(h, s, p - 1) => i = p - 1
    <3>1. p - 1 \in 0..Len(q[h])
      BY <1>5
    <3>2. Node(h, s, i) = Node(h, s, p - 1) => i = p - 1
      BY <3>1, NodesApart
    <3> QED BY <1>5, <3>2, Names DEF Node
  <2>2. \A i \in 0..Len(s) :
          n.cell[Node(h, s, i)] = IF i = p - 1 THEN m.cell[s[p]] ELSE m.cell[Node(h, s, i)]
    BY <2>1
  <2>3. \A i \in 1..Len(s) : s[i] = m.cell[s[p]] => i = p + 1
    <3> SUFFICES ASSUME NEW i \in 1..Len(s), s[i] = m.cell[s[p]] PROVE i = p + 1
      OBVIOUS
    <3>1. p # Len(s)
      BY <1>5, <1>9, Names
    <3>2. p + 1 \in 1..Len(s) /\ s[i] = s[p + 1]
      BY <1>5, <1>9, <3>1
    <3> QED BY <1>7, <3>2
  <2>4. \A i \in 1..Len(s) : n.prev[s[i]] = IF i = p + 1 THEN Node(h, s, p - 1) ELSE m.prev[s[i]]
    <3> SUFFICES ASSUME NEW i \in 1..Len(s)
                 PROVE  n.prev[s[i]] = IF i = p + 1 THEN Node(h, s, p - 1) ELSE m.prev[s[i]]
      OBVIOUS
    <3>1. i = p + 1 => s[i] = m.cell[s[p]]
      BY <1>5, <1>9
    <3> QED BY <1>5, <2>3, <3>1
  <2>5. /\ \A i \in 1..Len(s) : s[i] = s[p] => i = p
        /\ \A i \in 0..Len(s) : Node(h, s, i) = Node(h, s, p - 1) => i = p - 1
    BY <1>7, <2>1
  <2>6. Links(n.cell, n.prev, h, Cut(s, p))
    BY <1>1, <2>2, <2>3, <2>4, <2>5, CutLinks
  <2> QED BY <2>6 DEF z
<1>12. Holds(n, r)
  BY <1>4, <1>8, <1>10, <1>11 DEF Holds
<1> QED BY <1>3, <1>12 DEF z

\* LIST_REMOVE of the p-th element of h.
LEMMA RemoveKept ==
    ASSUME NEW m, NEW q, Holds(m, q), NEW h \in Heads, NEW s \in Seq(Elem), s = q[h],
           NEW p \in 1..Len(s)
    PROVE  Holds(LIST_REMOVE(m, s[p]), [q EXCEPT ![h] = Cut(s, p)])
<1> DEFINE x == s[p]
           u == Node(h, s, p - 1)
           y == m.cell[x]
           n == LIST_REMOVE(m, x)
<1>1. m \in MemTypes /\ Links(m.cell, m.prev, h, s)
  BY DEF Holds
<1>2. x \in Elem /\ m.prev[x] = u /\ y \in Elem \cup {NULL}
  <2>1. m.prev[x] = u
    BY <1>1 DEF Links
  <2>2. x \in Elem
    OBVIOUS
  <2>3. y \in Elem \cup {NULL}
    BY <1>1, <2>2 DEF MemTypes, Cells
  <2> QED BY <2>1, <2>2, <2>3
<1>3. u \in Cells
  <2>1. p - 1 # 0 => s[p - 1] \in Elem
    OBVIOUS
  <2> QED BY <2>1 DEF Node, Cells
<1> HIDE DEF x, u, y
<1>4. n = [cell |-> [m.cell EXCEPT ![u] = y],
           prev |-> IF y = NULL THEN m.prev ELSE [m.prev EXCEPT ![y] = u]]
  BY <1>2 DEF LIST_REMOVE, y
<1>5. m.cell \in [Cells -> Elem \cup {NULL}] /\ m.prev \in [Elem -> Cells]
  BY <1>1 DEF MemTypes
<1>6. n \in MemTypes
  BY <1>2, <1>3, <1>4, <1>5 DEF MemTypes
<1>7. n.cell = [m.cell EXCEPT ![u] = y]
      /\ n.prev = IF y = NULL THEN m.prev ELSE [m.prev EXCEPT ![y] = u]
  BY <1>4
<1> HIDE DEF n
<1>8. \A c \in Cells : n.cell[c] = IF c = u THEN y ELSE m.cell[c]
  BY <1>5, <1>7
<1>9. \A c \in Elem : n.prev[c] = IF c = y THEN u ELSE m.prev[c]
  BY <1>5, <1>7, Names DEF Cells
<1>10. Holds(n, [q EXCEPT ![h] = Cut(s, p)])
  BY <1>6, <1>8, <1>9, CutKept DEF u, y, x
<1> QED BY <1>10 DEF n, x

\* LIST_INSERT_BEFORE the element after the p-th of h.
LEMMA InsertBeforeKept ==
    ASSUME NEW m, NEW q, Holds(m, q), NEW h \in Heads, NEW s \in Seq(Elem), s = q[h],
           NEW p \in 0..(Len(s) - 1), NEW x \in Elem,
           \A g \in Heads : \A i \in 1..Len(q[g]) : q[g][i] # x
    PROVE  Holds(LIST_INSERT_BEFORE(m, s[p + 1], x), [q EXCEPT ![h] = Put(s, p, x)])
<1> DEFINE y == s[p + 1]
           u == Node(h, s, p)
           n == LIST_INSERT_BEFORE(m, y, x)
<1>1. m \in MemTypes /\ Links(m.cell, m.prev, h, s)
  BY DEF Holds
<1>2. y \in Elem /\ m.prev[y] = u /\ m.cell[u] = y /\ x # y
  <2>1. p + 1 \in 1..Len(s) /\ p \in 0..Len(s) /\ p # Len(s) /\ (p + 1) - 1 = p
    OBVIOUS
  <2>2. m.prev[y] = u /\ m.cell[u] = y
    BY <1>1, <2>1 DEF Links
  <2>3. y \in Elem /\ x # y
    BY <2>1
  <2> QED BY <2>2, <2>3
<1>3. u \in Cells /\ x \in Cells
  <2>1. p # 0 => s[p] \in Elem
    OBVIOUS
  <2> QED BY <2>1 DEF Node, Cells
<1> HIDE DEF u, y
<1>4. n = [cell |-> [m.cell EXCEPT ![x] = y, ![u] = x], prev |-> [m.prev EXCEPT ![x] = u, ![y] = x]]
  BY <1>2 DEF LIST_INSERT_BEFORE
<1>5. m.cell \in [Cells -> Elem \cup {NULL}] /\ m.prev \in [Elem -> Cells]
  BY <1>1 DEF MemTypes
<1>6. n \in MemTypes
  BY <1>2, <1>3, <1>4, <1>5 DEF MemTypes
<1>7. n.cell = [m.cell EXCEPT ![x] = y, ![u] = x] /\ n.prev = [m.prev EXCEPT ![x] = u, ![y] = x]
  BY <1>4
<1> HIDE DEF n
<1>8. \A c \in Cells : n.cell[c] = IF c = u THEN x ELSE IF c = x THEN m.cell[u] ELSE m.cell[c]
  BY <1>2, <1>3, <1>5, <1>7
<1>9. \A c \in Elem : n.prev[c] = IF c = x THEN u ELSE IF c = m.cell[u] THEN x ELSE m.prev[c]
  BY <1>2, <1>5, <1>7
<1>10. p \in 0..Len(s)
  OBVIOUS
<1>11. Holds(n, [q EXCEPT ![h] = Put(s, p, x)])
  BY <1>6, <1>8, <1>9, <1>10, PutKept DEF u
<1> QED BY <1>11 DEF n, y

LEMMA InsertHeadKept ==
    ASSUME NEW m, NEW q, Holds(m, q), NEW h \in Heads, NEW s \in Seq(Elem), s = q[h],
           NEW x \in Elem,
           \A g \in Heads : \A i \in 1..Len(q[g]) : q[g][i] # x
    PROVE  Holds(LIST_INSERT_HEAD(m, h, x), [q EXCEPT ![h] = Put(s, 0, x)])
<1> DEFINE y == m.cell[h]
           n == LIST_INSERT_HEAD(m, h, x)
<1>1. m \in MemTypes /\ Links(m.cell, m.prev, h, s)
  BY DEF Holds
<1>2. h = Node(h, s, 0) /\ 0 \in 0..Len(s)
  BY DEF Node
<1>3. h \in Cells /\ x \in Cells
  BY DEF Cells
<1>4. y \in Elem \cup {NULL} /\ x # y
  <2>1. y = IF 0 = Len(s) THEN NULL ELSE s[1]
    BY <1>1, <1>2 DEF Links
  <2>2. Len(s) # 0 => s[1] # x
    OBVIOUS
  <2>3. y \in Elem \cup {NULL}
    BY <1>1, <1>3 DEF MemTypes
  <2> QED BY <2>1, <2>2, <2>3, Names DEF Cells
<1> HIDE DEF y
<1>5. n = [cell |-> [m.cell EXCEPT ![x] = y, ![h] = x],
           prev |-> [(IF y = NULL THEN m.prev ELSE [m.prev EXCEPT ![y] = x]) EXCEPT ![x] = h]]
  BY DEF LIST_INSERT_HEAD, y
<1>6. m.cell \in [Cells -> Elem \cup {NULL}] /\ m.prev \in [Elem -> Cells]
  BY <1>1 DEF MemTypes
<1>7. n \in MemTypes
  <2>1. (IF y = NULL THEN m.prev ELSE [m.prev EXCEPT ![y] = x]) \in [Elem -> Cells]
    BY <1>3, <1>6
  <2>2. [m.cell EXCEPT ![x] = y, ![h] = x] \in [Cells -> Elem \cup {NULL}]
    BY <1>3, <1>4, <1>6
  <2> QED BY <1>3, <1>5, <2>1, <2>2 DEF MemTypes
<1>8. /\ n.cell = [m.cell EXCEPT ![x] = y, ![h] = x]
      /\ n.prev = [(IF y = NULL THEN m.prev ELSE [m.prev EXCEPT ![y] = x]) EXCEPT ![x] = h]
  BY <1>5
<1> HIDE DEF n
<1>9. \A c \in Cells : n.cell[c] = IF c = h THEN x ELSE IF c = x THEN y ELSE m.cell[c]
  BY <1>3, <1>6, <1>8
<1>10. \A c \in Elem : n.prev[c] = IF c = x THEN h ELSE IF c = y THEN x ELSE m.prev[c]
  <2>1. CASE y = NULL
    BY <1>6, <1>8, <2>1, Names DEF Cells
  <2>2. CASE y # NULL
    BY <1>4, <1>6, <1>8, <2>2
  <2> QED BY <2>1, <2>2
<1>11. Holds(n, [q EXCEPT ![h] = Put(s, 0, x)])
  <2>1. PICK p \in 0..Len(s) : p = 0
    OBVIOUS
  <2> DEFINE u == Node(h, s, p)
  <2>2. u = h
    BY <2>1 DEF Node
  <2>3. /\ \A c \in Cells : n.cell[c] = IF c = u THEN x ELSE IF c = x THEN m.cell[u] ELSE m.cell[c]
        /\ \A c \in Elem : n.prev[c] = IF c = x THEN u ELSE IF c = m.cell[u] THEN x ELSE m.prev[c]
    <3> HIDE DEF u
    <3> QED BY <1>9, <1>10, <2>2 DEF y
  <2>4. Holds(n, [q EXCEPT ![h] = Put(s, p, x)])
    <3>1. /\ \A c \in Cells : n.cell[c] = IF c = Node(h, s, p) THEN x
                                           ELSE IF c = x THEN m.cell[Node(h, s, p)] ELSE m.cell[c]
          /\ \A c \in Elem : n.prev[c] = IF c = x THEN Node(h, s, p)
                                          ELSE IF c = m.cell[Node(h, s, p)] THEN x ELSE m.prev[c]
      BY <2>3, Zenon
    <3> HIDE DEF u
    <3> QED BY <1>7, <3>1, PutKept
  <2> QED BY <2>1, <2>4
<1> QED BY <1>11 DEF n

\* LIST_INIT forgets the list.
LEMMA InitKept ==
    ASSUME NEW m, NEW q, Holds(m, q), NEW h \in Heads
    PROVE  Holds(LIST_INIT(m, h), [q EXCEPT ![h] = << >>])
<1> DEFINE n == LIST_INIT(m, h)
           r == [q EXCEPT ![h] = << >>]
<1>1. m \in MemTypes /\ q \in [Heads -> Seq(Elem)] /\ h \in Cells
  BY DEF Holds, Cells
<1>2. m.cell \in [Cells -> Elem \cup {NULL}] /\ m.prev \in [Elem -> Cells]
  BY <1>1 DEF MemTypes
<1>3. n = [cell |-> [m.cell EXCEPT ![h] = NULL], prev |-> m.prev]
  BY <1>1 DEF LIST_INIT, MemTypes
<1>4. n \in MemTypes
  <2>1. [m.cell EXCEPT ![h] = NULL] \in [Cells -> Elem \cup {NULL}]
    BY <1>1, <1>2
  <2> QED BY <1>2, <1>3, <2>1 DEF MemTypes
<1>5. /\ n.prev = m.prev
      /\ \A c \in Cells : n.cell[c] = IF c = h THEN NULL ELSE m.cell[c]
  BY <1>1, <1>2, <1>3
<1>6. /\ r \in [Heads -> Seq(Elem)] /\ r[h] = << >>
      /\ \A g \in Heads : g # h => r[g] = q[g]
  BY <1>1
<1> HIDE DEF n, r
<1>7. Apart(r)
  <2> SUFFICES ASSUME NEW f \in Heads, NEW g \in Heads,
                      NEW i \in 1..Len(r[f]), NEW j \in 1..Len(r[g]), r[f][i] = r[g][j]
               PROVE  f = g /\ i = j
    BY DEF Apart
  <2>1. f # h /\ g # h
    BY <1>6
  <2>2. r[f] = q[f] /\ r[g] = q[g]
    BY <1>6, <2>1
  <2> QED BY <2>2 DEF Holds, Apart
<1>8. ASSUME NEW g \in Heads PROVE Links(n.cell, n.prev, g, r[g])
  <2>1. CASE g = h
    BY <1>1, <1>5, <1>6, <2>1 DEF Links, Node
  <2>2. CASE g # h
    <3>1. Links(m.cell, m.prev, g, q[g]) /\ q[g] \in Seq(Elem)
      BY <1>1 DEF Holds
    <3>2. ASSUME NEW i \in 0..Len(q[g])
          PROVE  Node(g, q[g], i) \in Cells /\ Node(g, q[g], i) # h
      <4>1. i # 0 => q[g][i] \in Elem
        BY <3>1
      <4> QED BY <2>2, <4>1, Names DEF Node
    <3>3. Links(n.cell, n.prev, g, q[g])
      BY <1>5, <3>1, <3>2 DEF Links
    <3> QED BY <1>6, <2>2, <3>3
  <2> QED BY <2>1, <2>2
<1>9. Holds(n, r)
  BY <1>4, <1>6, <1>7, <1>8 DEF Holds
<1> QED BY <1>9 DEF n, r
-----------------------------------------------------------------------------
(* Walking the lists.                                                      *)

\* What the forward pointers lead to: the elements of the list, and then NULL.
LEMMA WalkIs ==
    ASSUME NEW m, NEW h, NEW S, NEW s \in Seq(S), Links(m.cell, m.prev, h, s),
           h # NULL, NULL \notin S
    PROVE  \A n \in Nat : Walk(m, h)[n] = IF n <= Len(s) THEN Node(h, s, n) ELSE NULL
<1> DEFINE at == Walk(m, h)
           e == [n \in Nat |-> IF n <= Len(s) THEN Node(h, s, n) ELSE NULL]
<1>1. \A n \in 0..Len(s) : Node(h, s, n) # NULL
  <2> SUFFICES ASSUME NEW n \in 0..Len(s) PROVE Node(h, s, n) # NULL
    OBVIOUS
  <2>1. n # 0 => s[n] \in S
    OBVIOUS
  <2> QED BY <2>1 DEF Node
<1>2. e = [n \in Nat |-> IF n = 0 THEN h ELSE IF e[n - 1] = NULL THEN NULL ELSE m.cell[e[n - 1]]]
  <2> SUFFICES ASSUME NEW n \in Nat
               PROVE  e[n] = IF n = 0 THEN h
                             ELSE IF e[n - 1] = NULL THEN NULL ELSE m.cell[e[n - 1]]
    <3>1. e = [n \in Nat |-> e[n]]
      OBVIOUS
    <3> HIDE DEF e
    <3> QED BY <3>1
  <2>1. CASE n = 0
    BY <2>1 DEF Node
  <2>2. CASE n # 0 /\ n <= Len(s)
    <3>1. n - 1 \in 0..Len(s) /\ n - 1 \in Nat /\ n - 1 # Len(s) /\ (n - 1) + 1 = n
      BY <2>2
    <3>2. e[n - 1] = Node(h, s, n - 1) /\ e[n] = s[n]
      BY <2>2, <3>1 DEF Node
    <3>3. m.cell[Node(h, s, n - 1)] = s[n]
      BY <3>1 DEF Links
    <3> QED BY <1>1, <2>2, <3>1, <3>2, <3>3
  <2>3. CASE n = Len(s) + 1
    <3>1. Len(s) \in 0..Len(s) /\ n - 1 = Len(s) /\ n # 0
      BY <2>3
    <3>2. e[n - 1] = Node(h, s, Len(s)) /\ e[n] = NULL
      BY <2>3, <3>1
    <3>3. m.cell[Node(h, s, Len(s))] = NULL
      BY <3>1 DEF Links
    <3> QED BY <3>1, <3>2, <3>3
  <2>4. CASE n > Len(s) + 1
    <3>1. n - 1 \in Nat /\ n - 1 > Len(s) /\ n # 0
      BY <2>4
    <3> QED BY <2>4, <3>1
  <2> QED BY <2>1, <2>2, <2>3, <2>4
<1> HIDE DEF e
<1>3. at = [n \in Nat |-> IF n = 0 THEN h ELSE IF at[n - 1] = NULL THEN NULL ELSE m.cell[at[n - 1]]]
  BY <1>2 DEF Walk
<1> HIDE DEF at
<1> DEFINE T == {n \in Nat : at[n] = e[n]}
<1>4. 0 \in T
  BY <1>2, <1>3
<1>5. ASSUME NEW n \in T PROVE n + 1 \in T
  <2>1. n \in Nat /\ n + 1 \in Nat /\ n + 1 # 0 /\ (n + 1) - 1 = n /\ at[n] = e[n]
    OBVIOUS
  <2>2. at[n + 1] = IF at[n] = NULL THEN NULL ELSE m.cell[at[n]]
    BY <1>3, <2>1
  <2>3. e[n + 1] = IF e[n] = NULL THEN NULL ELSE m.cell[e[n]]
    BY <1>2, <2>1
  <2> QED BY <2>1, <2>2, <2>3
<1>6. T = Nat
  <2>1. T \in SUBSET Nat
    OBVIOUS
  <2> HIDE DEF T
  <2> QED BY <1>4, <1>5, <2>1, SetInduction
<1>7. \A n \in Nat : at[n] = e[n]
  BY <1>6
<1> QED BY <1>7 DEF at, e

\* LIST_FOREACH_SAFE visits the elements of the list.
LEMMA PathIs ==
    ASSUME NEW m, NEW q, Holds(m, q), NEW h \in Heads, NEW s \in Seq(Elem), s = q[h]
    PROVE  Path(m, h) = s
<1>1. Links(m.cell, m.prev, h, s) /\ h # NULL /\ NULL \notin Elem
  BY Names DEF Holds, Cells
<1>2. \A n \in Nat : Walk(m, h)[n] = IF n <= Len(s) THEN Node(h, s, n) ELSE NULL
  BY <1>1, WalkIs
<1>3. Len(s) <= Cardinality(Elem) /\ Cardinality(Elem) \in Nat
  <2>1. s \in [1..Len(s) -> Elem] /\ Len(s) \in Nat
    OBVIOUS
  <2>2. \A i, j \in 1..Len(s) : s[i] = s[j] => i = j
    BY DEF Holds, Apart
  <2>3. s \in Injection(1..Len(s), Elem)
    BY <2>1, <2>2 DEF Injection, IsInjective
  <2>4. Cardinality(1..Len(s)) <= Cardinality(Elem)
    BY <2>3, Names, FS_Injection
  <2>5. Cardinality(1..Len(s)) = Len(s)
    BY <2>1, FS_Interval
  <2> QED BY <2>4, <2>5, Names, FS_CardinalityType
<1>4. {k \in 1..Cardinality(Elem) : Walk(m, h)[k] # NULL} = 1..Len(s)
  <2> SUFFICES ASSUME NEW k \in 1..Cardinality(Elem)
               PROVE  Walk(m, h)[k] # NULL <=> k <= Len(s)
    BY <1>3
  <2>1. k \in Nat /\ k # 0
    BY <1>3
  <2>2. CASE k <= Len(s)
    <3>1. s[k] \in Elem /\ Walk(m, h)[k] = s[k]
      BY <1>2, <2>1, <2>2 DEF Node
    <3> QED BY <1>1, <2>2, <3>1
  <2>3. CASE ~(k <= Len(s))
    BY <1>2, <2>1, <2>3
  <2> QED BY <2>2, <2>3
<1>5. Cardinality(1..Len(s)) = Len(s)
  BY FS_Interval
<1>6. Path(m, h) = [n \in 1..Len(s) |-> Walk(m, h)[n]]
  BY <1>4, <1>5 DEF Path
<1>7. \A n \in 1..Len(s) : Walk(m, h)[n] = s[n]
  BY <1>2 DEF Node
<1> QED BY <1>6, <1>7

\* RemoveAt of the sequence modules is Cut.
LEMMA RemoveAtIsCut ==
    ASSUME NEW S, NEW s \in Seq(S), NEW p \in 1..Len(s)
    PROVE  RemoveAt(s, p) = Cut(s, p)
<1> DEFINE a == SubSeq(s, 1, p - 1)
           b == SubSeq(s, p + 1, Len(s))
           z == Cut(s, p)
<1>1. /\ a \in Seq(S) /\ Len(a) = p - 1
      /\ \A i \in 1..(p - 1) : a[i] = s[i]
  BY SubSeqProperties
<1>2. /\ b \in Seq(S) /\ Len(b) = Len(s) - p
      /\ \A i \in 1..(Len(s) - p) : b[i] = s[p + i]
  <2>1. CASE p = Len(s)
    BY <2>1, SubSeqProperties
  <2>2. CASE p < Len(s)
    BY <2>2, SubSeqProperties
  <2> QED BY <2>1, <2>2
<1>3. RemoveAt(s, p) = a \o b
  BY DEF RemoveAt
<1>4. /\ a \o b \in Seq(S)
      /\ Len(a \o b) = Len(a) + Len(b)
      /\ \A i \in 1..(Len(a) + Len(b)) :
            (a \o b)[i] = IF i <= Len(a) THEN a[i] ELSE b[i - Len(a)]
  BY <1>1, <1>2, ConcatProperties
<1>5. /\ z \in Seq(S) /\ Len(z) = Len(s) - 1
      /\ \A i \in 1..(Len(s) - 1) : z[i] = IF i < p THEN s[i] ELSE s[i + 1]
  BY CutElements
<1> HIDE DEF a, b, z
<1>6. a \o b = z
  <2>1. Len(a \o b) = Len(z)
    BY <1>1, <1>2, <1>4, <1>5
  <2>2. ASSUME NEW i \in 1..Len(z) PROVE (a \o b)[i] = z[i]
    BY <1>1, <1>2, <1>4, <1>5
  <2> QED BY <1>4, <1>5, <2>1, <2>2, SeqEqual
<1> QED BY <1>3, <1>6 DEF z

\* Unlink on sequences is Cut where the element is, and nothing elsewhere.
LEMMA UnlinkIsCut ==
    ASSUME NEW S, NEW s \in Seq(S), NEW p \in 1..Len(s),
           \A i, j \in 1..Len(s) : s[i] = s[j] => i = j
    PROVE  Unlink(s, s[p]) = Cut(s, p)
<1>1. Contains(s, s[p])
  BY DEF Contains
<1>2. (CHOOSE i \in 1..Len(s) : s[i] = s[p]) = p
  OBVIOUS
<1>3. RemoveAt(s, p) = Cut(s, p)
  BY RemoveAtIsCut
<1> QED BY <1>1, <1>2, <1>3 DEF Unlink
-----------------------------------------------------------------------------
(* The run queue r, without tx_tailer, and the wait queues w.              *)

Queued == Task \cup {phony}

Queues(r, w) == [h \in Heads |-> IF h = taskq THEN Append(r, tx_tailer) ELSE w[h]]

Lists(m, r, w) ==
    /\ r \in Seq(Queued) /\ w \in [WaitQ -> Seq(Task)]
    /\ Holds(m, Queues(r, w))

\* x is on one of them.
On(r, w, x) == Contains(r, x) \/ \E v \in WaitQ : Contains(w[v], x)

\* Every wait queue without x.
OffAll(w, x) == [v \in WaitQ |-> Unlink(w[v], x)]

LEMMA QueuesFacts ==
    ASSUME NEW r \in Seq(Queued), NEW w \in [WaitQ -> Seq(Task)]
    PROVE  /\ Queues(r, w) \in [Heads -> Seq(Elem)]
           /\ Queues(r, w)[taskq] = Append(r, tx_tailer)
           /\ Append(r, tx_tailer) \in Seq(Elem)
           /\ \A v \in WaitQ : v \in Heads /\ v # taskq /\ Queues(r, w)[v] = w[v] /\ w[v] \in Seq(Elem)
<1>1. Queued \subseteq Elem /\ Task \subseteq Elem /\ tx_tailer \in Elem
  BY DEF Queued, Elem
<1>2. Append(r, tx_tailer) \in Seq(Elem)
  <2>1. r \in Seq(Elem)
    BY <1>1
  <2> QED BY <1>1, <2>1
<1>3. ASSUME NEW v \in WaitQ PROVE w[v] \in Seq(Elem) /\ v \in Heads /\ v # taskq
  <2>1. w[v] \in Seq(Task)
    OBVIOUS
  <2>2. w[v] \in Seq(Elem)
    BY <1>1, <2>1
  <2> QED BY <2>2, Names
<1>4. \A h \in Heads : h = taskq \/ h \in WaitQ
  BY DEF Heads
<1>5. taskq \in Heads
  BY Names
<1> QED BY <1>2, <1>3, <1>4, <1>5 DEF Queues

\* An element is on one of the lists at most, and once.
LEMMA ListsApart ==
    ASSUME NEW m, NEW r, NEW w, Lists(m, r, w)
    PROVE  /\ \A i, j \in 1..Len(r) : r[i] = r[j] => i = j
           /\ \A v \in WaitQ : \A i, j \in 1..Len(w[v]) : w[v][i] = w[v][j] => i = j
           /\ \A v \in WaitQ : \A i \in 1..Len(r), j \in 1..Len(w[v]) : r[i] # w[v][j]
           /\ \A u, v \in WaitQ : \A i \in 1..Len(w[u]), j \in 1..Len(w[v]) :
                w[u][i] = w[v][j] => u = v
<1> DEFINE q == Queues(r, w)
<1>1. r \in Seq(Queued) /\ w \in [WaitQ -> Seq(Task)]
  BY DEF Lists
<1>2. /\ q[taskq] = Append(r, tx_tailer) /\ taskq \in Heads
      /\ \A v \in WaitQ : v \in Heads /\ v # taskq /\ q[v] = w[v]
  BY <1>1, QueuesFacts, Names
<1>3. \A g, h \in Heads : \A i \in 1..Len(q[g]), j \in 1..Len(q[h]) :
        q[g][i] = q[h][j] => g = h /\ i = j
  BY DEF Lists, Holds, Apart
<1>4. \A i \in 1..Len(r) : i \in 1..Len(q[taskq]) /\ q[taskq][i] = r[i]
  BY <1>1, <1>2
<1> HIDE DEF q
<1>5. \A i, j \in 1..Len(r) : r[i] = r[j] => i = j
  BY <1>2, <1>3, <1>4
<1>6. ASSUME NEW v \in WaitQ
      PROVE  \A i, j \in 1..Len(w[v]) : w[v][i] = w[v][j] => i = j
  BY <1>2, <1>3
<1>7. ASSUME NEW v \in WaitQ, NEW i \in 1..Len(r), NEW j \in 1..Len(w[v])
      PROVE  r[i] # w[v][j]
  <2>1. v \in Heads /\ v # taskq /\ q[v] = w[v]
    BY <1>2
  <2>2. i \in 1..Len(q[taskq]) /\ q[taskq][i] = r[i]
    BY <1>4
  <2> QED BY <1>2, <1>3, <2>1, <2>2
<1>8. ASSUME NEW u \in WaitQ, NEW v \in WaitQ, NEW i \in 1..Len(w[u]), NEW j \in 1..Len(w[v]),
             w[u][i] = w[v][j]
      PROVE  u = v
  <2>1. u \in Heads /\ q[u] = w[u] /\ v \in Heads /\ q[v] = w[v]
    BY <1>2
  <2> QED BY <1>3, <1>8, <2>1
<1> QED BY <1>5, <1>6, <1>7, <1>8

\* The walks find these lists.
LEMMA PathsAre ==
    ASSUME NEW m, NEW r, NEW w, Lists(m, r, w)
    PROVE  /\ Path(m, taskq) = Append(r, tx_tailer)
           /\ Front(Path(m, taskq)) = r
           /\ \A v \in WaitQ : Path(m, v) = w[v]
           /\ [v \in WaitQ |-> Path(m, v)] = w
<1>1. r \in Seq(Queued) /\ w \in [WaitQ -> Seq(Task)] /\ Holds(m, Queues(r, w))
  BY DEF Lists
<1>2. Path(m, taskq) = Append(r, tx_tailer)
  BY <1>1, QueuesFacts, Names, PathIs
<1>3. \A v \in WaitQ : Path(m, v) = w[v]
  BY <1>1, QueuesFacts, PathIs
<1>4. Front(Append(r, tx_tailer)) = r
  <2>1. Append(r, tx_tailer) \in Seq(Queued \cup {tx_tailer})
    BY <1>1, AppendProperties
  <2> QED BY <1>1 DEF Front
<1> QED BY <1>1, <1>2, <1>3, <1>4

\* Where x is not, Unlink does nothing.
LEMMA UnlinkElsewhere ==
    ASSUME NEW s, NEW x, \A i \in 1..Len(s) : s[i] # x
    PROVE  Unlink(s, x) = s
BY DEF Unlink, Contains

\* Unlinking an element of the run queue ...
LEMMA DropRun ==
    ASSUME NEW m, NEW r, NEW w, Lists(m, r, w), NEW p \in 1..Len(r), NEW x, x = r[p]
    PROVE  /\ Lists(LIST_REMOVE(m, x), Unlink(r, x), OffAll(w, x))
           /\ OffAll(w, x) = w /\ Unlink(r, x) = Cut(r, p)
           /\ \A i \in 1..Len(Cut(r, p)) : Cut(r, p)[i] # x
<1> DEFINE q == Queues(r, w)
           s == Append(r, tx_tailer)
           z == Cut(r, p)
<1>1. r \in Seq(Queued) /\ w \in [WaitQ -> Seq(Task)] /\ Holds(m, q)
  BY DEF Lists
<1>2. /\ q \in [Heads -> Seq(Elem)] /\ q[taskq] = s /\ s \in Seq(Elem)
      /\ \A v \in WaitQ : v \in Heads /\ v # taskq /\ q[v] = w[v]
  BY <1>1, QueuesFacts
<1>3. /\ Len(s) = Len(r) + 1 /\ s[Len(r) + 1] = tx_tailer
      /\ \A i \in 1..Len(r) : s[i] = r[i]
      /\ Len(r) \in Nat /\ p \in 1..Len(s)
  BY <1>1
<1>4. /\ z \in Seq(Queued) /\ Len(z) = Len(r) - 1
      /\ \A i \in 1..(Len(r) - 1) : z[i] = IF i < p THEN r[i] ELSE r[i + 1]
  BY <1>1, CutElements
<1>5. Unlink(r, x) = z
  BY <1>1, ListsApart, UnlinkIsCut
<1>6. OffAll(w, x) = w
  <2>1. ASSUME NEW v \in WaitQ PROVE Unlink(w[v], x) = w[v]
    <3>1. \A i \in 1..Len(w[v]) : w[v][i] # x
      BY ListsApart
    <3> QED BY <3>1, UnlinkElsewhere
  <2> QED BY <1>1, <2>1 DEF OffAll
<1>7. Cut(s, p) = Append(z, tx_tailer)
  <2> DEFINE a == Cut(s, p)
             b == Append(z, tx_tailer)
  <2>1. /\ a \in Seq(Elem) /\ Len(a) = Len(s) - 1
        /\ \A i \in 1..(Len(s) - 1) : a[i] = IF i < p THEN s[i] ELSE s[i + 1]
    BY <1>2, <1>3, CutElements
  <2>2. /\ b \in Seq(Elem) /\ Len(b) = Len(z) + 1 /\ b[Len(z) + 1] = tx_tailer
        /\ \A i \in 1..Len(z) : b[i] = z[i]
    <3>1. z \in Seq(Elem) /\ tx_tailer \in Elem
      BY <1>4, Names DEF Queued
    <3> QED BY <3>1
  <2> HIDE DEF a, b, s, z
  <2>3. Len(a) = Len(b)
    BY <1>3, <1>4, <2>1, <2>2
  <2>4. ASSUME NEW i \in 1..Len(a) PROVE a[i] = b[i]
    <3>1. CASE i = Len(r)
      BY <1>3, <1>4, <2>1, <2>2, <3>1
    <3>2. CASE i # Len(r)
      <4>1. i \in 1..(Len(r) - 1) /\ i \in 1..Len(z)
        BY <1>3, <1>4, <2>1, <3>2
      <4>2. b[i] = IF i < p THEN r[i] ELSE r[i + 1]
        BY <1>4, <2>2, <4>1
      <4>3. i \in 1..Len(r) /\ i + 1 \in 1..Len(r) /\ i \in 1..(Len(s) - 1)
        BY <1>3, <4>1
      <4> QED BY <1>3, <2>1, <4>2, <4>3
    <3> QED BY <3>1, <3>2
  <2>5. a = b
    BY <2>1, <2>2, <2>3, <2>4, SeqEqual
  <2> QED BY <2>5 DEF a, b
<1>8. Holds(LIST_REMOVE(m, x), [q EXCEPT ![taskq] = Cut(s, p)])
  <2>1. s[p] = x /\ taskq \in Heads
    BY <1>3, Names
  <2> HIDE DEF s, q
  <2> QED BY <1>1, <1>2, <1>3, <2>1, RemoveKept
<1>9. [q EXCEPT ![taskq] = Append(z, tx_tailer)] = Queues(z, w)
  BY <1>1, <1>4, Names DEF Queues
<1>10. Lists(LIST_REMOVE(m, x), z, w)
  BY <1>1, <1>4, <1>7, <1>8, <1>9 DEF Lists
<1>11. ASSUME NEW i \in 1..Len(z) PROVE z[i] # x
  <2>1. i \in 1..(Len(r) - 1)
    BY <1>3, <1>4
  <2>2. CASE i < p
    <3>1. z[i] = r[i] /\ i \in 1..Len(r) /\ i # p
      BY <1>4, <2>1, <2>2
    <3> QED BY <3>1, ListsApart
  <2>3. CASE ~(i < p)
    <3>1. z[i] = r[i + 1] /\ i + 1 \in 1..Len(r) /\ i + 1 # p
      BY <1>4, <2>1, <2>3
    <3> QED BY <3>1, ListsApart
  <2> QED BY <2>2, <2>3
<1> QED BY <1>5, <1>6, <1>10, <1>11

\* ... and of a wait queue.
LEMMA DropWait ==
    ASSUME NEW m, NEW r, NEW w, Lists(m, r, w), NEW v \in WaitQ,
           NEW p \in 1..Len(w[v]), NEW x, x = w[v][p]
    PROVE  /\ Lists(LIST_REMOVE(m, x), Unlink(r, x), OffAll(w, x))
           /\ OffAll(w, x) = [w EXCEPT ![v] = Cut(w[v], p)] /\ Unlink(r, x) = r
           /\ \A i \in 1..Len(Cut(w[v], p)) : Cut(w[v], p)[i] # x
<1> DEFINE q == Queues(r, w)
           s == w[v]
           z == Cut(s, p)
<1>1. r \in Seq(Queued) /\ w \in [WaitQ -> Seq(Task)] /\ Holds(m, q) /\ s \in Seq(Task)
  BY DEF Lists
<1>2. q \in [Heads -> Seq(Elem)] /\ s = q[v] /\ s \in Seq(Elem) /\ v \in Heads /\ v # taskq
  BY <1>1, QueuesFacts
<1>3. /\ z \in Seq(Task) /\ Len(z) = Len(s) - 1
      /\ \A i \in 1..(Len(s) - 1) : z[i] = IF i < p THEN s[i] ELSE s[i + 1]
  BY <1>1, CutElements
<1>4. Unlink(s, x) = z
  BY <1>1, ListsApart, UnlinkIsCut
<1>5. Unlink(r, x) = r
  BY ListsApart, UnlinkElsewhere
<1>6. OffAll(w, x) = [w EXCEPT ![v] = z]
  <2>1. ASSUME NEW u \in WaitQ, u # v PROVE Unlink(w[u], x) = w[u]
    <3>1. \A i \in 1..Len(w[u]) : w[u][i] # x
      BY <2>1, ListsApart
    <3> QED BY <3>1, UnlinkElsewhere
  <2> HIDE DEF z
  <2> QED BY <1>1, <1>4, <2>1 DEF OffAll
<1>7. Holds(LIST_REMOVE(m, x), [q EXCEPT ![v] = z])
  BY <1>1, <1>2, RemoveKept
<1>8. [q EXCEPT ![v] = z] = Queues(r, [w EXCEPT ![v] = z])
  <2> HIDE DEF z, s
  <2>1. \A h \in Heads : h = taskq \/ h \in WaitQ
    BY DEF Heads
  <2> QED BY <1>1, <1>2, <2>1 DEF Queues
<1>9. Lists(LIST_REMOVE(m, x), r, [w EXCEPT ![v] = z])
  <2> HIDE DEF z
  <2> QED BY <1>1, <1>3, <1>7, <1>8 DEF Lists
<1>10. ASSUME NEW i \in 1..Len(z) PROVE z[i] # x
  <2>1. i \in 1..(Len(s) - 1) /\ Len(s) \in Nat
    BY <1>1, <1>3
  <2>2. CASE i < p
    <3>1. z[i] = s[i] /\ i \in 1..Len(s) /\ i # p
      BY <1>3, <2>1, <2>2
    <3> QED BY <3>1, ListsApart
  <2>3. CASE ~(i < p)
    <3>1. z[i] = s[i + 1] /\ i + 1 \in 1..Len(s) /\ i + 1 # p
      BY <1>3, <2>1, <2>3
    <3> QED BY <3>1, ListsApart
  <2> QED BY <2>2, <2>3
<1> QED BY <1>5, <1>6, <1>9, <1>10

\* What is left by Cut.
LEMMA CutContains ==
    ASSUME NEW S, NEW s \in Seq(S), NEW p \in 1..Len(s), NEW x, x = s[p]
    PROVE  \A y : y # x => (Contains(Cut(s, p), y) <=> Contains(s, y))
<1> DEFINE z == Cut(s, p)
<1>1. /\ Len(z) = Len(s) - 1 /\ Len(s) \in Nat
      /\ \A i \in 1..(Len(s) - 1) : z[i] = IF i < p THEN s[i] ELSE s[i + 1]
  <2>1. Len(z) = Len(s) - 1
    BY CutElements
  <2> QED BY <2>1 DEF Cut
<1> HIDE DEF z
<1>2. ASSUME NEW y, y # x, Contains(z, y) PROVE Contains(s, y)
  <2>1. PICK i \in 1..Len(z) : z[i] = y
    BY <1>2 DEF Contains
  <2>2. i \in 1..(Len(s) - 1) /\ i \in 1..Len(s) /\ i + 1 \in 1..Len(s)
    BY <1>1
  <2> QED BY <1>1, <2>1, <2>2 DEF Contains
<1>3. ASSUME NEW y, y # x, Contains(s, y) PROVE Contains(z, y)
  <2>1. PICK i \in 1..Len(s) : s[i] = y
    BY <1>3 DEF Contains
  <2>2. CASE i < p
    <3>1. i \in 1..Len(z) /\ i \in 1..(Len(s) - 1)
      BY <1>1, <2>2
    <3>2. z[i] = y
      BY <1>1, <2>1, <2>2, <3>1
    <3> QED BY <3>1, <3>2 DEF Contains
  <2>3. CASE i > p
    <3>1. i - 1 \in 1..Len(z) /\ i - 1 \in 1..(Len(s) - 1) /\ ~(i - 1 < p) /\ (i - 1) + 1 = i
      BY <1>1, <2>3
    <3>2. z[i - 1] = y
      BY <1>1, <2>1, <3>1
    <3> QED BY <3>1, <3>2 DEF Contains
  <2>4. i # p
    BY <1>3, <2>1
  <2> QED BY <2>2, <2>3, <2>4
<1> QED BY <1>2, <1>3 DEF z

\* What is added by Append and Cons.
LEMMA AppendContains ==
    ASSUME NEW S, NEW s \in Seq(S), NEW x
    PROVE  \A y : Contains(Append(s, x), y) <=> Contains(s, y) \/ y = x
<1> DEFINE z == Append(s, x)
<1>1. /\ Len(z) = Len(s) + 1 /\ z[Len(s) + 1] = x /\ Len(s) \in Nat
      /\ \A i \in 1..Len(s) : z[i] = s[i]
  OBVIOUS
<1> HIDE DEF z
<1>2. \A y : Contains(z, y) <=> Contains(s, y) \/ y = x
  <2>1. ASSUME NEW y, Contains(z, y) PROVE Contains(s, y) \/ y = x
    <3>1. PICK i \in 1..Len(z) : z[i] = y
      BY <2>1 DEF Contains
    <3>2. i = Len(s) + 1 \/ i \in 1..Len(s)
      BY <1>1
    <3> QED BY <1>1, <3>1, <3>2 DEF Contains
  <2>2. ASSUME NEW y, Contains(s, y) \/ y = x PROVE Contains(z, y)
    <3>1. CASE Contains(s, y)
      <4>1. PICK i \in 1..Len(s) : s[i] = y
        BY <3>1 DEF Contains
      <4>2. i \in 1..Len(z)
        BY <1>1
      <4> QED BY <1>1, <4>1, <4>2 DEF Contains
    <3>2. CASE y = x
      <4>1. Len(s) + 1 \in 1..Len(z)
        BY <1>1
      <4> QED BY <1>1, <3>2, <4>1 DEF Contains
    <3> QED BY <2>2, <3>1, <3>2
  <2> QED BY <2>1, <2>2
<1> QED BY <1>2 DEF z

LEMMA ConsContains ==
    ASSUME NEW S, NEW s \in Seq(S), NEW x \in S
    PROVE  \A y : Contains(Cons(x, s), y) <=> Contains(s, y) \/ y = x
<1> DEFINE z == Cons(x, s)
<1>1. /\ Len(z) = Len(s) + 1 /\ z[1] = x /\ Len(s) \in Nat
      /\ \A i \in 1..Len(z) : i # 1 => z[i] = s[i - 1]
      /\ \A i \in 1..Len(s) : z[i + 1] = s[i]
  BY DEF Cons
<1> HIDE DEF z
<1>2. \A y : Contains(z, y) <=> Contains(s, y) \/ y = x
  <2>1. ASSUME NEW y, Contains(z, y) PROVE Contains(s, y) \/ y = x
    <3>1. PICK i \in 1..Len(z) : z[i] = y
      BY <2>1 DEF Contains
    <3>2. i = 1 \/ i - 1 \in 1..Len(s)
      BY <1>1
    <3>3. CASE i = 1
      BY <1>1, <3>1, <3>3
    <3>4. CASE i # 1
      BY <1>1, <3>1, <3>2, <3>4 DEF Contains
    <3> QED BY <3>3, <3>4
  <2>2. ASSUME NEW y, Contains(s, y) \/ y = x PROVE Contains(z, y)
    <3>1. CASE Contains(s, y)
      <4>1. PICK i \in 1..Len(s) : s[i] = y
        BY <3>1 DEF Contains
      <4>2. i + 1 \in 1..Len(z)
        BY <1>1
      <4> QED BY <1>1, <4>1, <4>2 DEF Contains
    <3>2. CASE y = x
      <4>1. 1 \in 1..Len(z)
        BY <1>1
      <4> QED BY <1>1, <3>2, <4>1 DEF Contains
    <3> QED BY <2>2, <3>1, <3>2
  <2> QED BY <2>1, <2>2
<1> QED BY <1>2 DEF z

\* Unlinking an element from whichever list it is on leaves it on none.
LEMMA DropKept ==
    ASSUME NEW m, NEW r, NEW w, Lists(m, r, w), NEW x, On(r, w, x)
    PROVE  /\ Lists(LIST_REMOVE(m, x), Unlink(r, x), OffAll(w, x))
           /\ ~On(Unlink(r, x), OffAll(w, x), x)
           /\ \A y : y # x => (Contains(Unlink(r, x), y) <=> Contains(r, y))
           /\ \A y : y # x => \A v \in WaitQ :
                (Contains(OffAll(w, x)[v], y) <=> Contains(w[v], y))
<1>0. r \in Seq(Queued) /\ w \in [WaitQ -> Seq(Task)]
  BY DEF Lists
<1>1. CASE Contains(r, x)
  <2>1. PICK p \in 1..Len(r) : r[p] = x
    BY <1>1 DEF Contains
  <2>2. /\ Lists(LIST_REMOVE(m, x), Unlink(r, x), OffAll(w, x))
        /\ OffAll(w, x) = w /\ Unlink(r, x) = Cut(r, p)
        /\ \A i \in 1..Len(Cut(r, p)) : Cut(r, p)[i] # x
    BY <2>1, DropRun
  <2>3. \A v \in WaitQ : \A j \in 1..Len(w[v]) : w[v][j] # x
    BY <2>1, ListsApart
  <2>4. \A y : y # x => (Contains(Cut(r, p), y) <=> Contains(r, y))
    BY <1>0, <2>1, CutContains
  <2> QED BY <2>2, <2>3, <2>4 DEF On, Contains
<1>2. CASE ~Contains(r, x)
  <2>1. PICK v \in WaitQ : \E p \in 1..Len(w[v]) : w[v][p] = x
    BY <1>2 DEF On, Contains
  <2>p. PICK p \in 1..Len(w[v]) : w[v][p] = x
    BY <2>1
  <2>2. /\ Lists(LIST_REMOVE(m, x), Unlink(r, x), OffAll(w, x))
        /\ OffAll(w, x) = [w EXCEPT ![v] = Cut(w[v], p)] /\ Unlink(r, x) = r
        /\ \A i \in 1..Len(Cut(w[v], p)) : Cut(w[v], p)[i] # x
    BY <2>p, DropWait
  <2>3. OffAll(w, x)[v] = Cut(w[v], p) /\ \A u \in WaitQ : u # v => OffAll(w, x)[u] = w[u]
    BY <1>0, <2>2
  <2>4. \A u \in WaitQ : u # v => \A j \in 1..Len(w[u]) : w[u][j] # x
    BY <2>p, ListsApart
  <2>5. ~Contains(OffAll(w, x)[v], x)
    BY <2>2, <2>3 DEF Contains
  <2>6. \A u \in WaitQ : ~Contains(OffAll(w, x)[u], x)
    BY <2>3, <2>4, <2>5 DEF Contains
  <2>7. \A y : y # x => (Contains(Cut(w[v], p), y) <=> Contains(w[v], y))
    <3>1. w[v] \in Seq(Task)
      BY <1>0
    <3> QED BY <2>p, <3>1, CutContains
  <2>8. ~On(Unlink(r, x), OffAll(w, x), x)
    BY <1>2, <2>2, <2>6 DEF On
  <2> QED BY <2>2, <2>3, <2>7, <2>8
<1> QED BY <1>1, <1>2

\* tx_tailer stays last: an element is linked in before it ...
LEMMA AppendKept ==
    ASSUME NEW m, NEW r, NEW w, Lists(m, r, w), NEW x \in Queued, ~On(r, w, x)
    PROVE  Lists(LIST_INSERT_BEFORE(m, tx_tailer, x), Append(r, x), w)
<1> DEFINE q == Queues(r, w)
           s == Append(r, tx_tailer)
           z == Append(r, x)
<1>1. r \in Seq(Queued) /\ w \in [WaitQ -> Seq(Task)] /\ Holds(m, q)
  BY DEF Lists
<1>2. /\ q \in [Heads -> Seq(Elem)] /\ q[taskq] = s /\ s \in Seq(Elem)
      /\ \A v \in WaitQ : v \in Heads /\ v # taskq /\ q[v] = w[v]
  BY <1>1, QueuesFacts
<1>3. /\ Len(s) = Len(r) + 1 /\ s[Len(r) + 1] = tx_tailer
      /\ \A i \in 1..Len(r) : s[i] = r[i]
      /\ Len(r) \in Nat /\ Len(r) \in 0..(Len(s) - 1)
  BY <1>1
<1>4. z \in Seq(Queued) /\ Len(z) = Len(r) + 1 /\ z[Len(r) + 1] = x
      /\ \A i \in 1..Len(r) : z[i] = r[i]
  BY <1>1
<1>5. x \in Elem /\ x # tx_tailer
  BY Names DEF Queued
<1>6. ASSUME NEW g \in Heads, NEW i \in 1..Len(q[g]) PROVE q[g][i] # x
  <2>1. CASE g = taskq
    BY <1>2, <1>3, <1>5, <2>1 DEF On, Contains
  <2>2. CASE g # taskq
    <3>1. g \in WaitQ
      BY <2>2 DEF Heads
    <3> QED BY <1>2, <3>1 DEF On, Contains
  <2> QED BY <2>1, <2>2
<1>7. Put(s, Len(r), x) = Append(z, tx_tailer)
  <2> DEFINE a == Put(s, Len(r), x)
             b == Append(z, tx_tailer)
  <2>1. /\ a \in Seq(Elem) /\ Len(a) = Len(s) + 1
        /\ \A i \in 1..(Len(s) + 1) :
             a[i] = IF i <= Len(r) THEN s[i] ELSE IF i = Len(r) + 1 THEN x ELSE s[i - 1]
    <3>1. Len(r) \in 0..Len(s)
      BY <1>3
    <3>2. a \in Seq(Elem) /\ Len(a) = Len(s) + 1
      <4>1. PICK k \in 0..Len(s) : k = Len(r)
        BY <3>1
      <4> HIDE DEF s
      <4>2. Put(s, k, x) \in Seq(Elem) /\ Len(Put(s, k, x)) = Len(s) + 1
        BY <1>2, <1>5, PutElements
      <4> QED BY <4>1, <4>2
    <3> QED BY <3>2 DEF Put
  <2>2. /\ b \in Seq(Elem) /\ Len(b) = Len(z) + 1 /\ b[Len(z) + 1] = tx_tailer
        /\ \A i \in 1..Len(z) : b[i] = z[i]
    <3>1. z \in Seq(Elem) /\ tx_tailer \in Elem
      BY <1>4, Names DEF Queued
    <3> QED BY <3>1
  <2> HIDE DEF a, b, s, z
  <2>3. Len(a) = Len(b)
    BY <1>3, <1>4, <2>1, <2>2
  <2>4. ASSUME NEW i \in 1..Len(a) PROVE a[i] = b[i]
    <3>0. i \in 1..(Len(r) + 2)
      BY <1>3, <2>1
    <3>1. CASE i = Len(r) + 2
      <4>1. a[i] = s[Len(r) + 1] /\ b[i] = tx_tailer
        BY <1>3, <1>4, <2>1, <2>2, <3>1
      <4> QED BY <1>3, <4>1
    <3>2. CASE i = Len(r) + 1
      BY <1>3, <1>4, <2>1, <2>2, <3>2
    <3>3. CASE i <= Len(r)
      <4>1. i \in 1..Len(r) /\ i \in 1..Len(z)
        BY <1>3, <1>4, <3>0, <3>3
      <4> QED BY <1>3, <1>4, <2>1, <2>2, <3>3, <4>1
    <3> QED BY <1>3, <3>0, <3>1, <3>2, <3>3
  <2>5. a = b
    BY <2>1, <2>2, <2>3, <2>4, SeqEqual
  <2> QED BY <2>5 DEF a, b
<1>8. Holds(LIST_INSERT_BEFORE(m, tx_tailer, x), [q EXCEPT ![taskq] = Put(s, Len(r), x)])
  <2>1. taskq \in Heads
    BY Names
  <2> HIDE DEF s, q
  <2>2. Holds(LIST_INSERT_BEFORE(m, s[Len(r) + 1], x), [q EXCEPT ![taskq] = Put(s, Len(r), x)])
    BY <1>1, <1>2, <1>3, <1>5, <1>6, <2>1, InsertBeforeKept
  <2> QED BY <1>3, <2>2
<1>9. [q EXCEPT ![taskq] = Append(z, tx_tailer)] = Queues(z, w)
  BY <1>1, <1>4, Names DEF Queues
<1> QED BY <1>1, <1>4, <1>7, <1>8, <1>9 DEF Lists

\* ... and a task at the head of a wait queue.
LEMMA RecordKept ==
    ASSUME NEW m, NEW r, NEW w, Lists(m, r, w), NEW x \in Task, ~On(r, w, x), NEW v \in WaitQ
    PROVE  Lists(LIST_INSERT_HEAD(m, v, x), r, [w EXCEPT ![v] = Cons(x, w[v])])
<1> DEFINE q == Queues(r, w)
           s == w[v]
           z == Cons(x, s)
<1>1. r \in Seq(Queued) /\ w \in [WaitQ -> Seq(Task)] /\ Holds(m, q) /\ s \in Seq(Task)
  BY DEF Lists
<1>2. /\ q \in [Heads -> Seq(Elem)] /\ q[taskq] = Append(r, tx_tailer)
      /\ \A u \in WaitQ : u \in Heads /\ u # taskq /\ q[u] = w[u]
      /\ s \in Seq(Elem)
  BY <1>1, QueuesFacts
<1>3. x \in Elem /\ x # tx_tailer
  BY Names
<1>4. ASSUME NEW g \in Heads, NEW i \in 1..Len(q[g]) PROVE q[g][i] # x
  <2>1. CASE g = taskq
    <3>1. q[g] = Append(r, tx_tailer)
      BY <1>2, <2>1
    <3>2. \A j \in 1..Len(Append(r, tx_tailer)) : Append(r, tx_tailer)[j] # x
      BY <1>1, <1>3 DEF On, Contains
    <3> QED BY <3>1, <3>2
  <2>2. CASE g # taskq
    <3>1. g \in WaitQ
      BY <2>2 DEF Heads
    <3> QED BY <1>2, <3>1 DEF On, Contains
  <2> QED BY <2>1, <2>2
<1>5. z \in Seq(Task) /\ z = Put(s, 0, x)
  <2>1. /\ z \in Seq(Task) /\ Len(z) = Len(s) + 1
        /\ \A i \in 1..(Len(s) + 1) : z[i] = IF i = 1 THEN x ELSE s[i - 1]
    BY <1>1 DEF Cons
  <2>2. Put(s, 0, x) \in Seq(Task) /\ Len(Put(s, 0, x)) = Len(s) + 1
    <3>1. 0 \in 0..Len(s)
      BY <1>1
    <3> QED BY <1>1, <3>1, PutElements
  <2>3. \A i \in 1..(Len(s) + 1) :
          Put(s, 0, x)[i] = IF i <= 0 THEN s[i] ELSE IF i = 0 + 1 THEN x ELSE s[i - 1]
    BY DEF Put
  <2>4. \A i \in 1..Len(z) : z[i] = Put(s, 0, x)[i]
    <3> SUFFICES ASSUME NEW i \in 1..(Len(s) + 1) PROVE z[i] = Put(s, 0, x)[i]
      BY <2>1
    <3>1. i \in Nat /\ ~(i <= 0) /\ (i = 0 + 1 <=> i = 1)
      BY <1>1
    <3>2. Put(s, 0, x)[i] = IF i = 1 THEN x ELSE s[i - 1]
      BY <2>3, <3>1
    <3> QED BY <2>1, <3>2
  <2> HIDE DEF z
  <2> QED BY <2>1, <2>2, <2>4, SeqEqual
<1>6. Holds(LIST_INSERT_HEAD(m, v, x), [q EXCEPT ![v] = Put(s, 0, x)])
  <2>1. v \in Heads /\ s = q[v]
    BY <1>2
  <2> HIDE DEF s, q
  <2> QED BY <1>1, <1>2, <1>3, <1>4, <2>1, InsertHeadKept
<1>7. [q EXCEPT ![v] = z] = Queues(r, [w EXCEPT ![v] = z])
  <2> HIDE DEF z, s
  <2>1. \A h \in Heads : h = taskq \/ h \in WaitQ
    BY DEF Heads
  <2> QED BY <1>1, <1>2, <2>1 DEF Queues
<1>8. Lists(LIST_INSERT_HEAD(m, v, x), r, [w EXCEPT ![v] = z])
  <2> HIDE DEF z
  <2> QED BY <1>1, <1>5, <1>6, <1>7 DEF Lists
<1> QED BY <1>8

\* LIST_INIT of a wait queue.
LEMMA ForgetKept ==
    ASSUME NEW m, NEW r, NEW w, Lists(m, r, w), NEW v \in WaitQ
    PROVE  Lists(LIST_INIT(m, v), r, [w EXCEPT ![v] = << >>])
<1> DEFINE q == Queues(r, w)
<1>1. r \in Seq(Queued) /\ w \in [WaitQ -> Seq(Task)] /\ Holds(m, q)
  BY DEF Lists
<1>2. v \in Heads /\ v # taskq
  BY Names
<1>3. Holds(LIST_INIT(m, v), [q EXCEPT ![v] = << >>])
  BY <1>1, <1>2, InitKept
<1>4. [q EXCEPT ![v] = << >>] = Queues(r, [w EXCEPT ![v] = << >>])
  <2>1. \A h \in Heads : h = taskq \/ h \in WaitQ
    BY DEF Heads
  <2> QED BY <1>1, <1>2, <2>1 DEF Queues
<1> QED BY <1>1, <1>3, <1>4 DEF Lists
-----------------------------------------------------------------------------
(* The inductive invariant: lists, flags and the mark of tx_loop_main.      *)

\* A BUSY task is on the run queue, a PENDING one on a wait queue, any other on none.
Placed(fl, r, w) ==
    /\ fl \in [Task -> {{"IDLE"}, {"BUSY"}, {"PENDING"}, {}}]
    /\ \A t \in Task : /\ "BUSY" \in fl[t] <=> Contains(r, t)
                       /\ "PENDING" \in fl[t] <=> \E v \in WaitQ : Contains(w[v], t)

State(m, fl, stop, run, r, w) ==
    /\ Lists(m, r, w)
    /\ Placed(fl, r, w)
    /\ stop \in BOOLEAN /\ run \in BOOLEAN
    /\ \A t \in Task : fl[t] = {} => stop
    /\ Contains(r, phony) <=> run

\* The lists the walks find.
RunQ == Front(Path(mem, taskq))
WaitQs == [w \in WaitQ |-> Path(mem, w)]

IndInv == State(mem, flags, tx_stop, running, RunQ, WaitQs)

LEMMA NextLists ==
    ASSUME NEW r, NEW w, State(mem', flags', tx_stop', running', r, w)
    PROVE  RunQ' = r /\ WaitQs' = w /\ IndInv'
<1>1. Lists(mem', r, w)
  BY DEF State
<1>2. Front(Path(mem', taskq)) = r /\ [v \in WaitQ |-> Path(mem', v)] = w
  BY <1>1, PathsAre
<1>3. RunQ' = r /\ WaitQs' = w
  BY <1>2 DEF RunQ, WaitQs
<1> QED BY <1>3 DEF IndInv

LEMMA InitInv == Init => IndInv /\ RunQ = << >> /\ WaitQs = [w \in WaitQ |-> << >>]
<1> SUFFICES ASSUME Init PROVE IndInv /\ RunQ = << >> /\ WaitQs = [w \in WaitQ |-> << >>]
  OBVIOUS
<1> DEFINE r == << >>
           w == [v \in WaitQ |-> << >>]
           q == Queues(r, w)
<1>1. r \in Seq(Queued) /\ w \in [WaitQ -> Seq(Task)]
  OBVIOUS
<1>2. /\ q \in [Heads -> Seq(Elem)] /\ q[taskq] = << tx_tailer >>
      /\ \A v \in WaitQ : q[v] = << >>
  <2>1. Append(r, tx_tailer) = << tx_tailer >>
    OBVIOUS
  <2> HIDE DEF r
  <2>2. \A v \in WaitQ : w[v] = << >>
    OBVIOUS
  <2> HIDE DEF w
  <2> QED BY <1>1, <2>1, <2>2, QueuesFacts
<1>3. mem \in MemTypes
  <2>1. /\ [x \in Elem \cup Heads |-> IF x = taskq THEN tx_tailer ELSE NULL] \in [Cells -> Elem \cup {NULL}]
        /\ [x \in Elem |-> taskq] \in [Elem -> Cells]
    BY Names DEF Cells
  <2> QED BY <2>1 DEF Init, MemTypes
<1>4. /\ \A x \in Cells : mem.cell[x] = IF x = taskq THEN tx_tailer ELSE NULL
      /\ \A x \in Elem : mem.prev[x] = taskq
  BY DEF Init, Cells
<1> HIDE DEF q
<1>5. \A h \in Heads : h = taskq \/ h \in WaitQ
  BY DEF Heads
<1>6. Apart(q)
  BY <1>2, <1>5 DEF Apart
<1>7. ASSUME NEW h \in Heads PROVE Links(mem.cell, mem.prev, h, q[h])
  <2>1. CASE h = taskq
    <3>1. q[h] = << tx_tailer >> /\ Len(q[h]) = 1 /\ q[h][1] = tx_tailer
      <4>1. q[h] = << tx_tailer >>
        BY <1>2, <2>1, Zenon
      <4>2. Len(<< tx_tailer >>) = 1 /\ << tx_tailer >>[1] = tx_tailer
        OBVIOUS
      <4> QED BY <4>1, <4>2, Zenon
    <3>2. Node(h, q[h], 0) = taskq /\ Node(h, q[h], 1) = tx_tailer
      BY <2>1, <3>1 DEF Node
    <3>3. mem.cell[taskq] = tx_tailer /\ mem.cell[tx_tailer] = NULL /\ mem.prev[tx_tailer] = taskq
      BY <1>4, Names DEF Cells
    <3> QED BY <3>1, <3>2, <3>3 DEF Links
  <2>2. CASE h # taskq
    BY <1>2, <1>4, <1>5, <2>2, Names DEF Links, Node, Cells
  <2> QED BY <2>1, <2>2
<1>8. Lists(mem, r, w)
  <2>1. Holds(mem, q)
    BY <1>2, <1>3, <1>6, <1>7 DEF Holds
  <2> QED BY <1>1, <2>1 DEF Lists, q
<1>9. State(mem, flags, tx_stop, running, r, w)
  <2>1. flags = [t \in Task |-> {"IDLE"}] /\ tx_stop = FALSE /\ running = FALSE
    BY DEF Init
  <2>2. Placed(flags, r, w)
    BY <2>1 DEF Placed, Contains
  <2>3. ~Contains(r, phony)
    BY DEF Contains
  <2> HIDE DEF r, w
  <2>4. \A t \in Task : flags[t] # {}
    BY <2>1
  <2> QED BY <1>8, <2>1, <2>2, <2>3, <2>4 DEF State
<1>10. RunQ = r /\ WaitQs = w
  <2> HIDE DEF r, w
  <2> QED BY <1>8, PathsAre DEF RunQ, WaitQs
<1> QED BY <1>9, <1>10 DEF IndInv

\* tx_task_drop, of a task that may be dropped.
LEMMA DroppedKept ==
    ASSUME NEW m, NEW fl, NEW stop, NEW run, NEW r, NEW w,
           State(m, fl, stop, run, r, w), NEW t \in Task, fl[t] # {}
    PROVE  /\ Lists(Dropped(m, fl[t], t), Unlink(r, t), OffAll(w, t))
           /\ ~On(Unlink(r, t), OffAll(w, t), t)
           /\ \A y : y # t => (Contains(Unlink(r, t), y) <=> Contains(r, y))
           /\ \A y : y # t => \A v \in WaitQ :
                (Contains(OffAll(w, t)[v], y) <=> Contains(w[v], y))
<1>1. Lists(m, r, w) /\ w \in [WaitQ -> Seq(Task)]
  BY DEF State, Lists
<1>2. CASE "IDLE" \in fl[t]
  <2>1. fl[t] = {"IDLE"} /\ Dropped(m, fl[t], t) = m
    BY <1>2 DEF State, Placed, Dropped
  <2>2. ~Contains(r, t) /\ \A v \in WaitQ : ~Contains(w[v], t)
    BY <2>1 DEF State, Placed
  <2>3. Unlink(r, t) = r
    BY <2>2 DEF Unlink
  <2>4. OffAll(w, t) = w
    BY <1>1, <2>2 DEF Unlink, OffAll
  <2> QED BY <1>1, <2>1, <2>2, <2>3, <2>4 DEF On
<1>3. CASE "IDLE" \notin fl[t]
  <2>1. On(r, w, t)
    BY <1>3 DEF State, Placed, On
  <2>2. Dropped(m, fl[t], t) = LIST_REMOVE(m, t)
    BY <1>3 DEF Dropped
  <2>3. /\ Lists(LIST_REMOVE(m, t), Unlink(r, t), OffAll(w, t))
        /\ ~On(Unlink(r, t), OffAll(w, t), t)
        /\ \A y : y # t => (Contains(Unlink(r, t), y) <=> Contains(r, y))
        /\ \A y : y # t => \A v \in WaitQ :
             (Contains(OffAll(w, t)[v], y) <=> Contains(w[v], y))
    BY <1>1, <2>1, DropKept
  <2> QED BY <2>2, <2>3
<1> QED BY <1>2, <1>3
-----------------------------------------------------------------------------
(* The actions.  Each takes the lists r and w to lists that the action of   *)
(* the same name in TxTaskLists gives.                                      *)

LEMMA ActiveStep ==
    ASSUME NEW r, NEW w, State(mem, flags, tx_stop, running, r, w),
           NEW t \in Task, TaskActive(t)
    PROVE  \/ State(mem', flags', tx_stop', running', r, w) /\ UNCHANGED tx_stop
           \/ /\ ~tx_stop /\ UNCHANGED tx_stop
              /\ State(mem', flags', tx_stop', running', Append(Unlink(r, t), t), OffAll(w, t))
<1>1. UNCHANGED <<tx_stop, running>> /\ Lists(mem, r, w) /\ Placed(flags, r, w)
  BY DEF TaskActive, State
<1>2. CASE tx_stop \/ "BUSY" \in flags[t]
  <2>1. mem' = mem /\ flags' = flags
    BY <1>1, <1>2 DEF TaskActive, Activated, ActivatedFlags, Placed
  <2> QED BY <1>1, <2>1
<1>3. CASE ~tx_stop /\ "BUSY" \notin flags[t]
  <2>1. flags[t] # {}
    BY <1>3 DEF State
  <2>2. /\ mem' = LIST_INSERT_BEFORE(Dropped(mem, flags[t], t), tx_tailer, t)
        /\ flags' = [flags EXCEPT ![t] = {"BUSY"}]
    BY <1>3 DEF TaskActive, Activated, ActivatedFlags
  <2> DEFINE r1 == Unlink(r, t)
             w1 == OffAll(w, t)
             r2 == Append(r1, t)
  <2>3. /\ Lists(Dropped(mem, flags[t], t), r1, w1)
        /\ ~On(r1, w1, t)
        /\ \A y : y # t => (Contains(r1, y) <=> Contains(r, y))
        /\ \A y : y # t => \A v \in WaitQ : (Contains(w1[v], y) <=> Contains(w[v], y))
    BY <2>1, DroppedKept
  <2> HIDE DEF r1, w1
  <2>4. Lists(mem', r2, w1)
    BY <2>2, <2>3, AppendKept DEF Queued
  <2>5. \A y : Contains(r2, y) <=> Contains(r1, y) \/ y = t
    <3>1. r1 \in Seq(Queued)
      BY <2>3 DEF Lists
    <3> QED BY <3>1, AppendContains
  <2> HIDE DEF r2
  <2>6. Placed(flags', r2, w1)
    <3>1. flags' \in [Task -> {{"IDLE"}, {"BUSY"}, {"PENDING"}, {}}]
      BY <1>1, <2>2 DEF Placed
    <3>2. ASSUME NEW y \in Task
          PROVE  /\ "BUSY" \in flags'[y] <=> Contains(r2, y)
                 /\ "PENDING" \in flags'[y] <=> \E v \in WaitQ : Contains(w1[v], y)
      <4>1. CASE y = t
        BY <1>1, <2>2, <2>3, <2>5, <4>1 DEF Placed, On
      <4>2. CASE y # t
        BY <1>1, <2>2, <2>3, <2>5, <4>2 DEF Placed
      <4> QED BY <4>1, <4>2
    <3> QED BY <3>1, <3>2 DEF Placed
  <2>7. Contains(r2, phony) <=> running'
    BY <1>1, <2>3, <2>5, Names DEF State
  <2>8. \A y \in Task : flags'[y] = {} => tx_stop'
    BY <1>1, <2>2 DEF Placed, State
  <2>9. State(mem', flags', tx_stop', running', r2, w1)
    BY <1>1, <2>4, <2>6, <2>7, <2>8 DEF State
  <2> QED BY <1>1, <1>3, <2>9 DEF r1, r2, w1
<1> QED BY <1>2, <1>3

LEMMA DropStep ==
    ASSUME NEW r, NEW w, State(mem, flags, tx_stop, running, r, w),
           NEW t \in Task, TaskDrop(t)
    PROVE  /\ UNCHANGED tx_stop
           /\ State(mem', flags', tx_stop', running', Unlink(r, t), OffAll(w, t))
<1>1. /\ UNCHANGED <<tx_stop, running>> /\ Placed(flags, r, w)
      /\ mem' = Dropped(mem, flags[t], t) /\ flags' = [flags EXCEPT ![t] = {"IDLE"}]
      /\ flags[t] # {}
  BY DEF TaskDrop, Woken, State
<1> DEFINE r1 == Unlink(r, t)
           w1 == OffAll(w, t)
<1>2. /\ Lists(mem', r1, w1)
      /\ ~On(r1, w1, t)
      /\ \A y : y # t => (Contains(r1, y) <=> Contains(r, y))
      /\ \A y : y # t => \A v \in WaitQ : (Contains(w1[v], y) <=> Contains(w[v], y))
  BY <1>1, DroppedKept
<1> HIDE DEF r1, w1
<1>3. Placed(flags', r1, w1)
  <2>1. flags' \in [Task -> {{"IDLE"}, {"BUSY"}, {"PENDING"}, {}}]
    BY <1>1 DEF Placed
  <2>2. ASSUME NEW y \in Task
        PROVE  /\ "BUSY" \in flags'[y] <=> Contains(r1, y)
               /\ "PENDING" \in flags'[y] <=> \E v \in WaitQ : Contains(w1[v], y)
    <3>1. CASE y = t
      BY <1>1, <1>2, <3>1 DEF Placed, On
    <3>2. CASE y # t
      BY <1>1, <1>2, <3>2 DEF Placed
    <3> QED BY <3>1, <3>2
  <2> QED BY <2>1, <2>2 DEF Placed
<1>4. Contains(r1, phony) <=> running'
  BY <1>1, <1>2, Names DEF State
<1>5. \A y \in Task : flags'[y] = {} => tx_stop'
  BY <1>1 DEF Placed, State
<1>6. State(mem', flags', tx_stop', running', r1, w1)
  BY <1>1, <1>2, <1>3, <1>4, <1>5 DEF State
<1> QED BY <1>1, <1>6 DEF r1, w1

LEMMA RecordStep ==
    ASSUME NEW r, NEW w, State(mem, flags, tx_stop, running, r, w),
           NEW t \in Task, NEW v \in WaitQ, TaskRecord(v, t)
    PROVE  /\ UNCHANGED tx_stop
           /\ State(mem', flags', tx_stop', running', Unlink(r, t),
                    [OffAll(w, t) EXCEPT ![v] = Cons(t, OffAll(w, t)[v])])
<1>1. /\ UNCHANGED <<tx_stop, running>> /\ Placed(flags, r, w)
      /\ mem' = LIST_INSERT_HEAD(Dropped(mem, flags[t], t), v, t)
      /\ flags' = [flags EXCEPT ![t] = {"PENDING"}]
      /\ flags[t] # {}
  BY DEF TaskRecord, Woken, State
<1> DEFINE r1 == Unlink(r, t)
           w1 == OffAll(w, t)
           w2 == [w1 EXCEPT ![v] = Cons(t, w1[v])]
<1>2. /\ Lists(Dropped(mem, flags[t], t), r1, w1)
      /\ ~On(r1, w1, t)
      /\ \A y : y # t => (Contains(r1, y) <=> Contains(r, y))
      /\ \A y : y # t => \A u \in WaitQ : (Contains(w1[u], y) <=> Contains(w[u], y))
  BY <1>1, DroppedKept
<1> HIDE DEF r1, w1
<1>3. Lists(mem', r1, w2)
  BY <1>1, <1>2, RecordKept
<1>4. /\ \A y : Contains(w2[v], y) <=> Contains(w1[v], y) \/ y = t
      /\ \A u \in WaitQ : u # v => w2[u] = w1[u]
  <2>1. w1 \in [WaitQ -> Seq(Task)] /\ w1[v] \in Seq(Task)
    BY <1>2 DEF Lists
  <2>2. w2[v] = Cons(t, w1[v]) /\ \A u \in WaitQ : u # v => w2[u] = w1[u]
    BY <2>1
  <2> QED BY <2>1, <2>2, ConsContains
<1> HIDE DEF w2
<1>5. Placed(flags', r1, w2)
  <2>1. flags' \in [Task -> {{"IDLE"}, {"BUSY"}, {"PENDING"}, {}}]
    BY <1>1 DEF Placed
  <2>2. ASSUME NEW y \in Task
        PROVE  /\ "BUSY" \in flags'[y] <=> Contains(r1, y)
               /\ "PENDING" \in flags'[y] <=> \E u \in WaitQ : Contains(w2[u], y)
    <3>1. CASE y = t
      BY <1>1, <1>2, <1>4, <3>1 DEF Placed, On
    <3>2. CASE y # t
      <4>1. flags'[y] = flags[y]
        BY <1>1, <3>2 DEF Placed
      <4>2. \A u \in WaitQ : Contains(w2[u], y) <=> Contains(w[u], y)
        BY <1>2, <1>4, <3>2
      <4> QED BY <1>1, <1>2, <3>2, <4>1, <4>2 DEF Placed
    <3> QED BY <3>1, <3>2
  <2> QED BY <2>1, <2>2 DEF Placed
<1>6. Contains(r1, phony) <=> running'
  BY <1>1, <1>2, Names DEF State
<1>7. \A y \in Task : flags'[y] = {} => tx_stop'
  BY <1>1 DEF Placed, State
<1>8. State(mem', flags', tx_stop', running', r1, w2)
  BY <1>1, <1>3, <1>5, <1>6, <1>7 DEF State
<1> QED BY <1>1, <1>8 DEF r1, w1, w2

LEMMA StopStep ==
    ASSUME NEW r, NEW w, State(mem, flags, tx_stop, running, r, w), LoopStop
    PROVE  tx_stop' = TRUE /\ State(mem', flags', tx_stop', running', r, w)
BY DEF LoopStop, State

\* phony is on no wait queue.
LEMMA PhonyOff ==
    ASSUME NEW m, NEW r, NEW w, Lists(m, r, w)
    PROVE  /\ \A v \in WaitQ : ~Contains(w[v], phony)
           /\ OffAll(w, phony) = w
           /\ On(r, w, phony) <=> Contains(r, phony)
<1>1. w \in [WaitQ -> Seq(Task)]
  BY DEF Lists
<1>2. ASSUME NEW v \in WaitQ PROVE ~Contains(w[v], phony)
  <2>1. w[v] \in Seq(Task)
    BY <1>1
  <2>2. \A i \in 1..Len(w[v]) : w[v][i] \in Task
    BY <2>1
  <2> QED BY <2>2, Names DEF Contains
<1>3. OffAll(w, phony) = w
  BY <1>1, <1>2 DEF OffAll, Unlink
<1> QED BY <1>2, <1>3 DEF On

LEMMA EnterStep ==
    ASSUME NEW r, NEW w, State(mem, flags, tx_stop, running, r, w), LoopEnter
    PROVE  /\ UNCHANGED tx_stop /\ ~Contains(r, phony)
           /\ State(mem', flags', tx_stop', running', Append(r, phony), w)
<1>1. /\ Lists(mem, r, w) /\ Placed(flags, r, w) /\ ~Contains(r, phony) /\ r \in Seq(Queued)
      /\ UNCHANGED <<flags, tx_stop>> /\ running' = TRUE
      /\ mem' = LIST_INSERT_BEFORE(mem, tx_tailer, phony)
  BY DEF LoopEnter, State, Lists
<1> DEFINE r2 == Append(r, phony)
<1>2. Lists(mem', r2, w)
  <2>1. ~On(r, w, phony) /\ phony \in Queued
    BY <1>1, PhonyOff DEF Queued
  <2> QED BY <1>1, <2>1, AppendKept
<1>3. \A y : Contains(r2, y) <=> Contains(r, y) \/ y = phony
  BY <1>1, AppendContains
<1> HIDE DEF r2
<1>4. Placed(flags', r2, w)
  BY <1>1, <1>3, Names DEF Placed
<1>5. State(mem', flags', tx_stop', running', r2, w)
  BY <1>1, <1>2, <1>3, <1>4 DEF State
<1> QED BY <1>1, <1>5 DEF r2

LEMMA LeaveStep ==
    ASSUME NEW r, NEW w, State(mem, flags, tx_stop, running, r, w), LoopLeave
    PROVE  /\ UNCHANGED tx_stop
           /\ State(mem', flags', tx_stop', running', Unlink(r, phony), w)
<1>1. /\ Lists(mem, r, w) /\ Placed(flags, r, w) /\ Contains(r, phony)
      /\ UNCHANGED <<flags, tx_stop>> /\ running' = FALSE
      /\ mem' = LIST_REMOVE(mem, phony)
  BY DEF LoopLeave, State, Lists
<1> DEFINE r2 == Unlink(r, phony)
<1>2. /\ Lists(mem', r2, w) /\ ~Contains(r2, phony)
      /\ \A y : y # phony => (Contains(r2, y) <=> Contains(r, y))
  BY <1>1, PhonyOff, DropKept DEF On
<1> HIDE DEF r2
<1>3. Placed(flags', r2, w)
  BY <1>1, <1>2, Names DEF Placed
<1>4. State(mem', flags', tx_stop', running', r2, w)
  BY <1>1, <1>2, <1>3 DEF State
<1> QED BY <1>1, <1>4 DEF r2

LEMMA HeadStep ==
    ASSUME NEW r, NEW w, State(mem, flags, tx_stop, running, r, w), LoopHead
    PROVE  /\ UNCHANGED tx_stop /\ Contains(r, phony)
           /\ State(mem', flags', tx_stop', running',
                    IF Head(r) = phony THEN Append(Tail(r), phony) ELSE Tail(r), w)
<1> DEFINE x == mem.cell[taskq]
           r1 == Tail(r)
           r2 == Append(r1, phony)
<1>1. /\ Lists(mem, r, w) /\ Placed(flags, r, w) /\ Contains(r, phony) /\ r \in Seq(Queued)
      /\ UNCHANGED <<tx_stop, running>> /\ running
      /\ mem' = IF x = phony THEN LIST_INSERT_BEFORE(LIST_REMOVE(mem, x), tx_tailer, x)
                             ELSE LIST_REMOVE(mem, x)
      /\ flags' = [t \in Task |-> IF t = x THEN (flags[t] \ {"BUSY"}) \cup {"IDLE"} ELSE flags[t]]
  BY DEF LoopHead, State, Lists
<1>2. 1 \in 1..Len(r) /\ Len(r) \in Nat
  BY <1>1 DEF Contains
<1>3. x = r[1] /\ x = Head(r)
  <2> DEFINE s == Append(r, tx_tailer)
  <2>1. Links(mem.cell, mem.prev, taskq, s)
    BY <1>1, QueuesFacts, Names DEF Lists, Holds
  <2>2. Len(s) = Len(r) + 1 /\ s[1] = r[1]
    BY <1>1, <1>2
  <2> HIDE DEF s
  <2>3. mem.cell[Node(taskq, s, 0)] = IF 0 = Len(s) THEN NULL ELSE s[0 + 1]
    <3>1. 0 \in 0..Len(s)
      BY <1>2, <2>2
    <3> QED BY <2>1, <3>1 DEF Links
  <2> QED BY <1>1, <1>2, <2>2, <2>3 DEF Node
<1>4. r1 = Cut(r, 1) /\ r1 \in Seq(Queued)
  <2> DEFINE b == Cut(r, 1)
  <2>1. /\ r1 \in Seq(Queued) /\ Len(r1) = Len(r) - 1
        /\ \A i \in 1..(Len(r) - 1) : r1[i] = r[i + 1]
    BY <1>1, <1>2
  <2>2. /\ b \in Seq(Queued) /\ Len(b) = Len(r) - 1
        /\ \A i \in 1..(Len(r) - 1) : b[i] = IF i < 1 THEN r[i] ELSE r[i + 1]
    BY <1>1, <1>2, CutElements
  <2> HIDE DEF b, r1
  <2>3. \A i \in 1..Len(r1) : r1[i] = b[i]
    BY <1>2, <2>1, <2>2
  <2>4. r1 = b
    BY <2>1, <2>2, <2>3, SeqEqual
  <2> QED BY <2>1, <2>4 DEF b
<1> HIDE DEF x, r1
<1>5. /\ Lists(LIST_REMOVE(mem, x), r1, w)
      /\ ~Contains(r1, x)
      /\ \A y : y # x => (Contains(r1, y) <=> Contains(r, y))
  <2>1. /\ Lists(LIST_REMOVE(mem, x), Unlink(r, x), OffAll(w, x))
        /\ OffAll(w, x) = w /\ Unlink(r, x) = Cut(r, 1)
        /\ \A i \in 1..Len(Cut(r, 1)) : Cut(r, 1)[i] # x
    BY <1>1, <1>2, <1>3, DropRun
  <2>2. \A y : y # x => (Contains(Cut(r, 1), y) <=> Contains(r, y))
    BY <1>1, <1>2, <1>3, CutContains
  <2> QED BY <1>4, <2>1, <2>2 DEF Contains
<1>6. CASE x = phony
  <2>1. ~On(r1, w, phony) /\ phony \in Queued
    BY <1>5, <1>6, PhonyOff DEF Queued
  <2>2. Lists(mem', r2, w)
    BY <1>1, <1>5, <1>6, <2>1, AppendKept
  <2>3. \A y : Contains(r2, y) <=> Contains(r1, y) \/ y = phony
    BY <1>4, AppendContains
  <2> HIDE DEF r2
  <2>4. flags' = flags
    BY <1>1, <1>6, Names DEF Placed
  <2>5. Placed(flags', r2, w)
    BY <1>1, <1>5, <1>6, <2>3, <2>4, Names DEF Placed
  <2>6. State(mem', flags', tx_stop', running', r2, w)
    BY <1>1, <2>2, <2>3, <2>4, <2>5 DEF State
  <2> QED BY <1>1, <1>3, <1>6, <2>6 DEF r1, r2
<1>7. CASE x # phony
  <2>1. x \in Task /\ Contains(r, x)
    BY <1>1, <1>2, <1>3, <1>7 DEF Queued, Contains
  <2>2. flags[x] = {"BUSY"} /\ ~\E v \in WaitQ : Contains(w[v], x)
    BY <1>1, <2>1 DEF Placed
  <2>3. flags' = [flags EXCEPT ![x] = {"IDLE"}]
    BY <1>1, <2>1, <2>2 DEF Placed
  <2>4. Placed(flags', r1, w)
    <3>1. flags' \in [Task -> {{"IDLE"}, {"BUSY"}, {"PENDING"}, {}}]
      BY <1>1, <2>3 DEF Placed
    <3>2. ASSUME NEW y \in Task
          PROVE  /\ "BUSY" \in flags'[y] <=> Contains(r1, y)
                 /\ "PENDING" \in flags'[y] <=> \E v \in WaitQ : Contains(w[v], y)
      <4>1. CASE y = x
        BY <1>1, <1>5, <2>2, <2>3, <4>1 DEF Placed
      <4>2. CASE y # x
        BY <1>1, <1>5, <2>3, <4>2 DEF Placed
      <4> QED BY <4>1, <4>2
    <3> QED BY <3>1, <3>2 DEF Placed
  <2>5. Contains(r1, phony)
    BY <1>1, <1>5, <1>7
  <2>6. \A y \in Task : flags'[y] = {} => tx_stop'
    BY <1>1, <2>1, <2>3 DEF Placed, State
  <2>7. State(mem', flags', tx_stop', running', r1, w)
    BY <1>1, <1>5, <1>7, <2>4, <2>5, <2>6 DEF State
  <2> QED BY <1>1, <1>3, <1>7, <2>7 DEF r1
<1> QED BY <1>6, <1>7
-----------------------------------------------------------------------------
(* tx_task_wakeup.                                                          *)

LEMMA ActivatedType ==
    ASSUME NEW m \in MemTypes, NEW fl, NEW x \in Elem
    PROVE  Activated(m, fl, x) \in MemTypes
<1>1. x \in Cells /\ Elem \subseteq Cells /\ tx_tailer \in Elem /\ NULL \notin Cells
  BY Names
<1>2. ASSUME NEW a \in MemTypes PROVE LIST_REMOVE(a, x) \in MemTypes
  <2>1. a.cell \in [Cells -> Elem \cup {NULL}] /\ a.prev \in [Elem -> Cells]
    BY DEF MemTypes
  <2> DEFINE n == a.cell[x]
             back == IF n = NULL THEN a.prev ELSE [a.prev EXCEPT ![n] = a.prev[x]]
             fwd == [a.cell EXCEPT ![a.prev[x]] = n]
  <2>2. n \in Elem \cup {NULL} /\ a.prev[x] \in Cells
    BY <1>1, <2>1
  <2>3. back \in [Elem -> Cells] /\ fwd \in [Cells -> Elem \cup {NULL}]
    BY <2>1, <2>2
  <2>4. LIST_REMOVE(a, x) = [cell |-> fwd, prev |-> back]
    BY DEF LIST_REMOVE
  <2> HIDE DEF fwd, back
  <2> QED BY <2>3, <2>4 DEF MemTypes
<1>3. ASSUME NEW a \in MemTypes PROVE LIST_INSERT_BEFORE(a, tx_tailer, x) \in MemTypes
  <2>1. a.cell \in [Cells -> Elem \cup {NULL}] /\ a.prev \in [Elem -> Cells]
    BY DEF MemTypes
  <2> DEFINE back == [a.prev EXCEPT ![x] = a.prev[tx_tailer], ![tx_tailer] = x]
             fwd == [a.cell EXCEPT ![x] = tx_tailer, ![a.prev[tx_tailer]] = x]
  <2>2. back \in [Elem -> Cells] /\ fwd \in [Cells -> Elem \cup {NULL}]
    BY <1>1, <2>1
  <2>3. LIST_INSERT_BEFORE(a, tx_tailer, x) = [cell |-> fwd, prev |-> back]
    BY DEF LIST_INSERT_BEFORE
  <2> HIDE DEF fwd, back
  <2> QED BY <2>2, <2>3 DEF MemTypes
<1>4. Dropped(m, fl, x) \in MemTypes
  BY <1>2 DEF Dropped
<1> QED BY <1>3, <1>4 DEF Activated

\* The memories between the activations.
LEMMA WokeIs ==
    ASSUME NEW m \in MemTypes, NEW ts \in Seq(Task)
    PROVE  \E f : /\ Woke(m, ts) = f[Len(ts)] /\ f[0] = m
                  /\ \A i \in 1..Len(ts) :
                       f[i] = Activated(f[i - 1], flags[ts[i]] \ {"PENDING"}, ts[i])
<1> DEFINE n == Len(ts)
           g == [p \in MemTypes \X (1..n) |->
                   Activated(p[1], flags[ts[p[2]]] \ {"PENDING"}, ts[p[2]])]
           e == CHOOSE f : f = [i \in 0..n |->
                  IF i = 0 THEN m ELSE Activated(f[i - 1], flags[ts[i]] \ {"PENDING"}, ts[i])]
<1>1. n \in Nat /\ \A i \in 1..n : ts[i] \in Elem
  BY Names
<1>2. \A a \in MemTypes, i \in 1..n :
        Activated(a, flags[ts[i]] \ {"PENDING"}, ts[i]) \in MemTypes
  BY <1>1, ActivatedType
<1>3. g \in [MemTypes \X (1..n) -> MemTypes]
  BY <1>2
<1>4. \A a \in MemTypes, i \in 1..n :
        g[<<a, i>>] = Activated(a, flags[ts[i]] \ {"PENDING"}, ts[i])
  OBVIOUS
<1>5. PICK f : Recursion(f, n, MemTypes, m, g)
  <2> HIDE DEF g, n
  <2> QED BY <1>1, <1>3, RecursionExists
<1>6. f = [i \in 0..n |->
             IF i = 0 THEN m ELSE Activated(f[i - 1], flags[ts[i]] \ {"PENDING"}, ts[i])]
  <2>1. ASSUME NEW i \in 1..n
        PROVE  g[<<f[i - 1], i>>] = Activated(f[i - 1], flags[ts[i]] \ {"PENDING"}, ts[i])
    <3> HIDE DEF g, n
    <3>1. i - 1 \in 0..n
      BY <1>1
    <3>2. f[i - 1] \in MemTypes
      BY <1>5, <3>1 DEF Recursion
    <3> QED BY <1>4, <3>2
  <2> HIDE DEF g, n
  <2>2. \A i \in 0..n : i = 0 \/ i \in 1..n
    BY <1>1
  <2> QED BY <1>5, <2>1, <2>2 DEF Recursion
<1>7. e = [i \in 0..n |->
             IF i = 0 THEN m ELSE Activated(e[i - 1], flags[ts[i]] \ {"PENDING"}, ts[i])]
  <2> HIDE DEF g, n
  <2> QED BY <1>6
<1>8. Woke(m, ts) = e[n]
  BY DEF Woke
<1> HIDE DEF e, g
<1>9. e[0] = m
  BY <1>1, <1>7
<1>10. ASSUME NEW i \in 1..n
       PROVE  e[i] = Activated(e[i - 1], flags[ts[i]] \ {"PENDING"}, ts[i])
  <2>1. i \in 0..n /\ i # 0
    BY <1>1
  <2> HIDE DEF n
  <2> QED BY <1>7, <2>1
<1> QED BY <1>8, <1>9, <1>10

\* The run queue r and the wait queue s when k elements of s have moved.
Moved(r, s, k) == [j \in 1..(Len(r) + k) |-> IF j <= Len(r) THEN r[j] ELSE s[j - Len(r)]]
Rest(s, k) == [j \in 1..(Len(s) - k) |-> s[j + k]]

LEMMA MovedFacts ==
    ASSUME NEW S, NEW r \in Seq(S), NEW s \in Seq(S)
    PROVE  /\ \A k \in 0..Len(s) : Moved(r, s, k) \in Seq(S) /\ Len(Moved(r, s, k)) = Len(r) + k
           /\ Moved(r, s, 0) = r
           /\ Moved(r, s, Len(s)) = r \o s
<1>1. ASSUME NEW k \in 0..Len(s)
      PROVE  Moved(r, s, k) \in Seq(S) /\ Len(Moved(r, s, k)) = Len(r) + k
  <2>1. Len(r) \in Nat /\ k \in Nat /\ Len(r) + k \in Nat
    OBVIOUS
  <2>2. ASSUME NEW j \in 1..(Len(r) + k)
        PROVE  (IF j <= Len(r) THEN r[j] ELSE s[j - Len(r)]) \in S
    <3>1. CASE j <= Len(r)
      BY <2>1, <3>1
    <3>2. CASE ~(j <= Len(r))
      <4>1. j - Len(r) \in 1..Len(s)
        BY <2>1, <3>2
      <4> QED BY <3>2, <4>1
    <3> QED BY <3>1, <3>2
  <2>3. Moved(r, s, k) \in [1..(Len(r) + k) -> S]
    BY <2>2 DEF Moved
  <2> QED BY <2>1, <2>3
<1>2. Moved(r, s, 0) = r
  <2> DEFINE z == Moved(r, s, 0)
  <2>1. \A j \in 1..Len(r) : z[j] = r[j]
    BY DEF Moved
  <2>2. z \in Seq(S) /\ Len(z) = Len(r)
    <3>1. PICK k \in 0..Len(s) : k = 0
      OBVIOUS
    <3>2. Moved(r, s, k) \in Seq(S) /\ Len(Moved(r, s, k)) = Len(r) + k
      BY <1>1
    <3> QED BY <3>1, <3>2
  <2> HIDE DEF z
  <2>3. z = r
    BY <2>1, <2>2, SeqEqual
  <2> QED BY <2>3 DEF z
<1>3. Moved(r, s, Len(s)) = r \o s
  <2> DEFINE a == Moved(r, s, Len(s))
             b == r \o s
  <2>1. a \in Seq(S) /\ Len(a) = Len(r) + Len(s)
    <3>1. PICK k \in 0..Len(s) : k = Len(s)
      OBVIOUS
    <3>2. Moved(r, s, k) \in Seq(S) /\ Len(Moved(r, s, k)) = Len(r) + k
      BY <1>1
    <3> QED BY <3>1, <3>2
  <2>2. /\ b \in Seq(S) /\ Len(b) = Len(r) + Len(s)
        /\ \A j \in 1..(Len(r) + Len(s)) : b[j] = IF j <= Len(r) THEN r[j] ELSE s[j - Len(r)]
    BY ConcatProperties
  <2>3. \A j \in 1..(Len(r) + Len(s)) : a[j] = IF j <= Len(r) THEN r[j] ELSE s[j - Len(r)]
    BY DEF Moved
  <2> HIDE DEF a, b
  <2>4. a = b
    BY <2>1, <2>2, <2>3, SeqEqual
  <2> QED BY <2>4 DEF a, b
<1> QED BY <1>1, <1>2, <1>3

\* One more.
LEMMA MovedNext ==
    ASSUME NEW S, NEW r \in Seq(S), NEW s \in Seq(S), NEW k \in 0..(Len(s) - 1),
           NEW x, x = s[k + 1]
    PROVE  Append(Moved(r, s, k), x) = Moved(r, s, k + 1)
<1> DEFINE y == Moved(r, s, k)
           a == Append(y, x)
           b == Moved(r, s, k + 1)
<1>1. k \in Nat /\ k \in 0..Len(s) /\ k + 1 \in 0..Len(s) /\ k + 1 \in 1..Len(s) /\ Len(r) \in Nat
  OBVIOUS
<1>2. y \in Seq(S) /\ Len(y) = Len(r) + k
  BY <1>1, MovedFacts
<1>3. b \in Seq(S) /\ Len(b) = Len(r) + k + 1
  <2>1. PICK i \in 0..Len(s) : i = k + 1
    BY <1>1
  <2>2. Moved(r, s, i) \in Seq(S) /\ Len(Moved(r, s, i)) = Len(r) + i
    BY MovedFacts
  <2> QED BY <1>1, <2>1, <2>2
<1>4. /\ \A j \in 1..(Len(r) + k) : y[j] = IF j <= Len(r) THEN r[j] ELSE s[j - Len(r)]
      /\ \A j \in 1..(Len(r) + k + 1) : b[j] = IF j <= Len(r) THEN r[j] ELSE s[j - Len(r)]
  BY <1>1 DEF Moved
<1> HIDE DEF y, b
<1>5. /\ a \in Seq(S) /\ Len(a) = Len(r) + k + 1 /\ a[Len(r) + k + 1] = x
      /\ \A j \in 1..(Len(r) + k) : a[j] = y[j]
  BY <1>1, <1>2
<1> HIDE DEF a
<1>6. ASSUME NEW j \in 1..Len(a) PROVE a[j] = b[j]
  <2>1. CASE j = Len(r) + k + 1
    <3>1. ~(j <= Len(r)) /\ j - Len(r) = k + 1 /\ j \in 1..(Len(r) + k + 1)
      BY <1>1, <2>1
    <3> QED BY <1>4, <1>5, <2>1, <3>1
  <2>2. CASE j # Len(r) + k + 1
    <3>0. j \in 1..(Len(r) + k + 1)
      BY <1>5
    <3>1. j \in 1..(Len(r) + k) /\ j \in 1..(Len(r) + k + 1)
      <4> DEFINE n == Len(r)
      <4>1. n \in Nat /\ k \in Nat /\ j # n + k + 1 /\ j \in 1..(n + k + 1)
        BY <1>1, <2>2, <3>0
      <4> HIDE DEF n
      <4>2. j \in 1..(n + k)
        BY <4>1
      <4> QED BY <3>0, <4>2 DEF n
    <3> QED BY <1>4, <1>5, <3>1
  <2> QED BY <2>1, <2>2
<1>7. a = b
  BY <1>3, <1>5, <1>6, SeqEqual
<1> QED BY <1>7 DEF a, b, y

LEMMA RestFacts ==
    ASSUME NEW S, NEW s \in Seq(S)
    PROVE  /\ \A k \in 0..Len(s) : Rest(s, k) \in Seq(S) /\ Len(Rest(s, k)) = Len(s) - k
           /\ Rest(s, 0) = s
           /\ \A k \in 0..(Len(s) - 1) :
                1 \in 1..Len(Rest(s, k)) /\ Rest(s, k)[1] = s[k + 1] /\ Cut(Rest(s, k), 1) = Rest(s, k + 1)
<1>1. ASSUME NEW k \in 0..Len(s)
      PROVE  Rest(s, k) \in Seq(S) /\ Len(Rest(s, k)) = Len(s) - k
  <2>1. Len(s) - k \in Nat
    OBVIOUS
  <2>2. \A j \in 1..(Len(s) - k) : j + k \in 1..Len(s)
    OBVIOUS
  <2>3. Rest(s, k) \in [1..(Len(s) - k) -> S]
    BY <2>2 DEF Rest
  <2> QED BY <2>1, <2>3
<1>2. Rest(s, 0) = s
  <2> DEFINE z == Rest(s, 0)
  <2>1. \A j \in 1..Len(s) : z[j] = s[j]
    BY DEF Rest
  <2>2. z \in Seq(S) /\ Len(z) = Len(s)
    <3>1. PICK k \in 0..Len(s) : k = 0
      OBVIOUS
    <3>2. Rest(s, k) \in Seq(S) /\ Len(Rest(s, k)) = Len(s) - k
      BY <1>1
    <3> QED BY <3>1, <3>2
  <2> HIDE DEF z
  <2>3. z = s
    BY <2>1, <2>2, SeqEqual
  <2> QED BY <2>3 DEF z
<1>3. ASSUME NEW k \in 0..(Len(s) - 1)
      PROVE  1 \in 1..Len(Rest(s, k)) /\ Rest(s, k)[1] = s[k + 1] /\ Cut(Rest(s, k), 1) = Rest(s, k + 1)
  <2> DEFINE y == Rest(s, k)
             a == Cut(y, 1)
             b == Rest(s, k + 1)
  <2>1. k \in Nat /\ k \in 0..Len(s) /\ k + 1 \in 0..Len(s) /\ Len(s) \in Nat
    OBVIOUS
  <2>2. y \in Seq(S) /\ Len(y) = Len(s) - k /\ 1 \in 1..Len(y)
    <3>1. y \in Seq(S) /\ Len(y) = Len(s) - k
      BY <1>1, <2>1
    <3> QED BY <2>1, <3>1
  <2>3. b \in Seq(S) /\ Len(b) = Len(s) - (k + 1)
    <3>1. PICK i \in 0..Len(s) : i = k + 1
      BY <2>1
    <3>2. Rest(s, i) \in Seq(S) /\ Len(Rest(s, i)) = Len(s) - i
      BY <1>1
    <3> QED BY <3>1, <3>2
  <2>4. /\ \A j \in 1..(Len(s) - k) : y[j] = s[j + k]
        /\ \A j \in 1..(Len(s) - (k + 1)) : b[j] = s[j + (k + 1)]
    BY <2>1 DEF Rest
  <2> HIDE DEF y, b
  <2>5. /\ a \in Seq(S) /\ Len(a) = Len(y) - 1
        /\ \A j \in 1..(Len(y) - 1) : a[j] = IF j < 1 THEN y[j] ELSE y[j + 1]
    <3>1. PICK i \in 1..Len(y) : i = 1
      BY <2>2
    <3>2. /\ Cut(y, i) \in Seq(S) /\ Len(Cut(y, i)) = Len(y) - 1
          /\ \A j \in 1..(Len(y) - 1) : Cut(y, i)[j] = IF j < i THEN y[j] ELSE y[j + 1]
      BY <2>2, CutElements
    <3> QED BY <3>1, <3>2
  <2> HIDE DEF a
  <2>6. ASSUME NEW j \in 1..Len(a) PROVE a[j] = b[j]
    <3>1. /\ j \in 1..(Len(y) - 1) /\ j \in Nat /\ ~(j < 1) /\ j + 1 \in 1..(Len(s) - k)
          /\ (j + 1) + k = j + (k + 1) /\ j \in 1..(Len(s) - (k + 1))
      BY <2>1, <2>2, <2>5
    <3>2. a[j] = y[j + 1] /\ y[j + 1] = s[(j + 1) + k] /\ b[j] = s[j + (k + 1)]
      BY <2>4, <2>5, <3>1
    <3> QED BY <3>1, <3>2
  <2>7. a = b
    <3>1. Len(a) = Len(b)
      BY <2>1, <2>2, <2>3, <2>5
    <3>2. a \in Seq(S) /\ b \in Seq(S)
      BY <2>3, <2>5
    <3> QED BY <2>6, <3>1, <3>2, SeqEqual
  <2>8. y[1] = s[k + 1]
    <3>1. 1 \in 1..(Len(s) - k) /\ 1 + k = k + 1
      BY <2>1
    <3> QED BY <2>4, <3>1
  <2> QED BY <2>2, <2>7, <2>8 DEF a, b, y
<1> QED BY <1>1, <1>2, <1>3

\* The tasks of a wait queue, activated one after the other, move to the run queue.
LEMMA WokeKept ==
    ASSUME NEW m, NEW r, NEW w, Lists(m, r, w), NEW v \in WaitQ, NEW s, s = w[v],
           ~tx_stop, \A i \in 1..Len(s) : flags[s[i]] = {"PENDING"}
    PROVE  Lists(Woke(m, s), r \o s, [w EXCEPT ![v] = << >>])
<1> DEFINE At(k) == [w EXCEPT ![v] = Rest(s, k)]
<1>1. r \in Seq(Queued) /\ w \in [WaitQ -> Seq(Task)] /\ m \in MemTypes
      /\ s \in Seq(Task) /\ s \in Seq(Queued)
  <2>1. r \in Seq(Queued) /\ w \in [WaitQ -> Seq(Task)] /\ m \in MemTypes /\ s \in Seq(Task)
    BY DEF Lists, Holds
  <2>2. Task \subseteq Queued
    BY DEF Queued
  <2> QED BY <2>1, <2>2
<1>2. PICK f : /\ Woke(m, s) = f[Len(s)] /\ f[0] = m
               /\ \A i \in 1..Len(s) : f[i] = Activated(f[i - 1], flags[s[i]] \ {"PENDING"}, s[i])
  BY <1>1, WokeIs
<1> DEFINE T == {k \in Nat : k <= Len(s) => Lists(f[k], Moved(r, s, k), At(k))}
<1>3. 0 \in T
  <2>1. Moved(r, s, 0) = r /\ Rest(s, 0) = s
    BY <1>1, MovedFacts, RestFacts
  <2>2. At(0) = w
    BY <1>1, <2>1
  <2> HIDE DEF At
  <2> QED BY <1>2, <2>1, <2>2
<1>4. ASSUME NEW k \in T PROVE k + 1 \in T
  <2> SUFFICES ASSUME k + 1 <= Len(s) PROVE Lists(f[k + 1], Moved(r, s, k + 1), At(k + 1))
    OBVIOUS
  <2> DEFINE a == Moved(r, s, k)
             b == At(k)
             x == s[k + 1]
  <2>1. k \in Nat /\ k \in 0..(Len(s) - 1) /\ k \in 0..Len(s) /\ k + 1 \in 1..Len(s)
        /\ (k + 1) - 1 = k /\ Len(s) \in Nat
    BY <1>1
  <2>2. Lists(f[k], a, b)
    BY <2>1
  <2>3. 1 \in 1..Len(Rest(s, k)) /\ Rest(s, k)[1] = x /\ Cut(Rest(s, k), 1) = Rest(s, k + 1)
    BY <1>1, <2>1, RestFacts
  <2>4. b[v] = Rest(s, k)
    BY <1>1
  <2>5. Append(a, x) = Moved(r, s, k + 1)
    <3> HIDE DEF T
    <3>1. r \in Seq(Queued) /\ s \in Seq(Queued)
      BY <1>1
    <3>2. x = s[k + 1]
      OBVIOUS
    <3> HIDE DEF x
    <3> HIDE DEF T
    <3> QED BY <2>1, <3>1, <3>2, MovedNext
  <2>6. x \in Task
    BY <1>1, <2>1
  <2>7. f[k + 1] = Activated(f[k], flags[x] \ {"PENDING"}, x) /\ flags[x] = {"PENDING"}
    BY <1>2, <2>1
  <2> HIDE DEF x
  <2>8. f[k + 1] = LIST_INSERT_BEFORE(LIST_REMOVE(f[k], x), tx_tailer, x)
    BY <2>7 DEF Activated, Dropped
  <2>9. [b EXCEPT ![v] = Rest(s, k + 1)] = At(k + 1)
    BY <1>1
  <2> HIDE DEF a, b, At
  <2>10. PICK p \in 1..Len(b[v]) : p = 1
    BY <2>3, <2>4
  <2>11. x = b[v][p] /\ Cut(b[v], p) = Rest(s, k + 1)
    BY <2>3, <2>4, <2>10
  <2>12. /\ Lists(LIST_REMOVE(f[k], x), Unlink(a, x), OffAll(b, x))
         /\ OffAll(b, x) = [b EXCEPT ![v] = Cut(b[v], p)] /\ Unlink(a, x) = a
    BY <2>2, <2>10, <2>11, DropWait
  <2>13. Lists(LIST_REMOVE(f[k], x), a, At(k + 1))
    BY <2>9, <2>11, <2>12
  <2>14. On(a, b, x)
    BY <2>10, <2>11 DEF On, Contains
  <2>15. ~On(Unlink(a, x), OffAll(b, x), x)
    BY <2>2, <2>14, DropKept
  <2>16. ~On(a, At(k + 1), x)
    BY <2>9, <2>11, <2>12, <2>15
  <2>17. Lists(f[k + 1], Append(a, x), At(k + 1))
    BY <2>6, <2>8, <2>13, <2>16, AppendKept DEF Queued
  <2> QED BY <2>5, <2>17
<1>5. T = Nat
  <2>1. T \in SUBSET Nat
    OBVIOUS
  <2> HIDE DEF T
  <2> QED BY <1>3, <1>4, <2>1, SetInduction
<1>6. Lists(f[Len(s)], Moved(r, s, Len(s)), At(Len(s)))
  <2>1. Len(s) \in Nat /\ Len(s) <= Len(s)
    BY <1>1
  <2>2. Len(s) \in T
    <3> HIDE DEF T
    <3> QED BY <1>5, <2>1
  <2> HIDE DEF At
  <2> QED BY <2>1, <2>2
<1>7. Rest(s, Len(s)) = << >>
  <2>1. Len(s) \in 0..Len(s) /\ Len(s) - Len(s) = 0
    BY <1>1
  <2>2. PICK k \in 0..Len(s) : k = Len(s)
    BY <2>1
  <2>3. Rest(s, k) \in Seq(Task) /\ Len(Rest(s, k)) = Len(s) - k
    BY <1>1, RestFacts
  <2>4. Rest(s, Len(s)) \in Seq(Task) /\ Len(Rest(s, Len(s))) = 0
    BY <2>1, <2>2, <2>3
  <2> QED BY <2>4
<1>8. Moved(r, s, Len(s)) = r \o s
  <2> HIDE DEF T, At
  <2>1. r \in Seq(Queued) /\ s \in Seq(Queued)
    BY <1>1
  <2> QED BY <2>1, MovedFacts, Zenon
<1> QED BY <1>2, <1>6, <1>7, <1>8

\* On a stopped loop nothing moves.
LEMMA WokeStopped ==
    ASSUME NEW m \in MemTypes, NEW ts \in Seq(Task), tx_stop
    PROVE  Woke(m, ts) = m
<1>1. PICK f : /\ Woke(m, ts) = f[Len(ts)] /\ f[0] = m
               /\ \A i \in 1..Len(ts) :
                    f[i] = Activated(f[i - 1], flags[ts[i]] \ {"PENDING"}, ts[i])
  BY WokeIs
<1>2. Len(ts) \in Nat
  OBVIOUS
<1> DEFINE T == {k \in Nat : k <= Len(ts) => f[k] = m}
<1>3. 0 \in T
  BY <1>1
<1>4. ASSUME NEW k \in T PROVE k + 1 \in T
  <2> SUFFICES ASSUME k + 1 <= Len(ts) PROVE f[k + 1] = m
    OBVIOUS
  <2>1. k + 1 \in 1..Len(ts) /\ (k + 1) - 1 = k /\ f[k] = m
    BY <1>2
  <2>2. f[k + 1] = Activated(f[k], flags[ts[k + 1]] \ {"PENDING"}, ts[k + 1])
    BY <1>1, <2>1
  <2> QED BY <2>1, <2>2 DEF Activated
<1>5. T = Nat
  <2>1. T \in SUBSET Nat
    OBVIOUS
  <2> HIDE DEF T
  <2> QED BY <1>3, <1>4, <2>1, SetInduction
<1>6. Len(ts) \in T
  <2> HIDE DEF T
  <2> QED BY <1>2, <1>5
<1>7. f[Len(ts)] = m
  BY <1>2, <1>6
<1> QED BY <1>1, <1>7

LEMMA ConcatContains ==
    ASSUME NEW S, NEW r \in Seq(S), NEW s \in Seq(S)
    PROVE  \A y : Contains(r \o s, y) <=> Contains(r, y) \/ Contains(s, y)
<1> DEFINE z == r \o s
<1>1. /\ Len(z) = Len(r) + Len(s) /\ Len(r) \in Nat /\ Len(s) \in Nat
      /\ \A i \in 1..(Len(r) + Len(s)) : z[i] = IF i <= Len(r) THEN r[i] ELSE s[i - Len(r)]
  BY ConcatProperties
<1> HIDE DEF z
<1>2. ASSUME NEW y, Contains(z, y) PROVE Contains(r, y) \/ Contains(s, y)
  <2>1. PICK i \in 1..Len(z) : z[i] = y
    BY <1>2 DEF Contains
  <2>2. CASE i <= Len(r)
    BY <1>1, <2>1, <2>2 DEF Contains
  <2>3. CASE ~(i <= Len(r))
    <3>1. i - Len(r) \in 1..Len(s) /\ i \in 1..(Len(r) + Len(s))
      BY <1>1, <2>3
    <3> QED BY <1>1, <2>1, <2>3, <3>1 DEF Contains
  <2> QED BY <2>2, <2>3
<1>3. ASSUME NEW y, Contains(r, y) PROVE Contains(z, y)
  <2>1. PICK i \in 1..Len(r) : r[i] = y
    BY <1>3 DEF Contains
  <2>2. i \in 1..Len(z) /\ i \in 1..(Len(r) + Len(s)) /\ i <= Len(r)
    BY <1>1
  <2> QED BY <1>1, <2>1, <2>2 DEF Contains
<1>4. ASSUME NEW y, Contains(s, y) PROVE Contains(z, y)
  <2>1. PICK i \in 1..Len(s) : s[i] = y
    BY <1>4 DEF Contains
  <2>2. /\ Len(r) + i \in 1..Len(z) /\ Len(r) + i \in 1..(Len(r) + Len(s))
        /\ ~(Len(r) + i <= Len(r)) /\ (Len(r) + i) - Len(r) = i
    BY <1>1
  <2>3. z[Len(r) + i] = y
    BY <1>1, <2>1, <2>2
  <2> QED BY <2>2, <2>3 DEF Contains
<1> QED BY <1>2, <1>3, <1>4 DEF z

LEMMA WakeupStep ==
    ASSUME NEW r, NEW w, State(mem, flags, tx_stop, running, r, w),
           NEW v \in WaitQ, TaskWakeup(v)
    PROVE  /\ UNCHANGED tx_stop
           /\ State(mem', flags', tx_stop', running',
                    IF tx_stop THEN r ELSE r \o w[v], [w EXCEPT ![v] = << >>])
<1> DEFINE s == w[v]
           w2 == [w EXCEPT ![v] = << >>]
           r2 == IF tx_stop THEN r ELSE r \o s
<1>1. /\ Lists(mem, r, w) /\ Placed(flags, r, w)
      /\ r \in Seq(Queued) /\ w \in [WaitQ -> Seq(Task)] /\ mem \in MemTypes
  BY DEF State, Lists, Holds
<1>2. Path(mem, v) = s /\ s \in Seq(Task) /\ s \in Seq(Queued)
  <2>1. Path(mem, v) = s
    BY <1>1, PathsAre
  <2>2. s \in Seq(Task)
    BY <1>1
  <2> QED BY <2>1, <2>2 DEF Queued
<1>3. /\ UNCHANGED <<tx_stop, running>> /\ mem' = LIST_INIT(Woke(mem, s), v)
      /\ flags' = [t \in Task |-> IF Contains(s, t)
                                  THEN ActivatedFlags(flags[t] \ {"PENDING"}) ELSE flags[t]]
  BY <1>2 DEF TaskWakeup
<1>4. \A i \in 1..Len(s) : s[i] \in Task /\ flags[s[i]] = {"PENDING"}
  <2> SUFFICES ASSUME NEW i \in 1..Len(s) PROVE s[i] \in Task /\ flags[s[i]] = {"PENDING"}
    OBVIOUS
  <2>1. s[i] \in Task /\ Contains(w[v], s[i])
    BY <1>2 DEF Contains
  <2>2. "PENDING" \in flags[s[i]]
    BY <1>1, <2>1 DEF Placed
  <2>3. flags[s[i]] \in {{"IDLE"}, {"BUSY"}, {"PENDING"}, {}}
    BY <1>1, <2>1 DEF Placed
  <2> HIDE DEF s
  <2> QED BY <2>1, <2>2, <2>3
<1>5. Lists(mem', r2, w2)
  <2>1. CASE tx_stop
    <3>1. Woke(mem, s) = mem
      BY <1>1, <1>2, <2>1, WokeStopped
    <3> QED BY <1>1, <1>3, <2>1, <3>1, ForgetKept
  <2>2. CASE ~tx_stop
    <3>1. Lists(Woke(mem, s), r \o s, w2)
      <4> HIDE DEF s
      <4>1. s = w[v]
        BY DEF s
      <4> QED BY <1>1, <1>4, <2>2, <4>1, WokeKept
    <3>2. Lists(mem', r \o s, [w2 EXCEPT ![v] = << >>])
      <4> HIDE DEF w2, s
      <4> QED BY <1>3, <3>1, ForgetKept
    <3>3. [w2 EXCEPT ![v] = << >>] = w2
      BY <1>1
    <3> QED BY <2>2, <3>2, <3>3
  <2> QED BY <2>1, <2>2
<1>6. /\ ~Contains(w2[v], phony) /\ \A y : ~Contains(w2[v], y)
      /\ \A u \in WaitQ : u # v => w2[u] = w[u]
  <2>1. w2[v] = << >> /\ \A u \in WaitQ : u # v => w2[u] = w[u]
    BY <1>1
  <2>2. \A y : ~Contains(<< >>, y)
    BY DEF Contains
  <2> HIDE DEF w2
  <2> QED BY <2>1, <2>2
<1>7. \A y : Contains(r2, y) <=> Contains(r, y) \/ (~tx_stop /\ Contains(s, y))
  BY <1>1, <1>2, ConcatContains
\* A task of this list is on no other.
<1>8. \A y : Contains(s, y) => \A u \in WaitQ : u # v => ~Contains(w[u], y)
  BY <1>1, ListsApart DEF Contains
<1>9. \A t \in Task : Contains(s, t) => flags[t] = {"PENDING"} /\ ~Contains(r, t)
  <2> SUFFICES ASSUME NEW t \in Task, Contains(s, t)
               PROVE  flags[t] = {"PENDING"} /\ ~Contains(r, t)
    OBVIOUS
  <2>1. flags[t] = {"PENDING"}
    BY <1>1 DEF Placed
  <2> QED BY <1>1, <2>1 DEF Placed
<1>10. Placed(flags', r2, w2)
  <2> HIDE DEF r2, w2, s
  <2>1. \A t \in Task : flags'[t] = IF Contains(s, t) THEN IF tx_stop THEN {} ELSE {"BUSY"}
                                                      ELSE flags[t]
    <3> SUFFICES ASSUME NEW t \in Task, Contains(s, t)
                 PROVE  flags'[t] = IF tx_stop THEN {} ELSE {"BUSY"}
      BY <1>3
    <3>1. flags[t] \ {"PENDING"} = {}
      BY <1>9
    <3> QED BY <1>3, <3>1 DEF ActivatedFlags
  <2>2. flags' \in [Task -> {{"IDLE"}, {"BUSY"}, {"PENDING"}, {}}]
    <3>1. \A t \in Task : flags'[t] \in {{"IDLE"}, {"BUSY"}, {"PENDING"}, {}}
      BY <1>1, <2>1 DEF Placed
    <3> QED BY <1>3, <3>1
  <2>3. ASSUME NEW t \in Task
        PROVE  /\ "BUSY" \in flags'[t] <=> Contains(r2, t)
               /\ "PENDING" \in flags'[t] <=> \E u \in WaitQ : Contains(w2[u], t)
    <3>1. CASE Contains(s, t)
      <4>1. ~\E u \in WaitQ : Contains(w2[u], t)
        BY <1>6, <1>8, <3>1
      <4>2. Contains(r2, t) <=> ~tx_stop
        BY <1>7, <1>9, <3>1
      <4> QED BY <2>1, <3>1, <4>1, <4>2
    <3>2. CASE ~Contains(s, t)
      <4>1. flags'[t] = flags[t] /\ (Contains(r2, t) <=> Contains(r, t))
        BY <1>7, <2>1, <3>2
      <4>2. \A u \in WaitQ : Contains(w2[u], t) <=> Contains(w[u], t)
        BY <1>6, <3>2 DEF s
      <4> QED BY <1>1, <4>1, <4>2 DEF Placed
    <3> QED BY <3>1, <3>2
  <2> QED BY <2>2, <2>3 DEF Placed
<1>11. Contains(r2, phony) <=> running'
  <2>1. ~Contains(s, phony)
    BY <1>1, PhonyOff
  <2> QED BY <1>3, <1>7, <2>1 DEF State
<1>12. \A t \in Task : flags'[t] = {} => tx_stop'
  <2> SUFFICES ASSUME NEW t \in Task, flags'[t] = {}, ~tx_stop PROVE FALSE
    BY <1>3
  <2>1. flags[t] # {}
    BY DEF State
  <2>2. Contains(s, t)
    BY <1>3, <2>1
  <2>3. flags'[t] = ActivatedFlags({})
    <3>1. flags[t] \ {"PENDING"} = {}
      BY <1>9, <2>2
    <3> QED BY <1>3, <2>2, <3>1
  <2> QED BY <2>3 DEF ActivatedFlags
<1>13. State(mem', flags', tx_stop', running', r2, w2)
  <2> HIDE DEF r2, w2
  <2>1. tx_stop' \in BOOLEAN /\ running' \in BOOLEAN
    BY <1>3 DEF State
  <2> QED BY <1>5, <1>10, <1>11, <1>12, <2>1 DEF State
<1> QED BY <1>3, <1>13
-----------------------------------------------------------------------------
(* The properties.                                                          *)

LEMMA IndInvSound == IndInv => ListsSound
<1> SUFFICES ASSUME IndInv PROVE ListsSound
  OBVIOUS
<1> DEFINE q == Queues(RunQ, WaitQs)
<1>1. /\ Lists(mem, RunQ, WaitQs) /\ Placed(flags, RunQ, WaitQs)
      /\ Contains(RunQ, phony) <=> running
      /\ RunQ \in Seq(Queued) /\ WaitQs \in [WaitQ -> Seq(Task)]
      /\ Holds(mem, q)
  BY DEF IndInv, State, Lists
<1>2. /\ Path(mem, taskq) = Append(RunQ, tx_tailer)
      /\ \A v \in WaitQ : Path(mem, v) = WaitQs[v]
  BY <1>1, PathsAre
<1>3. \A h \in Heads : Path(mem, h) = q[h] /\ q[h] \in Seq(Elem)
  BY <1>1, <1>2, QueuesFacts DEF Heads
<1>4. \A h \in Heads : h = taskq \/ h \in WaitQ
  BY DEF Heads
<1>5. q[taskq] = Append(RunQ, tx_tailer) /\ \A v \in WaitQ : q[v] = WaitQs[v]
  BY <1>1, QueuesFacts
<1>6. \A h \in Heads : Links(mem.cell, mem.prev, h, q[h])
  BY <1>1 DEF Holds
<1>7. Apart(q)
  BY <1>1 DEF Holds
<1> HIDE DEF q
<1>8. ASSUME NEW h \in Heads PROVE IsInjective(Path(mem, h))
  <2>1. \A i, j \in 1..Len(q[h]) : q[h][i] = q[h][j] => i = j
    BY <1>7 DEF Apart
  <2>2. DOMAIN q[h] = 1..Len(q[h])
    BY <1>3
  <2> QED BY <1>3, <2>1, <2>2 DEF IsInjective
<1>9. ASSUME NEW h \in Heads, NEW x \in Elem, Contains(Path(mem, h), x)
      PROVE  /\ mem.cell[mem.prev[x]] = x
             /\ mem.prev[x] = h \/ Contains(Path(mem, h), mem.prev[x])
  <2> DEFINE s == q[h]
  <2>1. s \in Seq(Elem) /\ Path(mem, h) = s /\ Links(mem.cell, mem.prev, h, s)
    BY <1>3, <1>6
  <2> HIDE DEF s
  <2>2. PICK i \in 1..Len(s) : s[i] = x
    BY <1>9, <2>1 DEF Contains
  <2>3. /\ i - 1 \in 0..Len(s) /\ i - 1 # Len(s) /\ (i - 1) + 1 = i
        /\ (i - 1 # 0 => i - 1 \in 1..Len(s))
    BY <2>1
  <2>4. mem.prev[x] = Node(h, s, i - 1)
    BY <2>1, <2>2 DEF Links
  <2>5. mem.cell[Node(h, s, i - 1)] = s[i]
    BY <2>1, <2>3 DEF Links
  <2>6. Node(h, s, i - 1) = h \/ Contains(s, Node(h, s, i - 1))
    BY <2>3 DEF Node, Contains
  <2> QED BY <2>1, <2>2, <2>4, <2>5, <2>6
<1>10. Last(Path(mem, taskq)) = tx_tailer /\ mem.cell[tx_tailer] = NULL
  <2> DEFINE s == Append(RunQ, tx_tailer)
  <2>1. Len(s) = Len(RunQ) + 1 /\ s[Len(s)] = tx_tailer /\ Len(RunQ) \in Nat
    BY <1>1
  <2>2. Links(mem.cell, mem.prev, taskq, s)
    BY <1>5, <1>6, Names
  <2> HIDE DEF s
  <2>3. Len(s) \in 0..Len(s) /\ Len(s) # 0
    BY <2>1
  <2>4. mem.cell[Node(taskq, s, Len(s))] = NULL
    BY <2>2, <2>3 DEF Links
  <2>5. Path(mem, taskq) = s
    BY <1>2 DEF s
  <2> QED BY <2>1, <2>3, <2>4, <2>5 DEF Node, Last
<1>11. \A y : Contains(Path(mem, taskq), y) <=> Contains(RunQ, y) \/ y = tx_tailer
  BY <1>1, <1>2, AppendContains
<1>12. Contains(Path(mem, taskq), phony) <=> running
  BY <1>1, <1>11, Names
<1>13. ASSUME NEW t \in Task
       PROVE  LET on == {h \in Heads : Contains(Path(mem, h), t)} IN
              CASE "BUSY" \in flags[t] -> on = {taskq}
                [] "PENDING" \in flags[t] -> \E w \in WaitQ : on = {w}
                [] OTHER -> on = {}
  <2> DEFINE on == {h \in Heads : Contains(Path(mem, h), t)}
  <2>1. /\ taskq \in on <=> "BUSY" \in flags[t]
        /\ \A v \in WaitQ : v \in on <=> Contains(WaitQs[v], t)
        /\ on \subseteq WaitQ \cup {taskq}
    <3>1. taskq \in Heads /\ WaitQ \subseteq Heads /\ t # tx_tailer
      BY Names
    <3>2. Contains(RunQ, t) <=> "BUSY" \in flags[t]
      BY <1>1 DEF Placed
    <3>3. Contains(Path(mem, taskq), t) <=> Contains(RunQ, t)
      BY <1>11, <3>1
    <3> QED BY <1>2, <1>4, <3>1, <3>2, <3>3
  <2>2. "PENDING" \in flags[t] <=> \E v \in WaitQ : Contains(WaitQs[v], t)
    BY <1>1 DEF Placed
  <2>3. \A u, v \in WaitQ : Contains(WaitQs[u], t) /\ Contains(WaitQs[v], t) => u = v
    BY <1>1, ListsApart DEF Contains
  <2>4. flags[t] \in {{"IDLE"}, {"BUSY"}, {"PENDING"}, {}}
    BY <1>1 DEF Placed
  <2> HIDE DEF on
  <2>5. CASE "BUSY" \in flags[t]
    <3>1. "PENDING" \notin flags[t]
      BY <2>4, <2>5
    <3>2. on = {taskq}
      BY <2>1, <2>2, <2>5, <3>1
    <3> QED BY <2>5, <3>1, <3>2 DEF on
  <2>6. CASE "BUSY" \notin flags[t] /\ "PENDING" \in flags[t]
    <3>1. PICK v \in WaitQ : Contains(WaitQs[v], t)
      BY <2>2, <2>6
    <3>2. on = {v}
      BY <2>1, <2>3, <2>6, <3>1
    <3> QED BY <2>6, <3>2 DEF on
  <2>7. CASE "BUSY" \notin flags[t] /\ "PENDING" \notin flags[t]
    <3>1. on = {}
      BY <2>1, <2>2, <2>7
    <3> QED BY <2>7, <3>1 DEF on
  <2> QED BY <2>5, <2>6, <2>7
<1> QED BY <1>8, <1>9, <1>10, <1>12, <1>13 DEF ListsSound

\* The operators of the abstract module are those of this one.
LEMMA SeqsOperators ==
    ASSUME NEW s, NEW x
    PROVE  /\ Seqs!Unlink(s, x) = Unlink(s, x)
           /\ Seqs!Contains(s, x) <=> Contains(s, x)
           /\ Seqs!Cons(x, s) = Cons(x, s)
BY DEF Seqs!Unlink, Unlink, Seqs!Contains, Contains, Seqs!RemoveAt, RemoveAt, Seqs!Cons, Cons

\* A step of the pointers keeps the invariant, and is a step of the sequences.
LEMMA NextStep ==
    IndInv /\ [Next]_vars => IndInv' /\ [Seqs!Next]_(Seqs!vars)
<1> SUFFICES ASSUME IndInv, [Next]_vars PROVE IndInv' /\ [Seqs!Next]_(Seqs!vars)
  OBVIOUS
<1> DEFINE r == RunQ
           w == WaitQs
<1>1. State(mem, flags, tx_stop, running, r, w)
  BY DEF IndInv
<1>2. UNCHANGED Seqs!vars <=> r' = r /\ w' = w /\ tx_stop' = tx_stop
  BY DEF Seqs!vars, RunQ, WaitQs
<1>3. Front(Path(mem, taskq)) = r /\ [v \in WaitQ |-> Path(mem, v)] = w
      /\ Front(Path(mem, taskq))' = r' /\ [v \in WaitQ |-> Path(mem, v)]' = w'
  BY DEF RunQ, WaitQs
<1>4. \A t : Seqs!Off(t) = OffAll(w, t)
  BY <1>3, SeqsOperators DEF Seqs!Off, OffAll
<1> HIDE DEF r, w
<1>5. ASSUME NEW r2, NEW w2, State(mem', flags', tx_stop', running', r2, w2)
      PROVE  r' = r2 /\ w' = w2 /\ IndInv'
  BY <1>5, NextLists DEF r, w
<1>6. ASSUME NEW t \in Task, TaskActive(t)
      PROVE  IndInv' /\ (Seqs!Active(t) \/ UNCHANGED Seqs!vars)
  <2>1. CASE State(mem', flags', tx_stop', running', r, w) /\ UNCHANGED tx_stop
    BY <1>2, <1>5, <2>1
  <2>2. CASE /\ ~tx_stop /\ UNCHANGED tx_stop
             /\ State(mem', flags', tx_stop', running', Append(Unlink(r, t), t), OffAll(w, t))
    <3>1. r' = Append(Unlink(r, t), t) /\ w' = OffAll(w, t) /\ IndInv'
      BY <1>5, <2>2
    <3> QED BY <1>3, <1>4, <2>2, <3>1, SeqsOperators DEF Seqs!Active
  <2> QED BY <1>1, <1>6, <2>1, <2>2, ActiveStep
<1>7. ASSUME NEW t \in Task, TaskDrop(t) PROVE IndInv' /\ Seqs!Drop(t)
  <2>1. /\ UNCHANGED tx_stop
        /\ State(mem', flags', tx_stop', running', Unlink(r, t), OffAll(w, t))
    BY <1>1, <1>7, DropStep
  <2>2. r' = Unlink(r, t) /\ w' = OffAll(w, t) /\ IndInv'
    BY <1>5, <2>1
  <2> QED BY <1>3, <1>4, <2>1, <2>2, SeqsOperators DEF Seqs!Drop
<1>8. ASSUME NEW t \in Task, NEW v \in WaitQ, TaskRecord(v, t) PROVE IndInv' /\ Seqs!Record(v, t)
  <2>1. /\ UNCHANGED tx_stop
        /\ State(mem', flags', tx_stop', running', Unlink(r, t),
                 [OffAll(w, t) EXCEPT ![v] = Cons(t, OffAll(w, t)[v])])
    BY <1>1, <1>8, RecordStep
  <2>2. /\ r' = Unlink(r, t) /\ IndInv'
        /\ w' = [OffAll(w, t) EXCEPT ![v] = Cons(t, OffAll(w, t)[v])]
    BY <1>5, <2>1
  <2> QED BY <1>3, <1>4, <2>1, <2>2, SeqsOperators DEF Seqs!Record
<1>9. ASSUME NEW v \in WaitQ, TaskWakeup(v) PROVE IndInv' /\ Seqs!Wakeup(v)
  <2>1. /\ UNCHANGED tx_stop
        /\ State(mem', flags', tx_stop', running',
                 IF tx_stop THEN r ELSE r \o w[v], [w EXCEPT ![v] = << >>])
    BY <1>1, <1>9, WakeupStep
  <2>2. /\ r' = (IF tx_stop THEN r ELSE r \o w[v]) /\ IndInv'
        /\ w' = [w EXCEPT ![v] = << >>]
    <3> DEFINE r2 == IF tx_stop THEN r ELSE r \o w[v]
               w2 == [w EXCEPT ![v] = << >>]
    <3>1. State(mem', flags', tx_stop', running', r2, w2)
      BY <2>1
    <3> HIDE DEF r2, w2
    <3>2. r' = r2 /\ w' = w2 /\ IndInv'
      BY <1>5, <3>1
    <3> QED BY <3>2 DEF r2, w2
  <2> QED BY <1>3, <2>1, <2>2 DEF Seqs!Wakeup
<1>10. ASSUME LoopStop PROVE IndInv' /\ Seqs!Stop
  <2>1. tx_stop' = TRUE /\ State(mem', flags', tx_stop', running', r, w)
    BY <1>1, <1>10, StopStep
  <2>2. r' = r /\ w' = w /\ IndInv'
    BY <1>5, <2>1
  <2> QED BY <1>3, <2>1, <2>2 DEF Seqs!Stop
<1>11. ASSUME LoopEnter PROVE IndInv' /\ Seqs!Enter
  <2>1. /\ UNCHANGED tx_stop /\ ~Contains(r, phony)
        /\ State(mem', flags', tx_stop', running', Append(r, phony), w)
    BY <1>1, <1>11, EnterStep
  <2>2. r' = Append(r, phony) /\ w' = w /\ IndInv'
    BY <1>5, <2>1
  <2> QED BY <1>3, <2>1, <2>2, SeqsOperators DEF Seqs!Enter
<1>12. ASSUME LoopHead PROVE IndInv' /\ Seqs!Take
  <2>1. /\ UNCHANGED tx_stop /\ Contains(r, phony)
        /\ State(mem', flags', tx_stop', running',
                 IF Head(r) = phony THEN Append(Tail(r), phony) ELSE Tail(r), w)
    BY <1>1, <1>12, HeadStep
  <2>2. /\ r' = (IF Head(r) = phony THEN Append(Tail(r), phony) ELSE Tail(r))
        /\ w' = w /\ IndInv'
    <3> DEFINE r2 == IF Head(r) = phony THEN Append(Tail(r), phony) ELSE Tail(r)
    <3>1. State(mem', flags', tx_stop', running', r2, w)
      BY <2>1
    <3> HIDE DEF r2
    <3>2. r' = r2 /\ w' = w /\ IndInv'
      BY <1>5, <3>1
    <3> QED BY <3>2 DEF r2
  <2> QED BY <1>3, <2>1, <2>2, SeqsOperators DEF Seqs!Take
<1>13. ASSUME LoopLeave PROVE IndInv' /\ Seqs!Leave
  <2>1. /\ UNCHANGED tx_stop
        /\ State(mem', flags', tx_stop', running', Unlink(r, phony), w)
    BY <1>1, <1>13, LeaveStep
  <2>2. r' = Unlink(r, phony) /\ w' = w /\ IndInv'
    BY <1>5, <2>1
  <2> QED BY <1>3, <2>1, <2>2, SeqsOperators DEF Seqs!Leave
<1>14. CASE UNCHANGED vars
  <2>1. State(mem', flags', tx_stop', running', r, w) /\ UNCHANGED tx_stop
    BY <1>1, <1>14 DEF vars
  <2> QED BY <1>2, <1>5, <2>1
<1>15. CASE Next
  BY <1>6, <1>7, <1>8, <1>9, <1>10, <1>11, <1>12, <1>13, <1>15 DEF Next, Seqs!Next
<1> QED BY <1>14, <1>15

\* The lists in memory are sequences, and every task is where its flags say.
THEOREM ListInvariant == Spec => []IndInv
<1>1. Init => IndInv
  BY InitInv
<1>2. IndInv /\ [Next]_vars => IndInv'
  BY NextStep
<1> QED BY <1>1, <1>2, PTL DEF Spec

\* The pointers that the LIST macros write always form lists that end, without sharing an
\* element, and a task is on the list its flags name: LIST_REMOVE in tx_loop.cpp is applied
\* to linked elements only.
THEOREM ListSound == Spec => []ListsSound
<1> QED BY ListInvariant, IndInvSound, PTL

\* Every operation of tx_loop.cpp on the pointers is the operation of TxTaskLists on the
\* sequences that LIST_FOREACH_SAFE walks.
THEOREM ListRefinesSequences == Spec => SequencesRefined
<1>1. Init => Seqs!Init
  BY InitInv DEF Init, Seqs!Init, RunQ, WaitQs
<1> QED BY <1>1, NextStep, ListInvariant, PTL DEF Spec, SequencesRefined, Seqs!Spec
===============================================================================
