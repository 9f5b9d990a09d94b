---------------------------- MODULE TxTimerProofs -----------------------------
(***************************************************************************)
(* Proofs about TxTimer, for every size of the wheels, every width of the  *)
(* ticks and of size_t, and any stalls of the loop up to MaxStall.  The    *)
(* argument is in true time: how far each tick of the ring is behind the   *)
(* clock, and how far a timer is from its deadline, bounds by its place on *)
(* the wheels how far the deadline is ahead of that tick.                  *)
(***************************************************************************)
EXTENDS TxTimer, TLAPS

\* How far the ticks of the ring are behind the clock (Lag is the minor wheel's).
MaLag == (now - ma_tick) % TickMod
StLag == (now - st_tick) % TickMod

TimerTypes ==
    /\ SizeMod \in SizeMods
    /\ now \in 0..(TickMod - 1) /\ tx_ticks \in 0..(TickMod - 1) /\ st_tick \in 0..(TickMod - 1)
    /\ mi_tick \in 0..(SizeMod - 1) /\ ma_tick \in 0..(SizeMod - 1)
    /\ mi_wheel \in 0..(MAX_MI_WHEEL - 1) /\ ma_wheel \in 0..(MAX_MA_WHEEL - 1)
    /\ interval \in [Timer -> Int] /\ left \in [Timer -> Int]
    /\ place \in [Timer -> {"idle", "mi", "ma", "st"} \X Nat]
    /\ pc \in {"idle", "mi", "ma", "st", "end"}

\* The ticks: none is ahead of the cached one, the major tick is not ahead of the minor
\* one and a whole number of minor slots behind, the far list's is within one major slot
\* of it; and how far a poll has caught up.
LagInv ==
    /\ Stale <= Lag /\ Stale <= StLag
    /\ pc # "idle" => tx_ticks = now
    /\ \E n \in Nat : MaLag = Lag + n * MIN_TIME_OUT
    /\ (mi_tick - ma_tick) % SizeMod = MaLag - Lag
    /\ MaLag - StLag < MIN_MA_TIMER
    /\ Lag < MIN_TIME_OUT + MaxStall
    /\ MaLag < MIN_MA_TIMER + MaxStall
    /\ StLag < MIN_ST_TIMER + MaxStall
    /\ pc = "idle" => MaLag - Lag < MIN_MA_TIMER /\ StLag - Lag < MIN_ST_TIMER
    /\ pc \in {"ma", "st", "end"} => Lag < MIN_TIME_OUT
    /\ pc \in {"st", "end"} => MaLag < MIN_MA_TIMER
    /\ pc = "end" => StLag < MIN_ST_TIMER

\* A timer's deadline is in the span of the slot it is on, k slots ahead of the wheel (a
\* deadline before the next slot is on that one too); on the far list it is behind the
\* last scan, and behind the end of the major wheel unless size_t is wider than a tick.
OnMinor(p, l, wheel, lag) ==
    \E k \in 1..(MAX_MI_WHEEL - 1) :
        /\ p = <<"mi", (wheel + k) % MAX_MI_WHEEL>>
        /\ (k - 1) * MIN_TIME_OUT <= l + lag /\ l + lag < (k + 1) * MIN_TIME_OUT

OnMajor(p, l, wheel, lag) ==
    \E k \in 1..(MAX_MA_WHEEL - 1) :
        /\ p = <<"ma", (wheel + k) % MAX_MA_WHEEL>>
        /\ k * MIN_MA_TIMER <= l + lag /\ l + lag < (k + 1) * MIN_MA_TIMER

OnFar(p, l, lag, size) ==
    /\ p = Far
    /\ 0 <= l + lag
    /\ size = TickMod => MIN_ST_TIMER - MIN_MA_TIMER < l + lag

Placed(p, l) ==
    \/ OnMinor(p, l, mi_wheel, Lag)
    \/ OnMajor(p, l, ma_wheel, MaLag)
    \/ OnFar(p, l, StLag, SizeMod)

\* interval is the deadline, modulo the range of ticks.
Dated(iv, l) ==
    /\ (iv - now) % TickMod = l % TickMod
    /\ \E d \in Delay : l <= d

WellPlaced(t) == Armed(t) => Placed(place[t], left[t]) /\ Dated(interval[t], left[t])

IndInv ==
    /\ TimerTypes
    /\ LagInv
    /\ \A t \in Timer : WellPlaced(t)
-----------------------------------------------------------------------------
(* Remainders.                                                             *)

\* Quotient and remainder, and that they are unique.
LEMMA Division ==
    ASSUME NEW m \in Nat \ {0}, NEW x \in Int
    PROVE  \E k \in Int, r \in 0..(m - 1) : x = m * k + r /\ r = x % m /\ k = x \div m
OBVIOUS

LEMMA Remainder ==
    ASSUME NEW m \in Nat \ {0}, NEW x \in Int, NEW k \in Int, NEW r \in 0..(m - 1),
           x = m * k + r
    PROVE  x % m = r
OBVIOUS

\* Adding multiples of m changes nothing, ...
LEMMA AddMultiple ==
    ASSUME NEW m \in Nat \ {0}, NEW x \in Int, NEW k \in Int
    PROVE  (x + m * k) % m = x % m
<1>1. PICK j \in Int, r \in 0..(m - 1) : x = m * j + r /\ r = x % m
  BY Division
<1>2. x + m * k = m * (j + k) + r
  BY <1>1
<1>3. x + m * k \in Int /\ j + k \in Int
  OBVIOUS
<1> QED BY <1>1, <1>2, <1>3, Remainder

\* ... and nothing else does.
LEMMA SameRemainder ==
    ASSUME NEW m \in Nat \ {0}, NEW x \in Int, NEW y \in Int, x % m = y % m
    PROVE  \E k \in Int : x = y + m * k
<1>1. PICK i \in Int, r \in 0..(m - 1) : x = m * i + r /\ r = x % m
  BY Division
<1>2. PICK j \in Int, s \in 0..(m - 1) : y = m * j + s /\ s = y % m
  BY Division
<1>3. m * (i - j) = m * i - m * j
  OBVIOUS
<1>4. x = y + m * (i - j)
  BY <1>1, <1>2, <1>3
<1> QED BY <1>4

\* So remainders can be added to and subtracted from.
LEMMA SameSum ==
    ASSUME NEW m \in Nat \ {0}, NEW x \in Int, NEW y \in Int, NEW c \in Int, x % m = y % m
    PROVE  (x + c) % m = (y + c) % m
<1>1. PICK k \in Int : x = y + m * k
  BY SameRemainder
<1>2. x + c = (y + c) + m * k /\ y + c \in Int
  BY <1>1
<1> QED BY <1>2, AddMultiple, Zenon

LEMMA SameDifference ==
    ASSUME NEW m \in Nat \ {0}, NEW x \in Int, NEW y \in Int, NEW c \in Int, x % m = y % m
    PROVE  (c - x) % m = (c - y) % m
<1>1. PICK k \in Int : y = x + m * k
  BY SameRemainder
<1>2. c - x = (c - y) + m * k /\ c - y \in Int
  BY <1>1
<1> QED BY <1>2, AddMultiple, Zenon

LEMMA AddRemainder ==
    ASSUME NEW m \in Nat \ {0}, NEW x \in Int, NEW y \in Int, NEW z \in Int, x % m = z % m
    PROVE  (x + y) % m = (z + (y % m)) % m
<1>1. (x + y) % m = (z + y) % m
  BY SameSum
<1>2. PICK r \in 0..(m - 1), k \in Int : y = m * k + r /\ r = y % m
  BY Division
<1>3. z + y = (z + r) + m * k /\ z + r \in Int
  <2>1. PICK n \in Int : n = m * k
    OBVIOUS
  <2>2. y = n + r
    BY <1>2, <2>1, Zenon
  <2> QED BY <2>1, <2>2
<1>4. (z + y) % m = (z + r) % m
  BY <1>3, AddMultiple, Zenon
<1> QED BY <1>1, <1>2, <1>4, Zenon

LEMMA SmallRemainder == ASSUME NEW m \in Nat \ {0}, NEW r \in 0..(m - 1) PROVE r % m = r
OBVIOUS

\* A difference that stays in range needs no wrap.
LEMMA Shift ==
    ASSUME NEW m \in Nat \ {0}, NEW x \in Int, NEW d \in Int, 0 <= (x % m) + d, (x % m) + d < m
    PROVE  (x + d) % m = (x % m) + d
<1>1. PICK k \in Int, r \in 0..(m - 1) : x = m * k + r /\ r = x % m
  BY Division
<1>2. x + d = m * k + (r + d) /\ r + d \in 0..(m - 1)
  BY <1>1
<1>3. x + d \in Int
  OBVIOUS
<1>4. (x + d) % m = r + d
  BY <1>2, <1>3, Remainder, Zenon
<1> QED BY <1>1, <1>4

\* The range of size_t is a multiple of that of ticks.
LEMMA Narrow ==
    ASSUME NEW m \in Nat \ {0}, NEW n \in Nat \ {0}, n % m = 0, NEW x \in Int
    PROVE  (x % n) % m = x % m
<1>1. PICK z \in Int : n = m * z
  BY Division
<1>2. PICK k \in Int, v \in 0..(n - 1) : x = n * k + v /\ v = x % n
  BY Division
<1>3. PICK i \in Int : i = z * k
  OBVIOUS
<1>4. n * k = m * i
  BY <1>1, <1>3
<1>5. x = v + m * i
  BY <1>2, <1>4
<1>6. (v + m * i) % m = v % m
  <2>1. v \in Int
    OBVIOUS
  <2> QED BY <2>1, AddMultiple, Zenon
<1> QED BY <1>2, <1>5, <1>6

LEMMA NarrowDifference ==
    ASSUME NEW m \in Nat \ {0}, NEW n \in Nat \ {0}, NEW x \in Int, NEW c \in Int, n % m = 0
    PROVE  (c - (x % n)) % m = (c - x) % m
<1>1. (x % n) % m = x % m
  BY Narrow, Zenon
<1>2. x % n \in Int
  OBVIOUS
<1> QED BY <1>1, <1>2, SameDifference, Zenon

\* A size_t with a small remainder as a tick: that value, or more by whole ranges of ticks.
LEMMA Widen ==
    ASSUME NEW m \in Nat \ {0}, NEW n \in Nat \ {0}, n % m = 0, NEW x \in Int
    PROVE  \E j \in Nat : /\ x % n = (x % m) + m * j
                          /\ m * j + m <= n
                          /\ n = m => j = 0
                          /\ j # 0 => m * j >= m
<1>1. PICK z \in Int : n = m * z
  BY Division
<1>2. PICK v \in 0..(n - 1) : v = x % n
  BY Division
<1>3. v % m = x % m
  BY <1>2, Narrow
<1>4. PICK j \in Int, r \in 0..(m - 1) : v = m * j + r /\ r = v % m
  <2>1. v \in Int
    OBVIOUS
  <2> QED BY <2>1, Division, Zenon
<1>5. j >= 0
  <2> SUFFICES ASSUME j <= -1 PROVE FALSE
    BY <1>4
  <2>1. m * j <= -m
    BY <1>4
  <2> QED BY <1>2, <1>4, <2>1
<1>6. j <= z - 1
  <2> SUFFICES ASSUME j >= z PROVE FALSE
    BY <1>1, <1>4
  <2>1. m * j >= m * z
    BY <1>1, <1>4
  <2> QED BY <1>1, <1>2, <1>4, <2>1
<1>7. m * j + m <= n
  <2>1. m * j + m = m * (j + 1)
    BY <1>4
  <2>2. m * (j + 1) <= m * z
    BY <1>1, <1>4, <1>6
  <2> QED BY <1>1, <2>1, <2>2
<1>8. j # 0 => m * j >= m
  BY <1>5, <1>4
<1>9. n = m => j = 0
  BY <1>4, <1>7, <1>8
<1>10. j \in Nat /\ x % n = (x % m) + m * j
  <2>1. x % n = m * j + r /\ r = x % m
    BY <1>2, <1>3, <1>4, Zenon
  <2>2. PICK z1 \in Int : z1 = m * j
    OBVIOUS
  <2>3. m * j + r = r + m * j
    BY <2>2
  <2> QED BY <1>5, <2>1, <2>3
<1> QED BY <1>7, <1>8, <1>9, <1>10

\* Slots of a wheel of m: k and l slots ahead are the same slot only if k = l; and one slot
\* on, what was k slots ahead is k - 1 ahead.
LEMMA Slots ==
    ASSUME NEW m \in Nat \ {0, 1}, NEW w \in 0..(m - 1), NEW k \in 1..(m - 1)
    PROVE  /\ (w + 1) % m \in 0..(m - 1)
           /\ (w + k) % m # w
           /\ (w + k) % m = (w + 1) % m => k = 1
           /\ (w + k) % m = (((w + 1) % m) + (k - 1)) % m
           /\ (w + k) % m \in Nat
<1>1. w + 1 < m => (w + 1) % m = w + 1
  OBVIOUS
<1>2. w + 1 = m => (w + 1) % m = 0
  OBVIOUS
<1>3. w + k < m => (w + k) % m = w + k
  OBVIOUS
<1>4. w + k >= m => (w + k) % m = w + k - m
  <2> SUFFICES ASSUME w + k >= m PROVE (w + k) % m = w + k - m
    OBVIOUS
  <2>1. w + k = m * 1 + (w + k - m) /\ w + k - m \in 0..(m - 1) /\ w + k \in Int
    OBVIOUS
  <2> QED BY <2>1, Remainder
<1>5. (w + k) % m # w
  BY <1>3, <1>4
<1>6. (w + k) % m = (w + 1) % m => k = 1
  BY <1>1, <1>2, <1>3, <1>4
<1>7. (w + k) % m = (((w + 1) % m) + (k - 1)) % m
  <2>1. CASE w + 1 < m
    <3>1. ((w + 1) % m) + (k - 1) = w + k
      BY <1>1, <2>1
    <3> QED BY <3>1
  <2>2. CASE w + 1 = m
    <3>1. ((w + 1) % m) + (k - 1) = k - 1 /\ (k - 1) % m = k - 1
      BY <1>2, <2>2
    <3> QED BY <1>4, <2>2, <3>1
  <2> QED BY <2>1, <2>2
<1> QED BY <1>1, <1>2, <1>3, <1>4, <1>5, <1>6, <1>7

\* A clock that advances by d, and a tick that does.
LEMMA Later ==
    ASSUME NEW m \in Nat \ {0}, NEW n \in Int, NEW tk \in Int, NEW d \in Nat,
           ((n - tk) % m) + d < m
    PROVE  (((n + d) % m) - tk) % m = ((n - tk) % m) + d
<1>1. PICK a \in Int, b \in Int, c \in Int, e \in Int, r \in 0..(m - 1) :
        a = n + d /\ b = (n + d) % m /\ c = -tk /\ e = n - tk /\ r = (n - tk) % m
  OBVIOUS
<1>2. b % m = a % m
  <2>1. b \in 0..(m - 1) /\ b = a % m
    BY <1>1
  <2> QED BY <2>1, SmallRemainder, Zenon
<1>3. (b + c) % m = (a + c) % m
  BY <1>2, SameSum, Zenon
<1>4. a + c = e + d /\ b + c = b - tk
  BY <1>1
<1>5. r = e % m /\ 0 <= r + d /\ r + d < m
  <2>1. r + d < m /\ r = e % m
    BY <1>1, Zenon
  <2> QED BY <2>1
<1>6. (e + d) % m = r + d
  <2>1. d \in Int
    OBVIOUS
  <2> QED BY <1>5, <2>1, Shift, Zenon
<1>7. (b - tk) % m = r + d
  BY <1>3, <1>4, <1>6, Zenon
<1> QED BY <1>1, <1>7, Zenon

TurnBrings(m, size, n, tk, d) == (n - ((tk + d) % size)) % m = ((n - tk) % m) - d

LEMMA Turned ==
    ASSUME NEW m \in Nat \ {0}, NEW size \in Nat \ {0}, NEW n \in Int, NEW tk \in Int,
           NEW d \in Nat, size % m = 0, d <= (n - tk) % m
    PROVE  TurnBrings(m, size, n, tk, d)
<1>1. tk + d \in Int
  OBVIOUS
<1>2. (n - ((tk + d) % size)) % m = (n - (tk + d)) % m
  BY <1>1, NarrowDifference, Zenon
<1>3. PICK a \in Int, b \in Int, e \in Int, f \in Int, r \in 0..(m - 1) :
        a = tk + d /\ b = (tk + d) % size /\ e = n - tk /\ f = -d /\ r = (n - tk) % m
  OBVIOUS
<1>4. (n - b) % m = (n - a) % m
  BY <1>3, <1>2, Zenon
<1>5. n - a = e + f
  BY <1>3
<1>6. r = e % m /\ 0 <= r + f /\ r + f < m
  <2>1. d <= r /\ r = e % m
    BY <1>3, Zenon
  <2> QED BY <1>3, <2>1
<1>7. (e + f) % m = r + f
  BY <1>6, Shift, Zenon
<1>8. r + f = r - d
  BY <1>3
<1>9. (n - b) % m = r - d
  BY <1>4, <1>5, <1>7, <1>8, Zenon
<1> QED BY <1>3, <1>9, Zenon DEF TurnBrings
-----------------------------------------------------------------------------
(* The code's arithmetic, in true time.                                    *)

LEMMA Constants ==
    /\ MIN_TIME_OUT \in Nat \ {0} /\ MIN_MA_TIMER \in Nat \ {0} /\ MIN_ST_TIMER \in Nat \ {0}
    /\ MAX_MI_WHEEL \in Nat \ {0, 1} /\ MAX_MA_WHEEL \in Nat \ {0, 1}
    /\ 2 * MIN_TIME_OUT <= MIN_MA_TIMER /\ 2 * MIN_MA_TIMER <= MIN_ST_TIMER
    /\ TickMod \in Nat \ {0} /\ MaxStall \in Nat
    /\ 2 * (MaxStall + MIN_ST_TIMER + MIN_TIME_OUT) < TickMod
<1>1. /\ MIN_TIME_OUT \in Nat \ {0}
      /\ MAX_MI_WHEEL \in Nat \ {0, 1} /\ MAX_MA_WHEEL \in Nat \ {0, 1}
      /\ TickMod \in Nat \ {0} /\ MaxStall \in Nat
      /\ 2 * (MaxStall + MIN_ST_TIMER + MIN_TIME_OUT) < TickMod
  BY TimerAssumption
<1>2. /\ MIN_TIME_OUT * MAX_MI_WHEEL \in Nat \ {0}
      /\ 2 * MIN_TIME_OUT <= MIN_TIME_OUT * MAX_MI_WHEEL
  BY <1>1
<1>3. MIN_MA_TIMER \in Nat \ {0} /\ 2 * MIN_TIME_OUT <= MIN_MA_TIMER
  BY <1>2 DEF MIN_MA_TIMER
<1>4. /\ MIN_MA_TIMER * MAX_MA_WHEEL \in Nat \ {0}
      /\ 2 * MIN_MA_TIMER <= MIN_MA_TIMER * MAX_MA_WHEEL
  BY <1>1, <1>3
<1>5. MIN_ST_TIMER \in Nat \ {0} /\ 2 * MIN_MA_TIMER <= MIN_ST_TIMER
  BY <1>4 DEF MIN_ST_TIMER
<1> QED BY <1>1, <1>3, <1>5

\* The cast to int gives a small difference back with its sign.
LEMMA SignedIs ==
    ASSUME NEW x \in Int, NEW v \in Int, x % TickMod = v % TickMod,
           2 * v < TickMod, -TickMod <= 2 * v
    PROVE  Signed(x) = v
<1>1. PICK m \in Nat \ {0} : m = TickMod
  BY Constants
<1>2. CASE v >= 0
  <2>1. v \in 0..(m - 1) /\ 2 * v < m
    BY <1>1, <1>2
  <2>2. v % m = v
    BY <2>1
  <2> QED BY <1>1, <2>1, <2>2 DEF Signed
<1>3. CASE v < 0
  <2>1. v = m * (-1) + (v + m) /\ v + m \in 0..(m - 1) /\ ~(2 * (v + m) < m)
    BY <1>1, <1>3
  <2>2. v % m = v + m
    BY <2>1, Remainder
  <2>3. v + m - m = v
    OBVIOUS
  <2> QED BY <1>1, <2>1, <2>2, <2>3 DEF Signed
<1> QED BY <1>2, <1>3

\* A test of the polling loops says whether a tick is span behind the clock.
LEMMA ElapsedIs ==
    ASSUME NEW since \in Int, NEW span \in Nat, tx_ticks \in Int, 2 * span < TickMod,
           2 * ((tx_ticks - since) % TickMod) < TickMod
    PROVE  Elapsed(since, span) <=> (tx_ticks - since) % TickMod >= span
<1>1. PICK e \in Int, f \in Int : e = tx_ticks - since /\ f = -span
  OBVIOUS
<1>2. TickMod \in Nat \ {0}
  BY Constants
<1>3. PICK r \in 0..(TickMod - 1) : r = e % TickMod
  BY <1>2
<1>4. 2 * r < TickMod
  BY <1>1, <1>3, Zenon
<1>5. e % TickMod = r % TickMod
  BY <1>2, <1>3
<1>6. r \in Int
  BY <1>2
<1>7. (e + f) % TickMod = (r + f) % TickMod
  BY <1>2, <1>5, <1>6, SameSum, Zenon
<1>8. e + f \in Int /\ r + f \in Int /\ 2 * (r + f) < TickMod /\ -TickMod <= 2 * (r + f)
  BY <1>1, <1>2, <1>4, <1>6
<1>9. Signed(e + f) = r + f
  BY <1>7, <1>8, SignedIs, Zenon
<1>10. tx_ticks - since - span = e + f
  BY <1>1
<1>11. Elapsed(since, span) <=> r + f >= 0
  BY <1>9, <1>10, Zenon DEF Elapsed
<1>12. r + f >= 0 <=> r >= span
  BY <1>1
<1> QED BY <1>1, <1>3, <1>11, <1>12, Zenon

LEMMA DueIs ==
    ASSUME NEW t, NEW l \in Int, interval[t] \in Int, tx_ticks \in Int,
           (interval[t] - tx_ticks) % TickMod = l % TickMod,
           2 * (l - MIN_TIME_OUT) < TickMod, -TickMod <= 2 * (l - MIN_TIME_OUT)
    PROVE  Due(t) <=> l < MIN_TIME_OUT
<1>1. TickMod \in Nat \ {0} /\ MIN_TIME_OUT \in Nat
  BY Constants
<1>2. PICK e \in Int, f \in Int : e = interval[t] - tx_ticks /\ f = -MIN_TIME_OUT
  BY <1>1
<1>3. e % TickMod = l % TickMod
  BY <1>2, Zenon
<1>4. (e + f) % TickMod = (l + f) % TickMod
  BY <1>1, <1>3, SameSum, Zenon
<1>5. e + f \in Int /\ l + f \in Int /\ 2 * (l + f) < TickMod /\ -TickMod <= 2 * (l + f)
  BY <1>1, <1>2
<1>6. Signed(e + f) = l + f
  BY <1>4, <1>5, SignedIs, Zenon
<1>7. interval[t] - tx_ticks - MIN_TIME_OUT = e + f
  BY <1>1, <1>2
<1>8. Due(t) <=> l + f < 0
  BY <1>6, <1>7, Zenon DEF Due
<1>9. l + f < 0 <=> l < MIN_TIME_OUT
  BY <1>1, <1>2
<1> QED BY <1>8, <1>9, Zenon

\* The differences of tx_timer_reset, x to the minor tick and x + g to the major one, are
\* those of the ticks plus the same number j of ranges of ticks.
Wraps(m, size, x, g, j) ==
    /\ x % size = (x % m) + m * j
    /\ (x + g) % size = (x % m) + (g % size) + m * j
    /\ size = m => j = 0
    /\ j # 0 => m * j >= m

LEMMA Quotients ==
    ASSUME NEW m \in Nat \ {0}, NEW size \in Nat \ {0}, NEW x \in Int, NEW g \in Int,
           size % m = 0, (x % m) + (g % size) < m
    PROVE  \E j \in Nat : Wraps(m, size, x, g, j)
<1>1. PICK j \in Nat : /\ x % size = (x % m) + m * j
                       /\ m * j + m <= size
                       /\ size = m => j = 0
                       /\ j # 0 => m * j >= m
  BY Widen
<1>2. PICK h, r : h \in Int /\ r \in 0..(size - 1) /\ x = size * h + r /\ r = x % size
  BY Division
<1>3. PICK k, D : k \in Int /\ D \in 0..(size - 1) /\ g = size * k + D /\ D = g % size
  BY Division
<1>4. PICK v : v \in 0..(m - 1) /\ v = x % m
  OBVIOUS
<1>5. PICK mj : mj \in Nat /\ mj = m * j
  OBVIOUS
<1>6. r = v + mj /\ mj + m <= size /\ v + D < m
  BY <1>1, <1>2, <1>3, <1>4, <1>5, Zenon
<1>7. (x + g) % size = r + D
  <2>1. PICK n, a, b : /\ n \in Int /\ a \in Int /\ b \in Int
                       /\ a = size * h /\ b = size * k /\ n = h + k
    BY <1>2, <1>3
  <2>2. size * n = a + b
    BY <1>2, <1>3, <2>1
  <2>3. x = a + r /\ g = b + D
    BY <1>2, <1>3, <2>1, Zenon
  <2>4. x + g = size * n + (r + D) /\ r + D \in 0..(size - 1) /\ x + g \in Int
    BY <1>2, <1>3, <1>4, <1>5, <1>6, <2>1, <2>2, <2>3
  <2> QED BY <2>1, <2>4, Remainder, Zenon
<1>8. r + D = v + D + mj
  BY <1>3, <1>4, <1>5, <1>6
<1> QED BY <1>1, <1>2, <1>3, <1>4, <1>5, <1>6, <1>7, <1>8, Zenon DEF Wraps

\* The list tx_timer_reset chooses for a deadline v ahead of the minor tick and w ahead of
\* the major one.
LEMMA SlotIs ==
    ASSUME NEW iv, NEW mt, NEW mw, NEW at, NEW aw, NEW v \in Nat, NEW w \in Nat, NEW j \in Nat,
           v <= w,
           (iv - mt) % SizeMod = v + TickMod * j, (iv - at) % SizeMod = w + TickMod * j,
           SizeMod = TickMod => j = 0, j # 0 => TickMod * j >= TickMod
    PROVE  \/ \E k \in 1..(MAX_MI_WHEEL - 1) :
                 /\ Slot(iv, mt, mw, at, aw) = <<"mi", (mw + k) % MAX_MI_WHEEL>>
                 /\ (k - 1) * MIN_TIME_OUT <= v /\ v < (k + 1) * MIN_TIME_OUT
           \/ \E k \in 1..(MAX_MA_WHEEL - 1) :
                 /\ Slot(iv, mt, mw, at, aw) = <<"ma", (aw + k) % MAX_MA_WHEEL>>
                 /\ k * MIN_MA_TIMER <= w /\ w < (k + 1) * MIN_MA_TIMER
           \/ /\ Slot(iv, mt, mw, at, aw) = Far
              /\ SizeMod = TickMod => MIN_ST_TIMER <= w
<1> DEFINE slot == Slot(iv, mt, mw, at, aw)
<1>1. PICK q \in Nat \ {0}, A \in Nat \ {0}, S \in Nat \ {0}, M \in Nat \ {0, 1},
           K \in Nat \ {0, 1}, T \in Nat \ {0} :
        /\ q = MIN_TIME_OUT /\ A = MIN_MA_TIMER /\ S = MIN_ST_TIMER
        /\ M = MAX_MI_WHEEL /\ K = MAX_MA_WHEEL /\ T = TickMod
        /\ S < T /\ A <= S
  BY Constants
<1>2. A = q * M /\ S = A * K
  BY <1>1, Zenon DEF MIN_MA_TIMER, MIN_ST_TIMER
<1>3. PICK Tj \in Nat : Tj = T * j
  OBVIOUS
<1>4. Tj # 0 => Tj >= T /\ SizeMod # TickMod
  <2>1. j = 0 => Tj = 0
    BY <1>3
  <2>2. j # 0 => Tj >= T
    BY <1>1, <1>3, Zenon
  <2> QED BY <1>1, <2>1, <2>2, Zenon
<1>5. PICK raw \in Int, r \in 0..(q - 1) : v + Tj = q * raw + r /\ raw = (v + Tj) \div q
  <2>1. v + Tj \in Int
    OBVIOUS
  <2> QED BY <2>1, Division, Zenon
<1>6. PICK ma \in Int, s \in 0..(A - 1) : w + Tj = A * ma + s /\ ma = (w + Tj) \div A
  <2>1. w + Tj \in Int
    OBVIOUS
  <2> QED BY <2>1, Division, Zenon
<1>7. raw \in Nat /\ ma \in Nat
  BY <1>5, <1>6
<1>8. raw < M <=> v + Tj < A
  BY <1>2, <1>5, <1>7
<1>9. ma < K <=> w + Tj < S
  BY <1>2, <1>6, <1>7
<1>10. /\ raw = ((iv - mt) % SizeMod) \div MIN_TIME_OUT
       /\ ma = ((iv - at) % SizeMod) \div MIN_MA_TIMER
  BY <1>1, <1>3, <1>5, <1>6, Zenon
<1>11. CASE raw = 0
  <2>1. slot = <<"mi", (mw + 1) % MAX_MI_WHEEL>>
    <3>1. 1 < MAX_MI_WHEEL /\ ((iv - mt) % SizeMod) \div MIN_TIME_OUT = 0
      BY <1>1, <1>10, <1>11
    <3>2. slot = CASE 1 < MAX_MI_WHEEL -> <<"mi", (mw + 1) % MAX_MI_WHEEL>>
                   [] 1 >= MAX_MI_WHEEL /\ ma < MAX_MA_WHEEL ->
                        <<"ma", (aw + ma) % MAX_MA_WHEEL>>
                   [] OTHER -> Far
      BY <1>10, <3>1 DEF Slot
    <3> QED BY <1>1, <3>1, <3>2
  <2>2. v < q /\ 1 \in 1..(M - 1)
    BY <1>1, <1>4, <1>5, <1>8, <1>11
  <2>3. (1 - 1) * MIN_TIME_OUT <= v /\ v < (1 + 1) * MIN_TIME_OUT
    BY <1>1, <2>2
  <2> QED BY <1>1, <2>1, <2>2, <2>3
<1>12. CASE raw # 0 /\ raw < M
  <2>1. slot = <<"mi", (mw + raw) % MAX_MI_WHEEL>>
    BY <1>1, <1>10, <1>12 DEF Slot
  <2>2. Tj = 0 /\ raw \in 1..(M - 1)
    BY <1>1, <1>4, <1>7, <1>8, <1>12
  <2>3. (raw - 1) * q <= v /\ v < (raw + 1) * q
    BY <1>5, <1>7, <2>2
  <2> QED BY <1>1, <2>1, <2>2, <2>3
<1>13. CASE raw >= M /\ ma < K
  <2>1. slot = <<"ma", (aw + ma) % MAX_MA_WHEEL>>
    BY <1>1, <1>10, <1>13 DEF Slot
  <2>2. Tj = 0 /\ w >= A
    BY <1>1, <1>4, <1>8, <1>9, <1>13
  <2>3. ma * A <= w /\ w < (ma + 1) * A /\ ma \in 1..(K - 1)
    BY <1>6, <1>7, <1>13, <2>2
  <2> QED BY <1>1, <2>1, <2>3
<1>14. CASE raw >= M /\ ma >= K
  <2>1. slot = Far
    BY <1>1, <1>10, <1>14 DEF Slot
  <2>2. SizeMod = TickMod => S <= w
    BY <1>4, <1>7, <1>9, <1>14
  <2> QED BY <1>1, <2>1, <2>2
<1> QED BY <1>1, <1>7, <1>11, <1>12, <1>13, <1>14

\* A deadline iv that is l ahead of a clock, which is lag and maLag ahead of the ring's ticks.
Timed(iv, mt, at, clk, l, lag, maLag) ==
    /\ iv \in Int /\ mt \in Int /\ at \in Int /\ clk \in Int /\ l \in Int
    /\ lag \in Nat /\ maLag \in Nat
    /\ SizeMod \in Nat \ {0} /\ SizeMod % TickMod = 0
    /\ (iv - clk) % TickMod = l % TickMod
    /\ (clk - mt) % TickMod = lag /\ (mt - at) % SizeMod = maLag - lag
    /\ lag <= maLag /\ 0 <= l + lag /\ l + maLag < TickMod

\* So the list tx_timer_reset chooses for it is the right one.
LEMMA SlotPlaces ==
    ASSUME NEW iv, NEW mt, NEW at, NEW clk, NEW l, NEW lag, NEW maLag, NEW mw, NEW aw
    PROVE  Timed(iv, mt, at, clk, l, lag, maLag)
           => \/ OnMinor(Slot(iv, mt, mw, at, aw), l, mw, lag)
              \/ OnMajor(Slot(iv, mt, mw, at, aw), l, aw, maLag)
              \/ /\ Slot(iv, mt, mw, at, aw) = Far
                 /\ SizeMod = TickMod => MIN_ST_TIMER <= l + maLag
<1>1. SUFFICES ASSUME iv \in Int, mt \in Int, at \in Int, clk \in Int, l \in Int,
                      lag \in Nat, maLag \in Nat,
                      SizeMod \in Nat \ {0}, SizeMod % TickMod = 0,
                      (iv - clk) % TickMod = l % TickMod,
                      (clk - mt) % TickMod = lag, (mt - at) % SizeMod = maLag - lag,
                      lag <= maLag, 0 <= l + lag, l + maLag < TickMod
               PROVE  \/ OnMinor(Slot(iv, mt, mw, at, aw), l, mw, lag)
                      \/ OnMajor(Slot(iv, mt, mw, at, aw), l, aw, maLag)
                      \/ /\ Slot(iv, mt, mw, at, aw) = Far
                         /\ SizeMod = TickMod => MIN_ST_TIMER <= l + maLag
  BY DEF Timed
<1>2. PICK m : m \in Nat \ {0} /\ m = TickMod
  BY Constants
<1>3. PICK v, D, w : /\ v \in Nat /\ D \in Nat /\ w \in Nat
                     /\ v = l + lag /\ D = maLag - lag /\ w = v + D
                     /\ w = l + maLag /\ v <= w /\ v + D < m
  BY <1>1, <1>2
<1>4. PICK x, g : x \in Int /\ g \in Int /\ x = iv - mt /\ g = mt - at /\ x + g = iv - at
  BY <1>1
<1>5. x % m = v
  <2>1. PICK e, f : e \in Int /\ f \in Int /\ e = iv - clk /\ f = clk - mt /\ x = e + f
    BY <1>1, <1>4
  <2>2. e % m = l % m /\ f % m = lag
    BY <1>1, <1>2, <2>1, Zenon
  <2>3. l \in Int
    BY <1>1
  <2>4. (e + f) % m = (l + (f % m)) % m
    <3>1. m \in Nat \ {0} /\ e \in Int /\ l \in Int /\ f \in Int /\ e % m = l % m
      BY <1>2, <2>1, <2>2, <2>3, Zenon
    <3> QED BY <3>1, AddRemainder, ZenonT(60)
  <2>5. v % m = v
    BY <1>2, <1>3
  <2> QED BY <1>3, <2>1, <2>2, <2>4, <2>5, Zenon
<1>6. g % SizeMod = D
  BY <1>1, <1>3, <1>4, Zenon
<1>7. PICK j : /\ j \in Nat
               /\ x % SizeMod = v + m * j
               /\ (x + g) % SizeMod = v + D + m * j
               /\ SizeMod = m => j = 0
               /\ j # 0 => m * j >= m
  <2>1. SizeMod \in Nat \ {0} /\ SizeMod % m = 0 /\ (x % m) + (g % SizeMod) < m
    BY <1>1, <1>2, <1>3, <1>5, <1>6, Zenon
  <2>2. m \in Nat \ {0} /\ x \in Int /\ g \in Int
    BY <1>2, <1>4
  <2>3. \E j \in Nat : Wraps(m, SizeMod, x, g, j)
    BY <2>1, <2>2, Quotients, Zenon
  <2> QED BY <1>5, <1>6, <2>3, Zenon DEF Wraps
<1>8. /\ (iv - mt) % SizeMod = v + TickMod * j
      /\ (iv - at) % SizeMod = w + TickMod * j
      /\ SizeMod = TickMod => j = 0
      /\ j # 0 => TickMod * j >= TickMod
  BY <1>2, <1>3, <1>4, <1>7, Zenon
<1>9. \/ \E k \in 1..(MAX_MI_WHEEL - 1) :
            /\ Slot(iv, mt, mw, at, aw) = <<"mi", (mw + k) % MAX_MI_WHEEL>>
            /\ (k - 1) * MIN_TIME_OUT <= v /\ v < (k + 1) * MIN_TIME_OUT
      \/ \E k \in 1..(MAX_MA_WHEEL - 1) :
            /\ Slot(iv, mt, mw, at, aw) = <<"ma", (aw + k) % MAX_MA_WHEEL>>
            /\ k * MIN_MA_TIMER <= w /\ w < (k + 1) * MIN_MA_TIMER
      \/ /\ Slot(iv, mt, mw, at, aw) = Far
         /\ SizeMod = TickMod => MIN_ST_TIMER <= w
  <2>1. v \in Nat /\ w \in Nat /\ v <= w /\ j \in Nat
    BY <1>3, <1>7
  <2> QED BY <1>8, <2>1, SlotIs, Zenon
<1> QED BY <1>3, <1>9, Zenon DEF OnMinor, OnMajor
-----------------------------------------------------------------------------
(* Places.                                                                 *)

\* Each place excludes the others, and bounds how late the timer is.
LEMMA PlaceMinor ==
    ASSUME NEW p, NEW l \in Int, NEW w \in 0..(MAX_MI_WHEEL - 1), NEW lag \in Int,
           OnMinor(p, l, w, lag)
    PROVE  /\ p \in {"mi"} \X Nat /\ p # Idle /\ p # Far /\ p # <<"mi", w>>
           /\ \A n : p # <<"ma", n>>
           /\ 0 <= l + lag
<1>1. PICK k \in 1..(MAX_MI_WHEEL - 1) :
        /\ p = <<"mi", (w + k) % MAX_MI_WHEEL>>
        /\ (k - 1) * MIN_TIME_OUT <= l + lag
  BY DEF OnMinor
<1>2. PICK n \in Nat : p = <<"mi", n>> /\ n # w
  BY <1>1, Constants, Slots
<1>3. (k - 1) * MIN_TIME_OUT >= 0
  BY Constants
<1>4. (k - 1) * MIN_TIME_OUT \in Int /\ l + lag \in Int
  BY Constants
<1> QED BY <1>1, <1>2, <1>3, <1>4 DEF Idle, Far

LEMMA PlaceMajor ==
    ASSUME NEW p, NEW l \in Int, NEW w \in 0..(MAX_MA_WHEEL - 1), NEW lag \in Int,
           OnMajor(p, l, w, lag)
    PROVE  /\ p \in {"ma"} \X Nat /\ p # Idle /\ p # Far
           /\ \A n : p # <<"mi", n>>
           /\ MIN_MA_TIMER <= l + lag
<1>1. PICK k \in 1..(MAX_MA_WHEEL - 1) :
        /\ p = <<"ma", (w + k) % MAX_MA_WHEEL>>
        /\ k * MIN_MA_TIMER <= l + lag
  BY DEF OnMajor
<1>2. PICK n \in Nat : p = <<"ma", n>>
  BY <1>1, Constants, Slots
<1>3. k * MIN_MA_TIMER >= MIN_MA_TIMER
  BY Constants
<1>4. k * MIN_MA_TIMER \in Int /\ l + lag \in Int /\ MIN_MA_TIMER \in Int
  BY Constants
<1> QED BY <1>1, <1>2, <1>3, <1>4 DEF Idle, Far

LEMMA PlaceFar ==
    ASSUME NEW p, NEW l, NEW lag, NEW size, OnFar(p, l, lag, size)
    PROVE  p = Far /\ p # Idle /\ (\A n : p # <<"mi", n>>) /\ (\A n : p # <<"ma", n>>)
BY DEF OnFar, Far, Idle

\* Time moves no timer.
LEMMA PlaceLater ==
    ASSUME NEW p, NEW l \in Int, NEW d \in Int, NEW w, NEW lag \in Int, NEW size
    PROVE  /\ OnMinor(p, l, w, lag) => OnMinor(p, l - d, w, lag + d)
           /\ OnMajor(p, l, w, lag) => OnMajor(p, l - d, w, lag + d)
           /\ OnFar(p, l, lag, size) => OnFar(p, l - d, lag + d, size)
<1>1. (l - d) + (lag + d) = l + lag
  OBVIOUS
<1> QED BY <1>1, Zenon DEF OnMinor, OnMajor, OnFar

\* A turn of a wheel reaches the slot next to it; its timers have their deadline at most
\* two slots ahead of the tick before the turn.
LEMMA TurnMinor ==
    ASSUME NEW p, NEW l \in Int, NEW w \in 0..(MAX_MI_WHEEL - 1), NEW lag \in Int,
           OnMinor(p, l, w, lag)
    PROVE  IF p = <<"mi", (w + 1) % MAX_MI_WHEEL>>
           THEN l + lag < 2 * MIN_TIME_OUT
           ELSE OnMinor(p, l, (w + 1) % MAX_MI_WHEEL, lag - MIN_TIME_OUT)
<1>1. PICK k \in 1..(MAX_MI_WHEEL - 1) :
        /\ p = <<"mi", (w + k) % MAX_MI_WHEEL>>
        /\ (k - 1) * MIN_TIME_OUT <= l + lag /\ l + lag < (k + 1) * MIN_TIME_OUT
  BY DEF OnMinor
<1>2. /\ (w + k) % MAX_MI_WHEEL = (w + 1) % MAX_MI_WHEEL => k = 1
      /\ (w + k) % MAX_MI_WHEEL = (((w + 1) % MAX_MI_WHEEL) + (k - 1)) % MAX_MI_WHEEL
  BY Constants, Slots
<1>3. CASE k = 1
  <2>1. p = <<"mi", (w + 1) % MAX_MI_WHEEL>>
    BY <1>1, <1>3
  <2>2. l + lag < 2 * MIN_TIME_OUT
    BY <1>1, <1>3
  <2> QED BY <2>1, <2>2
<1>4. CASE k # 1
  <2>1. p # <<"mi", (w + 1) % MAX_MI_WHEEL>>
    BY <1>1, <1>2, <1>4
  <2>2. PICK j \in 1..(MAX_MI_WHEEL - 1) : j = k - 1
    BY <1>4, Constants
  <2>3. p = <<"mi", (((w + 1) % MAX_MI_WHEEL) + j) % MAX_MI_WHEEL>>
    BY <1>1, <1>2, <2>2
  <2>4. /\ (j - 1) * MIN_TIME_OUT = (k - 1) * MIN_TIME_OUT - MIN_TIME_OUT
        /\ (j + 1) * MIN_TIME_OUT = (k + 1) * MIN_TIME_OUT - MIN_TIME_OUT
    BY <2>2, Constants
  <2>5. PICK a \in Int, b \in Int, q \in Int :
          a = (k - 1) * MIN_TIME_OUT /\ b = (k + 1) * MIN_TIME_OUT /\ q = MIN_TIME_OUT
    BY Constants
  <2>6. /\ (j - 1) * MIN_TIME_OUT <= l + (lag - MIN_TIME_OUT)
        /\ l + (lag - MIN_TIME_OUT) < (j + 1) * MIN_TIME_OUT
    <3>1. a <= l + lag /\ l + lag < b
      BY <1>1, <2>5, Zenon
    <3>2. a - q <= l + (lag - q) /\ l + (lag - q) < b - q
      BY <3>1
    <3> QED BY <2>4, <2>5, <3>2, Zenon
  <2>7. OnMinor(p, l, (w + 1) % MAX_MI_WHEEL, lag - MIN_TIME_OUT)
    BY <2>3, <2>6, Zenon DEF OnMinor
  <2> QED BY <2>1, <2>7, Zenon
<1> QED BY <1>3, <1>4

LEMMA TurnMajor ==
    ASSUME NEW p, NEW l \in Int, NEW w \in 0..(MAX_MA_WHEEL - 1), NEW lag \in Int,
           OnMajor(p, l, w, lag)
    PROVE  IF p = <<"ma", (w + 1) % MAX_MA_WHEEL>>
           THEN l + lag < 2 * MIN_MA_TIMER
           ELSE OnMajor(p, l, (w + 1) % MAX_MA_WHEEL, lag - MIN_MA_TIMER)
<1>1. PICK k \in 1..(MAX_MA_WHEEL - 1) :
        /\ p = <<"ma", (w + k) % MAX_MA_WHEEL>>
        /\ k * MIN_MA_TIMER <= l + lag /\ l + lag < (k + 1) * MIN_MA_TIMER
  BY DEF OnMajor
<1>2. /\ (w + k) % MAX_MA_WHEEL = (w + 1) % MAX_MA_WHEEL => k = 1
      /\ (w + k) % MAX_MA_WHEEL = (((w + 1) % MAX_MA_WHEEL) + (k - 1)) % MAX_MA_WHEEL
  BY Constants, Slots
<1>3. CASE k = 1
  <2>1. p = <<"ma", (w + 1) % MAX_MA_WHEEL>>
    BY <1>1, <1>3
  <2>2. l + lag < 2 * MIN_MA_TIMER
    BY <1>1, <1>3
  <2> QED BY <2>1, <2>2
<1>4. CASE k # 1
  <2>1. p # <<"ma", (w + 1) % MAX_MA_WHEEL>>
    BY <1>1, <1>2, <1>4
  <2>2. PICK j \in 1..(MAX_MA_WHEEL - 1) : j = k - 1
    BY <1>4, Constants
  <2>3. p = <<"ma", (((w + 1) % MAX_MA_WHEEL) + j) % MAX_MA_WHEEL>>
    BY <1>1, <1>2, <2>2
  <2>4. /\ j * MIN_MA_TIMER = k * MIN_MA_TIMER - MIN_MA_TIMER
        /\ (j + 1) * MIN_MA_TIMER = (k + 1) * MIN_MA_TIMER - MIN_MA_TIMER
    BY <2>2, Constants
  <2>5. PICK a \in Int, b \in Int, q \in Int :
          a = k * MIN_MA_TIMER /\ b = (k + 1) * MIN_MA_TIMER /\ q = MIN_MA_TIMER
    BY Constants
  <2>6. /\ j * MIN_MA_TIMER <= l + (lag - MIN_MA_TIMER)
        /\ l + (lag - MIN_MA_TIMER) < (j + 1) * MIN_MA_TIMER
    <3>1. a <= l + lag /\ l + lag < b
      BY <1>1, <2>5, Zenon
    <3>2. a - q <= l + (lag - q) /\ l + (lag - q) < b - q
      BY <3>1
    <3> QED BY <2>4, <2>5, <3>2, Zenon
  <2>7. OnMajor(p, l, (w + 1) % MAX_MA_WHEEL, lag - MIN_MA_TIMER)
    BY <2>3, <2>6, Zenon DEF OnMajor
  <2> QED BY <2>1, <2>7, Zenon
<1> QED BY <1>3, <1>4
-----------------------------------------------------------------------------
(* Steps of the clock and of the ticks.                                    *)

LEMMA Types ==
    ASSUME TimerTypes
    PROVE  /\ Stale \in 0..(TickMod - 1) /\ Lag \in 0..(TickMod - 1)
           /\ MaLag \in 0..(TickMod - 1) /\ StLag \in 0..(TickMod - 1)
           /\ SizeMod \in Nat \ {0} /\ SizeMod % TickMod = 0 /\ TickMod <= SizeMod
           /\ now \in Int /\ tx_ticks \in Int /\ st_tick \in Int
           /\ mi_tick \in Int /\ ma_tick \in Int
<1>1. PICK m : m \in Nat \ {0} /\ m = TickMod
  BY Constants
<1>2. /\ SizeMod \in Nat \ {0} /\ SizeMod % m = 0
      /\ now \in Int /\ tx_ticks \in Int /\ st_tick \in Int
      /\ mi_tick \in Int /\ ma_tick \in Int
  BY <1>1, TimerAssumption DEF TimerTypes
<1>3. \A x \in Int : x % m \in 0..(m - 1)
  BY <1>1
<1>4. m <= SizeMod
  <2>1. PICK k \in Int, r \in 0..(m - 1) : SizeMod = m * k + r /\ r = SizeMod % m
    BY <1>1, <1>2, Division
  <2>2. SizeMod = m * k
    BY <1>1, <1>2, <2>1
  <2>3. k >= 1
    BY <1>1, <1>2, <2>2
  <2> QED BY <1>1, <2>2, <2>3
<1>5. /\ now - tx_ticks \in Int /\ now - mi_tick \in Int
      /\ now - ma_tick \in Int /\ now - st_tick \in Int
  BY <1>2
<1>6. /\ Stale \in 0..(m - 1) /\ Lag \in 0..(m - 1)
      /\ MaLag \in 0..(m - 1) /\ StLag \in 0..(m - 1)
  BY <1>1, <1>3, <1>5, Zenon DEF Stale, Lag, MaLag, StLag
<1> QED BY <1>1, <1>2, <1>4, <1>6

\* Time passes only between polls; the ticks and every deadline keep their distance.
LEMMA TimePasses ==
    ASSUME TimerTypes, LagInv, pc \in {"idle", "end"}, NEW d \in Nat, Lag + d <= MaxStall,
           now' = (now + d) % TickMod, UNCHANGED ringVars
    PROVE  /\ now' \in 0..(TickMod - 1)
           /\ Lag' = Lag + d /\ MaLag' = MaLag + d /\ StLag' = StLag + d
           /\ MaLag + d < MIN_MA_TIMER + MaxStall /\ StLag + d < MIN_ST_TIMER + MaxStall
           /\ tx_ticks' = tx_ticks => Stale' = Stale + d
<1>1. PICK m : m \in Nat \ {0} /\ m = TickMod
  BY Constants
<1>2. /\ Stale \in 0..(m - 1) /\ Lag \in 0..(m - 1)
      /\ MaLag \in 0..(m - 1) /\ StLag \in 0..(m - 1)
      /\ now \in Int /\ tx_ticks \in Int /\ st_tick \in Int
      /\ mi_tick \in Int /\ ma_tick \in Int
  BY <1>1, Types
<1>3. PICK q, A, S : /\ q \in Nat \ {0} /\ A \in Nat \ {0} /\ S \in Nat \ {0}
                     /\ q = MIN_TIME_OUT /\ A = MIN_MA_TIMER /\ S = MIN_ST_TIMER
                     /\ 2 * q <= A /\ 2 * A <= S /\ MaxStall \in Nat
                     /\ 2 * (MaxStall + S + q) < m
  BY <1>1, Constants
<1>4. /\ MaLag + d < A + MaxStall /\ StLag + d < S + MaxStall
      /\ Stale + d <= MaxStall
  <2>1. CASE pc = "idle"
    <3>1. MaLag - Lag < A /\ StLag - Lag < S /\ Stale <= Lag
      BY <1>3, <2>1 DEF LagInv
    <3> QED BY <1>2, <1>3, <3>1
  <2>2. CASE pc = "end"
    <3>1. MaLag < A /\ StLag < S /\ Stale <= Lag
      BY <1>3, <2>2 DEF LagInv
    <3> QED BY <1>2, <1>3, <3>1
  <2> QED BY <2>1, <2>2
<1>5. Lag + d < m /\ MaLag + d < m /\ StLag + d < m /\ Stale + d < m
  <2>1. A <= S /\ MaxStall + S < m
    BY <1>1, <1>3
  <2> QED BY <1>1, <1>2, <1>3, <1>4, <2>1
<1>6. \A tk \in Int : ((now - tk) % m) + d < m => (now' - tk) % m = ((now - tk) % m) + d
  <2> SUFFICES ASSUME NEW tk \in Int, ((now - tk) % m) + d < m
               PROVE  (now' - tk) % m = ((now - tk) % m) + d
    OBVIOUS
  <2>1. now' = (now + d) % m
    BY <1>1
  <2>2. now \in Int /\ m \in Nat \ {0}
    BY <1>1, <1>2
  <2>3. (((now + d) % m) - tk) % m = ((now - tk) % m) + d
    BY <2>2, Later, Zenon
  <2> QED BY <2>1, <2>3, Zenon
<1>7. mi_tick' = mi_tick /\ ma_tick' = ma_tick /\ st_tick' = st_tick
  BY DEF ringVars
<1>8. Lag' = Lag + d
  BY <1>1, <1>2, <1>5, <1>6, <1>7, Zenon DEF Lag
<1>9. MaLag' = MaLag + d
  BY <1>1, <1>2, <1>5, <1>6, <1>7, Zenon DEF MaLag
<1>10. StLag' = StLag + d
  BY <1>1, <1>2, <1>5, <1>6, <1>7, Zenon DEF StLag
<1>11. tx_ticks' = tx_ticks => Stale' = Stale + d
  BY <1>1, <1>2, <1>5, <1>6, Zenon DEF Stale
<1>12. now' \in 0..(m - 1)
  <2>1. now + d \in Int
    BY <1>2
  <2> QED BY <1>1, <2>1
<1> QED BY <1>1, <1>3, <1>4, <1>8, <1>9, <1>10, <1>11, <1>12

LEMMA DatedLater ==
    ASSUME NEW iv \in Int, NEW l \in Int, NEW d \in Nat, TimerTypes,
           now' = (now + d) % TickMod, Dated(iv, l)
    PROVE  Dated(iv, l - d)'
<1>1. PICK m : m \in Nat \ {0} /\ m = TickMod
  BY Constants
<1>2. now \in Int
  BY Types
<1>3. (iv - ((now + d) % m)) % m = (iv - (now + d)) % m
  <2>1. PICK n : n \in Int /\ n = now + d
    BY <1>2
  <2>2. m % m = 0 /\ m \in Nat \ {0}
    BY <1>1
  <2>3. (iv - (n % m)) % m = (iv - n) % m
    BY <2>1, <2>2, NarrowDifference
  <2> QED BY <2>1, <2>3, Zenon
<1>4. PICK e, f : e \in Int /\ f \in Int /\ e = iv - now /\ f = -d
  BY <1>2
<1>5. e % m = l % m
  BY <1>1, <1>4, Zenon DEF Dated
<1>6. (e + f) % m = (l + f) % m
  <2>1. m \in Nat \ {0} /\ e \in Int /\ f \in Int
    BY <1>1, <1>4
  <2> QED BY <1>5, <2>1, SameSum
<1>7. iv - (now + d) = e + f /\ l - d = l + f
  BY <1>2, <1>4
<1>8. (iv - now') % TickMod = (l - d) % TickMod
  BY <1>1, <1>3, <1>6, <1>7, Zenon
<1>9. PICK s \in Delay : l <= s
  BY DEF Dated
<1>10. s \in Nat
  BY TimerAssumption
<1>11. l - d <= s
  BY <1>9, <1>10
<1> QED BY <1>8, <1>11 DEF Dated

LEMMA TurnTicks ==
    ASSUME TimerTypes, LagInv, MIN_TIME_OUT <= Lag,
           mi_tick' = (mi_tick + MIN_TIME_OUT) % SizeMod,
           UNCHANGED <<SizeMod, now, tx_ticks, ma_tick, st_tick>>
    PROVE  /\ mi_tick' \in 0..(SizeMod - 1)
           /\ Lag' = Lag - MIN_TIME_OUT
           /\ MaLag' = MaLag /\ StLag' = StLag /\ Stale' = Stale
           /\ (mi_tick' - ma_tick) % SizeMod = MaLag - Lag + MIN_TIME_OUT
<1>1. PICK q, m, z, a, b :
        /\ q \in Nat \ {0} /\ m \in Nat \ {0} /\ z \in Nat \ {0} /\ a \in Int /\ b \in Int
        /\ q = MIN_TIME_OUT /\ m = TickMod /\ z = SizeMod /\ a = mi_tick /\ b = ma_tick
        /\ z % m = 0 /\ m <= z
  BY Constants, Types
<1>2. now \in Int /\ Lag \in 0..(m - 1) /\ MaLag \in 0..(m - 1)
  BY <1>1, Types
<1>3. (now - ((a + q) % z)) % m = ((now - a) % m) - q
  <2>1. q <= (now - a) % m
    BY <1>1, Zenon DEF Lag
  <2>2. q \in Nat /\ m \in Nat \ {0} /\ z \in Nat \ {0} /\ a \in Int /\ now \in Int /\ z % m = 0
    BY <1>1, <1>2
  <2>3. TurnBrings(m, z, now, a, q)
    BY <2>1, <2>2, Turned, Zenon
  <2> QED BY <2>3 DEF TurnBrings
<1>4. Lag' = Lag - MIN_TIME_OUT
  BY <1>1, <1>3, Zenon DEF Lag
<1>5. (((a + q) % z) - b) % z = ((a - b) % z) + q
  <2>1. PICK D : D \in Int /\ D = MaLag - Lag
    BY <1>2
  <2>2. (a - b) % z = D
    BY <1>1, <2>1, Zenon DEF LagInv
  <2>3. D + q < z
    BY <1>1, <1>2, <2>1
  <2>4. ((a - b) % z) + q < z
    BY <2>2, <2>3, Zenon
  <2>5. q \in Nat /\ z \in Nat \ {0} /\ a \in Int /\ b \in Int
    BY <1>1
  <2> QED BY <2>4, <2>5, Later, Zenon
<1>6. (mi_tick' - ma_tick) % SizeMod = MaLag - Lag + MIN_TIME_OUT
  <2>1. (a - b) % z = MaLag - Lag
    BY <1>1, Zenon DEF LagInv
  <2> QED BY <1>1, <1>5, <2>1, Zenon
<1>7. mi_tick' \in 0..(SizeMod - 1)
  <2>1. (a + q) % z \in 0..(z - 1)
    BY <1>1
  <2> QED BY <1>1, <2>1, Zenon
<1>8. MaLag' = MaLag /\ StLag' = StLag /\ Stale' = Stale
  BY DEF MaLag, StLag, Stale
<1> QED BY <1>4, <1>6, <1>7, <1>8

LEMMA TurnMaTicks ==
    ASSUME TimerTypes, LagInv, MIN_MA_TIMER <= MaLag - Lag,
           ma_tick' = (ma_tick + MIN_MA_TIMER) % SizeMod,
           UNCHANGED <<SizeMod, now, tx_ticks, mi_tick, st_tick>>
    PROVE  /\ ma_tick' \in 0..(SizeMod - 1)
           /\ MaLag' = MaLag - MIN_MA_TIMER
           /\ Lag' = Lag /\ StLag' = StLag /\ Stale' = Stale
           /\ (mi_tick - ma_tick') % SizeMod = MaLag - Lag - MIN_MA_TIMER
<1>1. PICK q, m, z, a, b :
        /\ q \in Nat \ {0} /\ m \in Nat \ {0} /\ z \in Nat \ {0} /\ a \in Int /\ b \in Int
        /\ q = MIN_MA_TIMER /\ m = TickMod /\ z = SizeMod /\ a = mi_tick /\ b = ma_tick
        /\ z % m = 0 /\ m <= z
  BY Constants, Types
<1>2. now \in Int /\ Lag \in 0..(m - 1) /\ MaLag \in 0..(m - 1)
  BY <1>1, Types
<1>3. (now - ((b + q) % z)) % m = ((now - b) % m) - q
  <2>1. q <= MaLag
    BY <1>1, <1>2
  <2>2. q <= (now - b) % m
    BY <1>1, <2>1, Zenon DEF MaLag
  <2>3. q \in Nat /\ m \in Nat \ {0} /\ z \in Nat \ {0} /\ b \in Int /\ now \in Int /\ z % m = 0
    BY <1>1, <1>2
  <2>4. TurnBrings(m, z, now, b, q)
    BY <2>2, <2>3, Turned, Zenon
  <2> QED BY <2>4 DEF TurnBrings
<1>4. MaLag' = MaLag - MIN_MA_TIMER
  BY <1>1, <1>3, Zenon DEF MaLag
<1>5. (a - ((b + q) % z)) % z = ((a - b) % z) - q
  <2>1. q <= (a - b) % z
    BY <1>1, Zenon DEF LagInv
  <2>2. q \in Nat /\ z \in Nat \ {0} /\ a \in Int /\ b \in Int /\ z % z = 0
    BY <1>1
  <2>3. TurnBrings(z, z, a, b, q)
    BY <2>1, <2>2, Turned, Zenon
  <2> QED BY <2>3 DEF TurnBrings
<1>6. (mi_tick - ma_tick') % SizeMod = MaLag - Lag - MIN_MA_TIMER
  <2>1. (a - b) % z = MaLag - Lag
    BY <1>1, Zenon DEF LagInv
  <2> QED BY <1>1, <1>5, <2>1, Zenon
<1>7. ma_tick' \in 0..(SizeMod - 1)
  <2>1. (b + q) % z \in 0..(z - 1)
    BY <1>1
  <2> QED BY <1>1, <2>1, Zenon
<1>8. Lag' = Lag /\ StLag' = StLag /\ Stale' = Stale
  BY DEF Lag, StLag, Stale
<1> QED BY <1>4, <1>6, <1>7, <1>8

\* The loop conditions of a poll, in true time.
LEMMA Tests ==
    ASSUME TimerTypes, LagInv, pc # "idle"
    PROVE  /\ Elapsed(mi_tick, MIN_TIME_OUT) <=> Lag >= MIN_TIME_OUT
           /\ Elapsed(ma_tick, MIN_MA_TIMER) <=> MaLag >= MIN_MA_TIMER
           /\ Elapsed(st_tick, MIN_ST_TIMER) <=> StLag >= MIN_ST_TIMER
<1>1. tx_ticks = now /\ tx_ticks \in Int /\ mi_tick \in Int /\ ma_tick \in Int /\ st_tick \in Int
  BY Types DEF LagInv
<1>2. /\ Lag = (tx_ticks - mi_tick) % TickMod /\ MaLag = (tx_ticks - ma_tick) % TickMod
      /\ StLag = (tx_ticks - st_tick) % TickMod
  BY <1>1, Zenon DEF Lag, MaLag, StLag
<1>3. /\ MIN_TIME_OUT \in Nat /\ 2 * MIN_TIME_OUT < TickMod
      /\ MIN_MA_TIMER \in Nat /\ 2 * MIN_MA_TIMER < TickMod
      /\ MIN_ST_TIMER \in Nat /\ 2 * MIN_ST_TIMER < TickMod
  BY Constants
<1>4. 2 * Lag < TickMod /\ 2 * MaLag < TickMod /\ 2 * StLag < TickMod
  <2>1. /\ Lag < MIN_TIME_OUT + MaxStall /\ MaLag < MIN_MA_TIMER + MaxStall
        /\ StLag < MIN_ST_TIMER + MaxStall
    BY DEF LagInv
  <2>2. Lag \in Int /\ MaLag \in Int /\ StLag \in Int
    BY Types
  <2> QED BY <2>1, <2>2, Constants
<1> QED BY <1>1, <1>2, <1>3, <1>4, ElapsedIs, Zenon

\* How late or early a timer on a list can be, in an unfinished poll or between polls; and
\* whether a poll that visits it fires it.
LEMMA Deadlines ==
    ASSUME IndInv, NEW t \in Timer, Armed(t)
    PROVE  /\ left[t] \in Int /\ interval[t] \in Int
           /\ 0 < left[t] + MIN_ST_TIMER + MaxStall
           /\ 2 * (left[t] + MaxStall + MIN_ST_TIMER + MIN_TIME_OUT) < TickMod
           /\ pc # "idle" => (Due(t) <=> left[t] < MIN_TIME_OUT)
<1> DEFINE l == left[t]
<1>1. l \in Int /\ interval[t] \in Int /\ Placed(place[t], l) /\ Dated(interval[t], l)
  BY DEF IndInv, TimerTypes, WellPlaced
<1>2. PICK q, A, S, m :
        /\ q \in Nat \ {0} /\ A \in Nat \ {0} /\ S \in Nat \ {0} /\ m \in Nat \ {0}
        /\ q = MIN_TIME_OUT /\ A = MIN_MA_TIMER /\ S = MIN_ST_TIMER /\ m = TickMod
        /\ 2 * q <= A /\ 2 * A <= S /\ MaxStall \in Nat
  BY Constants
<1>3. /\ Lag \in Int /\ MaLag \in Int /\ StLag \in Int
      /\ Lag < q + MaxStall /\ MaLag < A + MaxStall /\ StLag < S + MaxStall
  BY <1>2, Types DEF IndInv, LagInv
<1>4. 0 <= l + Lag \/ A <= l + MaLag \/ 0 <= l + StLag
  <2>1. mi_wheel \in 0..(MAX_MI_WHEEL - 1) /\ ma_wheel \in 0..(MAX_MA_WHEEL - 1)
    BY DEF IndInv, TimerTypes
  <2>2. CASE OnMinor(place[t], l, mi_wheel, Lag)
    BY <1>1, <1>3, <2>1, <2>2, PlaceMinor
  <2>3. CASE OnMajor(place[t], l, ma_wheel, MaLag)
    BY <1>1, <1>2, <1>3, <2>1, <2>3, PlaceMajor
  <2>4. CASE OnFar(place[t], l, StLag, SizeMod)
    BY <2>4 DEF OnFar
  <2> QED BY <1>1, <2>2, <2>3, <2>4 DEF Placed
<1>5. 0 < l + S + MaxStall
  BY <1>1, <1>2, <1>3, <1>4
<1>6. 2 * (l + MaxStall + S + q) < m
  <2>1. PICK d \in Delay : l <= d
    BY <1>1 DEF Dated
  <2>2. d \in Nat /\ 2 * (d + MaxStall + S + q) < m
    BY <1>2, TimerAssumption
  <2> QED BY <1>1, <1>2, <2>1, <2>2
<1>7. ASSUME pc # "idle" PROVE Due(t) <=> l < MIN_TIME_OUT
  <2>1. tx_ticks = now /\ tx_ticks \in Int
    BY <1>7, Types DEF IndInv, LagInv
  <2>2. (interval[t] - tx_ticks) % TickMod = l % TickMod
    BY <1>1, <2>1, Zenon DEF Dated
  <2>3. 2 * (l - q) < m /\ -m <= 2 * (l - q)
    BY <1>1, <1>2, <1>5, <1>6, Constants
  <2> QED BY <1>1, <1>2, <2>1, <2>2, <2>3, DueIs
<1> QED BY <1>1, <1>2, <1>5, <1>6, <1>7
-----------------------------------------------------------------------------
(* The inductive invariant.                                                *)

LEMMA InitInv == Init => IndInv
<1> SUFFICES ASSUME Init PROVE IndInv
  OBVIOUS
<1>1. PICK m : m \in Nat \ {0} /\ m = TickMod
  BY Constants
<1>2. now \in 0..(m - 1) /\ SizeMod \in SizeMods /\ SizeMod \in Nat \ {0} /\ SizeMod % m = 0
  BY <1>1, TimerAssumption DEF Init
<1>3. now - now = 0 /\ 0 % m = 0 /\ 0 % SizeMod = 0 /\ m <= SizeMod
  <2>1. PICK k \in Int, r \in 0..(m - 1) : SizeMod = m * k + r /\ r = SizeMod % m
    BY <1>1, <1>2, Division
  <2>2. SizeMod = m * k
    BY <1>1, <1>2, <2>1
  <2>3. k >= 1
    BY <1>1, <1>2, <2>2
  <2> QED BY <1>1, <1>2, <2>2, <2>3
<1>4. Stale = 0 /\ Lag = 0 /\ MaLag = 0 /\ StLag = 0
  BY <1>1, <1>3 DEF Init, Stale, Lag, MaLag, StLag
<1>5. TimerTypes
  BY <1>1, <1>2, <1>3, Constants DEF Init, TimerTypes, Idle
<1>6. LagInv
  <2>1. (mi_tick - ma_tick) % SizeMod = 0
    BY <1>3 DEF Init
  <2>2. 0 = 0 + 0 * MIN_TIME_OUT
    BY Constants
  <2> QED BY <1>4, <2>1, <2>2, Constants DEF Init, LagInv
<1>7. \A t \in Timer : WellPlaced(t)
  BY DEF Init, WellPlaced, Armed
<1> QED BY <1>5, <1>6, <1>7 DEF IndInv

\* A step that only moves the cached tick up to the clock, or the poll along.
LEMMA RingStays ==
    ASSUME IndInv, UNCHANGED <<now, interval, place, ringVars, left>>
    PROVE  /\ Lag' = Lag /\ MaLag' = MaLag /\ StLag' = StLag
           /\ \A t \in Timer : WellPlaced(t)'
<1>1. /\ now' = now /\ interval' = interval /\ place' = place /\ left' = left
      /\ SizeMod' = SizeMod /\ mi_tick' = mi_tick /\ mi_wheel' = mi_wheel
      /\ ma_tick' = ma_tick /\ ma_wheel' = ma_wheel /\ st_tick' = st_tick
  BY DEF ringVars
<1>2. Lag' = Lag /\ MaLag' = MaLag /\ StLag' = StLag
  BY <1>1 DEF Lag, MaLag, StLag
<1>3. ASSUME NEW t \in Timer PROVE WellPlaced(t)'
  <2>1. WellPlaced(t)
    BY DEF IndInv
  <2>2. Placed(place[t], left[t])' <=> Placed(place[t], left[t])
    BY <1>1, <1>2 DEF Placed
  <2>3. Dated(interval[t], left[t])' <=> Dated(interval[t], left[t])
    BY <1>1 DEF Dated
  <2>4. Armed(t)' <=> Armed(t)
    BY <1>1 DEF Armed
  <2> QED BY <2>1, <2>2, <2>3, <2>4, Zenon DEF WellPlaced
<1> QED BY <1>2, <1>3

LEMMA ReadInv == IndInv /\ (tx_getticks \/ PollBegin) => IndInv'
<1> SUFFICES ASSUME IndInv, tx_getticks \/ PollBegin PROVE IndInv'
  OBVIOUS
<1>1. /\ pc = "idle" /\ pc' \in {"idle", "mi"} /\ tx_ticks' = now
      /\ UNCHANGED <<now, interval, place, ringVars, left>>
  BY DEF tx_getticks, PollBegin
<1>2. /\ Lag' = Lag /\ MaLag' = MaLag /\ StLag' = StLag
      /\ \A t \in Timer : WellPlaced(t)'
  BY <1>1, RingStays
<1>3. TimerTypes'
  BY <1>1 DEF IndInv, TimerTypes, ringVars
<1>4. Stale' = 0 /\ 0 <= Lag /\ 0 <= StLag
  <2>1. PICK m : m \in Nat \ {0} /\ m = TickMod
    BY Constants
  <2>2. now - now = 0 /\ 0 % m = 0
    BY <2>1, Types DEF IndInv
  <2>3. Stale' = 0
    BY <1>1, <2>1, <2>2 DEF Stale
  <2> QED BY <2>1, <2>3, Types DEF IndInv
<1>5. LagInv'
  <2>1. LagInv /\ (mi_tick' - ma_tick') % SizeMod' = (mi_tick - ma_tick) % SizeMod
    BY <1>1 DEF IndInv, ringVars
  <2> QED BY <1>1, <1>2, <1>4, <2>1 DEF LagInv
<1> QED BY <1>2, <1>3, <1>5 DEF IndInv

LEMMA DoneInv == IndInv /\ (MiDone \/ MaDone \/ PollEnd) => IndInv'
<1> SUFFICES ASSUME IndInv, MiDone \/ MaDone \/ PollEnd PROVE IndInv'
  OBVIOUS
<1>1. /\ tx_ticks' = tx_ticks /\ UNCHANGED <<now, interval, place, ringVars, left>>
      /\ pc \in {"mi", "ma", "end"}
  BY DEF MiDone, MaDone, PollEnd
<1>2. /\ Lag' = Lag /\ MaLag' = MaLag /\ StLag' = StLag
      /\ \A t \in Timer : WellPlaced(t)'
  BY <1>1, RingStays
<1>3. TimerTypes'
  BY <1>1 DEF IndInv, TimerTypes, ringVars, MiDone, MaDone, PollEnd
<1>4. Stale' = Stale
  BY <1>1 DEF Stale
<1>5. LagInv'
  <2>1. LagInv /\ (mi_tick' - ma_tick') % SizeMod' = (mi_tick - ma_tick) % SizeMod
    BY <1>1 DEF IndInv, ringVars
  <2>2. Lag \in Nat /\ MaLag \in Nat /\ StLag \in Nat
    BY Types, Constants DEF IndInv
  <2>3. CASE MiDone
    <3>1. pc' = "ma" /\ Lag < MIN_TIME_OUT
      BY <2>2, <2>3, Tests, Constants DEF MiDone, IndInv
    <3> QED BY <1>1, <1>2, <1>4, <2>1, <3>1 DEF LagInv
  <2>4. CASE MaDone
    <3>1. pc' = "st" /\ pc = "ma" /\ MaLag < MIN_MA_TIMER
      BY <2>2, <2>4, Tests, Constants DEF MaDone, IndInv
    <3> QED BY <1>1, <1>2, <1>4, <2>1, <3>1 DEF LagInv
  <2>5. CASE PollEnd
    <3>1. pc' = "idle" /\ pc = "end"
      BY <2>5 DEF PollEnd
    <3>2. MaLag - Lag < MIN_MA_TIMER /\ StLag - Lag < MIN_ST_TIMER
      BY <2>1, <2>2, <3>1, Constants DEF LagInv
    <3> QED BY <1>1, <1>2, <1>4, <2>1, <3>1, <3>2 DEF LagInv
  <2> QED BY <2>3, <2>4, <2>5
<1> QED BY <1>2, <1>3, <1>5 DEF IndInv

\* Time passes, between polls or in the sleep at the end of one.
LEMMA TimeInv == ASSUME NEW d \in Step PROVE IndInv /\ (Advance(d) \/ PollSleep(d)) => IndInv'
<1> SUFFICES ASSUME IndInv, Advance(d) \/ PollSleep(d) PROVE IndInv'
  OBVIOUS
<1>1. /\ pc \in {"idle", "end"} /\ pc' = "idle" /\ Lag + d <= MaxStall
      /\ now' = (now + d) % TickMod /\ place' = place /\ interval' = interval
      /\ UNCHANGED ringVars /\ (tx_ticks' = tx_ticks \/ tx_ticks' = now')
      /\ left' = [t \in Timer |-> IF Armed(t) THEN left[t] - d ELSE 0]
  BY DEF Advance, PollSleep
<1>2. /\ SizeMod' = SizeMod /\ mi_tick' = mi_tick /\ mi_wheel' = mi_wheel
      /\ ma_tick' = ma_tick /\ ma_wheel' = ma_wheel /\ st_tick' = st_tick
  BY <1>1 DEF ringVars
<1>3. d \in Nat /\ TimerTypes /\ LagInv
  BY TimerAssumption DEF IndInv
<1>4. /\ now' \in 0..(TickMod - 1)
      /\ Lag' = Lag + d /\ MaLag' = MaLag + d /\ StLag' = StLag + d
      /\ MaLag + d < MIN_MA_TIMER + MaxStall /\ StLag + d < MIN_ST_TIMER + MaxStall
      /\ tx_ticks' = tx_ticks => Stale' = Stale + d
  BY <1>1, <1>3, TimePasses
<1>5. Stale \in Nat /\ Lag \in Nat /\ MaLag \in Nat /\ StLag \in Nat
  BY <1>3, Types, Constants
<1>6. TimerTypes'
  <2>1. \A t \in Timer : left[t] - d \in Int
    BY <1>3 DEF TimerTypes
  <2>2. left' \in [Timer -> Int]
    BY <1>1, <2>1
  <2> QED BY <1>1, <1>2, <1>3, <1>4, <2>2 DEF TimerTypes
<1>7. LagInv'
  <2>1. Stale' <= Lag' /\ Stale' <= StLag'
    <3>1. Stale <= Lag /\ Stale <= StLag
      BY <1>3 DEF LagInv
    <3>2. CASE tx_ticks' = tx_ticks
      BY <1>4, <1>5, <1>3, <3>1, <3>2
    <3>3. CASE tx_ticks' = now'
      <4>1. PICK m : m \in Nat \ {0} /\ m = TickMod
        BY Constants
      <4>2. now' \in Int
        BY <1>4, <4>1
      <4>3. now' - now' = 0
        <5>1. \A x \in Int : x - x = 0
          OBVIOUS
        <5> QED BY <4>2, <5>1, Zenon
      <4>4. 0 % m = 0
        BY <4>1
      <4>5. Stale' = 0
        BY <3>3, <4>1, <4>3, <4>4 DEF Stale
      <4> QED BY <1>3, <1>4, <1>5, <4>5
    <3> QED BY <1>1, <3>2, <3>3
  <2>2. \E n \in Nat : MaLag' = Lag' + n * MIN_TIME_OUT
    <3>1. PICK n \in Nat : MaLag = Lag + n * MIN_TIME_OUT
      BY <1>3 DEF LagInv
    <3>2. PICK a \in Int : a = n * MIN_TIME_OUT
      BY Constants
    <3>3. MaLag + d = (Lag + d) + a
      BY <1>3, <1>5, <3>1, <3>2
    <3> QED BY <1>4, <3>2, <3>3, Zenon
  <2>3. (mi_tick' - ma_tick') % SizeMod' = MaLag' - Lag'
    <3>1. MaLag' - Lag' = MaLag - Lag
      BY <1>3, <1>4, <1>5
    <3> QED BY <1>2, <1>3, <3>1, Zenon DEF LagInv
  <2>4. MaLag' - StLag' < MIN_MA_TIMER
    <3>1. MaLag - StLag < MIN_MA_TIMER
      BY <1>3 DEF LagInv
    <3> QED BY <1>3, <1>4, <1>5, <3>1
  <2>5. MaLag' - Lag' < MIN_MA_TIMER /\ StLag' - Lag' < MIN_ST_TIMER
    <3>1. MaLag - Lag < MIN_MA_TIMER /\ StLag - Lag < MIN_ST_TIMER
      <4>1. CASE pc = "idle"
        BY <1>3, <4>1 DEF LagInv
      <4>2. CASE pc = "end"
        <5>1. MaLag < MIN_MA_TIMER /\ StLag < MIN_ST_TIMER
          BY <1>3, <4>2 DEF LagInv
        <5> QED BY <1>5, <5>1, Constants
      <4> QED BY <1>1, <4>1, <4>2
    <3> QED BY <1>3, <1>4, <1>5, <3>1
  <2>6. Lag' < MIN_TIME_OUT + MaxStall
    BY <1>1, <1>3, <1>4, <1>5, Constants
  <2> QED BY <1>1, <1>4, <2>1, <2>2, <2>3, <2>4, <2>5, <2>6 DEF LagInv
<1>8. ASSUME NEW t \in Timer PROVE WellPlaced(t)'
  <2>1. SUFFICES ASSUME Armed(t) PROVE Placed(place[t], left[t])' /\ Dated(interval[t], left[t])'
    BY <1>1 DEF WellPlaced, Armed
  <2>2. PICK l : l \in Int /\ l = left[t] /\ left'[t] = l - d
    BY <1>1, <1>3, <2>1 DEF TimerTypes
  <2>3. Placed(place[t], l) /\ Dated(interval[t], l) /\ interval[t] \in Int
    BY <1>3, <2>1, <2>2 DEF IndInv, WellPlaced, TimerTypes
  <2>4. Placed(place[t], left[t])'
    <3>1. /\ OnMinor(place[t], l, mi_wheel, Lag) => OnMinor(place[t], l - d, mi_wheel, Lag + d)
          /\ OnMajor(place[t], l, ma_wheel, MaLag) => OnMajor(place[t], l - d, ma_wheel, MaLag + d)
          /\ OnFar(place[t], l, StLag, SizeMod) => OnFar(place[t], l - d, StLag + d, SizeMod)
      <4>1. d \in Int /\ Lag \in Int /\ MaLag \in Int /\ StLag \in Int /\ l \in Int
        BY <1>3, <1>5, <2>2
      <4> QED BY <4>1, PlaceLater, Zenon
    <3> QED BY <1>1, <1>2, <1>4, <2>2, <2>3, <3>1, Zenon DEF Placed
  <2>5. Dated(interval[t], l - d)'
    BY <1>1, <1>3, <2>2, <2>3, DatedLater
  <2> QED BY <1>1, <2>2, <2>4, <2>5, Zenon DEF Dated
<1> QED BY <1>6, <1>7, <1>8 DEF IndInv

\* tx_timer_reset, tx_timer_stop: one timer moves, the ring stays.
LEMMA StopInv == ASSUME NEW t \in Timer PROVE IndInv /\ Stop(t) => IndInv'
<1> SUFFICES ASSUME IndInv, Stop(t) PROVE IndInv'
  OBVIOUS
<1>1. /\ UNCHANGED <<SizeMod, mi_tick, mi_wheel, ma_tick, ma_wheel, st_tick, now, tx_ticks, pc>>
      /\ place' = [place EXCEPT ![t] = Idle]
      /\ left' = Forget(left, place') /\ interval' = Forget(interval, place')
  BY DEF Stop, ringVars
<1>2. TimerTypes /\ LagInv
  BY DEF IndInv
<1>3. Stale' = Stale /\ Lag' = Lag /\ MaLag' = MaLag /\ StLag' = StLag
  BY <1>1 DEF Stale, Lag, MaLag, StLag
<1>4. TimerTypes'
  <2>1. place' \in [Timer -> {"idle", "mi", "ma", "st"} \X Nat]
    BY <1>1, <1>2 DEF TimerTypes, Idle
  <2>2. left' \in [Timer -> Int] /\ interval' \in [Timer -> Int]
    BY <1>1, <1>2 DEF TimerTypes, Forget
  <2> QED BY <1>1, <1>2, <2>1, <2>2 DEF TimerTypes
<1>5. LagInv'
  BY <1>1, <1>2, <1>3 DEF LagInv
<1>6. ASSUME NEW u \in Timer PROVE WellPlaced(u)'
  <2>1. SUFFICES ASSUME Armed(u)' PROVE Placed(place[u], left[u])' /\ Dated(interval[u], left[u])'
    BY DEF WellPlaced
  <2>2. place'[u] = place[u] /\ place[u] # Idle
    BY <1>1, <1>2, <2>1 DEF TimerTypes, Armed
  <2>3. left'[u] = left[u] /\ interval'[u] = interval[u]
    BY <1>1, <2>1 DEF Forget, Armed
  <2>4. Placed(place[u], left[u]) /\ Dated(interval[u], left[u])
    BY <2>2 DEF IndInv, WellPlaced, Armed
  <2> QED BY <1>1, <1>3, <2>2, <2>3, <2>4, Zenon DEF Placed, Dated
<1> QED BY <1>4, <1>5, <1>6 DEF IndInv

\* A timer that tx_timer_reset puts on a list is well placed there.
LEMMA SlotFits ==
    ASSUME NEW iv, NEW mt, NEW at, NEW clk, NEW l, NEW lag, NEW maLag, NEW stLag \in Nat,
           NEW mw \in 0..(MAX_MI_WHEEL - 1), NEW aw \in 0..(MAX_MA_WHEEL - 1),
           Timed(iv, mt, at, clk, l, lag, maLag),
           0 <= l + stLag, maLag - stLag < MIN_MA_TIMER
    PROVE  /\ \/ OnMinor(Slot(iv, mt, mw, at, aw), l, mw, lag)
              \/ OnMajor(Slot(iv, mt, mw, at, aw), l, aw, maLag)
              \/ OnFar(Slot(iv, mt, mw, at, aw), l, stLag, SizeMod)
           /\ Slot(iv, mt, mw, at, aw) \in {"mi", "ma", "st"} \X Nat
<1>1. l \in Int /\ lag \in Int /\ maLag \in Int
  BY DEF Timed
<1>2. PICK p : p = Slot(iv, mt, mw, at, aw)
  OBVIOUS
<1>3. \/ OnMinor(p, l, mw, lag)
      \/ OnMajor(p, l, aw, maLag)
      \/ p = Far /\ (SizeMod = TickMod => MIN_ST_TIMER <= l + maLag)
  BY <1>2, SlotPlaces, Zenon
<1>4. CASE OnMinor(p, l, mw, lag)
  <2>1. p \in {"mi"} \X Nat
    BY <1>1, <1>4, PlaceMinor
  <2>2. p \in {"mi", "ma", "st"} \X Nat
    BY <2>1
  <2> QED BY <1>2, <1>4, <2>2, Zenon
<1>5. CASE OnMajor(p, l, aw, maLag)
  <2>1. p \in {"ma"} \X Nat
    BY <1>1, <1>5, PlaceMajor
  <2>2. p \in {"mi", "ma", "st"} \X Nat
    BY <2>1
  <2> QED BY <1>2, <1>5, <2>2, Zenon
<1>6. CASE p = Far /\ (SizeMod = TickMod => MIN_ST_TIMER <= l + maLag)
  <2>1. SizeMod = TickMod => MIN_ST_TIMER - MIN_MA_TIMER < l + stLag
    BY <1>1, <1>6, Constants
  <2>2. OnFar(p, l, stLag, SizeMod)
    BY <1>6, <2>1, Zenon DEF OnFar
  <2>3. p \in {"mi", "ma", "st"} \X Nat
    BY <1>6 DEF Far
  <2> QED BY <1>2, <2>2, <2>3, Zenon
<1> QED BY <1>3, <1>4, <1>5, <1>6

LEMMA ResetInv ==
    ASSUME NEW t \in Timer, NEW ms \in Delay PROVE IndInv /\ Reset(t, ms) => IndInv'
<1> SUFFICES ASSUME IndInv, Reset(t, ms) PROVE IndInv'
  OBVIOUS
<1>1. /\ UNCHANGED <<SizeMod, mi_tick, mi_wheel, ma_tick, ma_wheel, st_tick, now, tx_ticks, pc>>
      /\ interval' = [interval EXCEPT ![t] = (tx_ticks + ms) % TickMod]
      /\ place' = [place EXCEPT ![t] =
            Slot((tx_ticks + ms) % TickMod, mi_tick, mi_wheel, ma_tick, ma_wheel)]
      /\ left' = [left EXCEPT ![t] = ms - Stale]
  BY DEF Reset, ringVars, Deadline, NewPlace
<1>2. TimerTypes /\ LagInv
  BY DEF IndInv
<1>3. Stale' = Stale /\ Lag' = Lag /\ MaLag' = MaLag /\ StLag' = StLag
  BY <1>1 DEF Stale, Lag, MaLag, StLag
<1>4. PICK m : m \in Nat \ {0} /\ m = TickMod
  BY Constants
<1>5. /\ Stale \in Nat /\ Lag \in Nat /\ MaLag \in Nat /\ StLag \in Nat
      /\ SizeMod \in Nat \ {0} /\ SizeMod % TickMod = 0
      /\ now \in Int /\ tx_ticks \in Int /\ mi_tick \in Int /\ ma_tick \in Int
  BY <1>2, Types, Constants
<1>6. ms \in Nat /\ 2 * (ms + MaxStall + MIN_ST_TIMER + MIN_TIME_OUT) < TickMod
  BY TimerAssumption
<1>7. PICK iv, l : /\ iv \in Int /\ l \in Int
                   /\ iv = (tx_ticks + ms) % TickMod /\ l = ms - Stale
  BY <1>4, <1>5, <1>6
<1>8. (iv - now) % TickMod = l % TickMod
  <2>1. PICK a, e, f : /\ a \in Int /\ e \in Int /\ f \in Int
                       /\ a = tx_ticks + ms /\ e = now - tx_ticks /\ f = -now
    BY <1>5, <1>6
  <2>2. iv % m = a % m
    <3>1. iv \in 0..(m - 1) /\ iv = a % m
      BY <1>4, <1>7, <2>1
    <3> QED BY <1>4, <3>1
  <2>3. (iv + f) % m = (a + f) % m
    BY <1>4, <1>7, <2>1, <2>2, SameSum
  <2>4. e % m = Stale /\ Stale \in 0..(m - 1)
    BY <1>2, <1>4, <2>1, Types DEF Stale
  <2>5. e % m = Stale % m
    BY <1>4, <2>4
  <2>6. Stale \in Int /\ ms \in Int
    BY <1>5, <1>6
  <2>7. (ms - e) % m = (ms - Stale) % m
    <3>1. m \in Nat \ {0} /\ e \in Int
      BY <1>4, <2>1
    <3> QED BY <2>5, <2>6, <3>1, SameDifference, Zenon
  <2>8. iv - now = iv + f /\ a + f = ms - e
    BY <1>5, <1>6, <1>7, <2>1
  <2> QED BY <1>4, <1>7, <2>3, <2>7, <2>8, Zenon
<1>9. /\ Lag <= MaLag /\ 0 <= l + Lag /\ 0 <= l + StLag /\ l + MaLag < TickMod
      /\ MaLag - StLag < MIN_MA_TIMER
  <2>1. PICK n \in Nat : MaLag = Lag + n * MIN_TIME_OUT
    BY <1>2 DEF LagInv
  <2>2. n * MIN_TIME_OUT \in Nat
    BY Constants
  <2>3. /\ Stale <= Lag /\ Stale <= StLag /\ MaLag < MIN_MA_TIMER + MaxStall
        /\ MaLag - StLag < MIN_MA_TIMER
    BY <1>2 DEF LagInv
  <2> QED BY <1>5, <1>6, <1>7, <2>1, <2>2, <2>3, Constants
<1>10. PICK p : p = Slot(iv, mi_tick, mi_wheel, ma_tick, ma_wheel)
  OBVIOUS
<1>11. /\ OnMinor(p, l, mi_wheel, Lag) \/ OnMajor(p, l, ma_wheel, MaLag)
          \/ OnFar(p, l, StLag, SizeMod)
       /\ p \in {"mi", "ma", "st"} \X Nat
  <2>1. (now - mi_tick) % TickMod = Lag /\ (mi_tick - ma_tick) % SizeMod = MaLag - Lag
    BY <1>2 DEF LagInv, Lag
  <2>2. mi_wheel \in 0..(MAX_MI_WHEEL - 1) /\ ma_wheel \in 0..(MAX_MA_WHEEL - 1)
    BY <1>2 DEF TimerTypes
  <2>3. Timed(iv, mi_tick, ma_tick, now, l, Lag, MaLag)
    BY <1>5, <1>7, <1>8, <1>9, <2>1, Zenon DEF Timed
  <2>4. StLag \in Nat /\ 0 <= l + StLag /\ MaLag - StLag < MIN_MA_TIMER
    BY <1>5, <1>9
  <2> QED BY <1>10, <2>2, <2>3, <2>4, SlotFits, Zenon
<1>12. TimerTypes'
  <2>1. place' \in [Timer -> {"idle", "mi", "ma", "st"} \X Nat]
    <3>1. p \in {"idle", "mi", "ma", "st"} \X Nat /\ place' = [place EXCEPT ![t] = p]
      BY <1>1, <1>7, <1>10, <1>11
    <3> QED BY <1>2, <3>1 DEF TimerTypes
  <2>2. left' \in [Timer -> Int] /\ interval' \in [Timer -> Int]
    <3>1. left' = [left EXCEPT ![t] = l] /\ interval' = [interval EXCEPT ![t] = iv]
      BY <1>1, <1>7, Zenon
    <3> QED BY <1>2, <1>7, <3>1 DEF TimerTypes
  <2> QED BY <1>1, <1>2, <2>1, <2>2 DEF TimerTypes
<1>13. LagInv'
  BY <1>1, <1>2, <1>3 DEF LagInv
<1>14. ASSUME NEW u \in Timer PROVE WellPlaced(u)'
  <2>1. CASE u = t
    <3>1. place'[u] = p /\ left'[u] = l /\ interval'[u] = iv
      BY <1>1, <1>2, <1>7, <1>10, <2>1 DEF TimerTypes
    <3>2. l <= ms
      BY <1>5, <1>6, <1>7
    <3>3. Placed(place[u], left[u])'
      BY <1>1, <1>3, <1>11, <3>1, Zenon DEF Placed
    <3>4. Dated(interval[u], left[u])'
      BY <1>1, <1>8, <3>1, <3>2, Zenon DEF Dated
    <3> QED BY <3>3, <3>4 DEF WellPlaced
  <2>2. CASE u # t
    <3>1. place'[u] = place[u] /\ left'[u] = left[u] /\ interval'[u] = interval[u]
      BY <1>1, <1>2, <2>2 DEF TimerTypes
    <3>2. WellPlaced(u)
      BY DEF IndInv
    <3> QED BY <1>1, <1>3, <3>1, <3>2, Zenon DEF WellPlaced, Placed, Dated, Armed
  <2> QED BY <2>1, <2>2
<1> QED BY <1>12, <1>13, <1>14 DEF IndInv

\* What a visit of a list does to each timer.
LEMMA Visit ==
    ASSUME TimerTypes, NEW from, NEW mt, NEW mw, NEW at, NEW aw,
           place' = Visited(from, mt, mw, at, aw),
           left' = Forget(left, place'), interval' = Forget(interval, place')
    PROVE  /\ left' \in [Timer -> Int] /\ interval' \in [Timer -> Int]
           /\ DOMAIN place' = Timer /\ place' = [u \in Timer |-> place'[u]]
           /\ \A u \in Timer :
                 /\ place[u] # from => place'[u] = place[u]
                 /\ place[u] = from /\ Due(u) => place'[u] = Idle
                 /\ place[u] = from /\ ~Due(u) => place'[u] = Slot(interval[u], mt, mw, at, aw)
                 /\ place'[u] # Idle => left'[u] = left[u] /\ interval'[u] = interval[u]
<1>1. left \in [Timer -> Int] /\ interval \in [Timer -> Int]
  BY DEF TimerTypes
<1>2. /\ left' = [u \in Timer |-> IF place'[u] = Idle THEN 0 ELSE left[u]]
      /\ interval' = [u \in Timer |-> IF place'[u] = Idle THEN 0 ELSE interval[u]]
  BY DEF Forget
<1>3. place' = [u \in Timer |-> IF place[u] # from THEN place[u]
                                ELSE IF Due(u) THEN Idle ELSE Slot(interval[u], mt, mw, at, aw)]
  BY Zenon DEF Visited
<1>4. left' \in [Timer -> Int] /\ interval' \in [Timer -> Int]
  BY <1>1, <1>2
<1>5. DOMAIN place' = Timer /\ place' = [u \in Timer |-> place'[u]]
  BY <1>3
<1>6. ASSUME NEW u \in Timer
      PROVE  /\ place[u] # from => place'[u] = place[u]
             /\ place[u] = from /\ Due(u) => place'[u] = Idle
             /\ place[u] = from /\ ~Due(u) => place'[u] = Slot(interval[u], mt, mw, at, aw)
             /\ place'[u] # Idle => left'[u] = left[u] /\ interval'[u] = interval[u]
  BY <1>2, <1>3, Zenon
<1> QED BY <1>4, <1>5, <1>6, Zenon

LEMMA MiTurnInv == IndInv /\ MiTurn => IndInv'
<1> SUFFICES ASSUME IndInv, MiTurn PROVE IndInv'
  OBVIOUS
<1>1. /\ pc = "mi" /\ Elapsed(mi_tick, MIN_TIME_OUT)
      /\ mi_tick' = (mi_tick + MIN_TIME_OUT) % SizeMod
      /\ mi_wheel' = (mi_wheel + 1) % MAX_MI_WHEEL
      /\ place' = Visited(<<"mi", mi_wheel'>>, mi_tick', mi_wheel', ma_tick, ma_wheel)
      /\ left' = Forget(left, place') /\ interval' = Forget(interval, place')
      /\ SizeMod' = SizeMod /\ now' = now /\ tx_ticks' = tx_ticks /\ ma_tick' = ma_tick
      /\ ma_wheel' = ma_wheel /\ st_tick' = st_tick /\ pc' = pc
  BY DEF MiTurn
<1>2. TimerTypes /\ LagInv
  BY DEF IndInv
<1>3. /\ Lag \in Nat /\ MaLag \in Nat /\ StLag \in Nat /\ Stale \in Nat
      /\ mi_wheel \in 0..(MAX_MI_WHEEL - 1) /\ ma_wheel \in 0..(MAX_MA_WHEEL - 1)
  BY <1>2, Types, Constants DEF TimerTypes
<1>4. MIN_TIME_OUT <= Lag
  BY <1>1, <1>2, <1>3, Tests, Constants
<1>5. /\ mi_tick' \in 0..(SizeMod - 1)
      /\ Lag' = Lag - MIN_TIME_OUT
      /\ MaLag' = MaLag /\ StLag' = StLag /\ Stale' = Stale
      /\ (mi_tick' - ma_tick) % SizeMod = MaLag - Lag + MIN_TIME_OUT
  BY <1>1, <1>2, <1>4, TurnTicks
<1>6. mi_wheel' \in 0..(MAX_MI_WHEEL - 1)
  <2>1. mi_wheel + 1 \in Int
    BY <1>3
  <2> QED BY <1>1, <2>1, Constants
<1>7. /\ left' \in [Timer -> Int] /\ interval' \in [Timer -> Int]
      /\ place' = [u \in Timer |-> place'[u]]
      /\ \A u \in Timer :
            /\ place[u] # <<"mi", mi_wheel'>> => place'[u] = place[u]
            /\ place[u] = <<"mi", mi_wheel'>> /\ Due(u) => place'[u] = Idle
            /\ place'[u] # Idle => left'[u] = left[u] /\ interval'[u] = interval[u]
  <2>1. /\ place' = Visited(<<"mi", mi_wheel'>>, mi_tick', mi_wheel', ma_tick, ma_wheel)
        /\ left' = Forget(left, place') /\ interval' = Forget(interval, place')
        /\ TimerTypes
    BY <1>1, <1>2
  <2> QED BY <2>1, Visit
<1>8. ASSUME NEW u \in Timer, Armed(u)
      PROVE  IF place[u] = <<"mi", mi_wheel'>> THEN Due(u)
             ELSE \/ OnMinor(place[u], left[u], mi_wheel', Lag')
                  \/ OnMajor(place[u], left[u], ma_wheel, MaLag)
                  \/ OnFar(place[u], left[u], StLag, SizeMod)
  <2>1. left[u] \in Int /\ (Due(u) <=> left[u] < MIN_TIME_OUT)
    BY <1>1, <1>8, Deadlines
  <2>2. Placed(place[u], left[u])
    BY <1>8 DEF IndInv, WellPlaced
  <2>3. CASE OnMinor(place[u], left[u], mi_wheel, Lag)
    <3>1. IF place[u] = <<"mi", (mi_wheel + 1) % MAX_MI_WHEEL>>
          THEN left[u] + Lag < 2 * MIN_TIME_OUT
          ELSE OnMinor(place[u], left[u], (mi_wheel + 1) % MAX_MI_WHEEL, Lag - MIN_TIME_OUT)
      <4>1. Lag \in Int
        BY <1>3
      <4> QED BY <1>3, <2>1, <2>3, <4>1, TurnMinor, Zenon
    <3>2. left[u] + Lag < 2 * MIN_TIME_OUT => left[u] < MIN_TIME_OUT
      BY <1>3, <1>4, <2>1, Constants
    <3> QED BY <1>1, <1>5, <2>1, <3>1, <3>2, Zenon
  <2>4. CASE OnMajor(place[u], left[u], ma_wheel, MaLag)
    <3>1. place[u] # <<"mi", mi_wheel'>>
      <4>1. MaLag \in Int
        BY <1>3
      <4> QED BY <1>3, <2>1, <2>4, <4>1, PlaceMajor, Zenon
    <3> QED BY <2>4, <3>1, Zenon
  <2>5. CASE OnFar(place[u], left[u], StLag, SizeMod)
    <3>1. place[u] # <<"mi", mi_wheel'>>
      BY <2>5, PlaceFar, Zenon
    <3> QED BY <2>5, <3>1, Zenon
  <2> QED BY <2>2, <2>3, <2>4, <2>5, Zenon DEF Placed
<1>9. TimerTypes'
  <2>1. \A u \in Timer : place'[u] \in {"idle", "mi", "ma", "st"} \X Nat
    <3> SUFFICES ASSUME NEW u \in Timer PROVE place'[u] \in {"idle", "mi", "ma", "st"} \X Nat
      OBVIOUS
    <3>1. place[u] \in {"idle", "mi", "ma", "st"} \X Nat
      BY <1>2 DEF TimerTypes
    <3>2. place[u] = <<"mi", mi_wheel'>> => Armed(u)
      BY DEF Armed, Idle
    <3>3. place'[u] = Idle \/ place'[u] = place[u]
      BY <1>7, <1>8, <3>2, Zenon
    <3> QED BY <3>1, <3>3 DEF Idle
  <2>2. place' \in [Timer -> {"idle", "mi", "ma", "st"} \X Nat]
    BY <1>7, <2>1
  <2> QED BY <1>1, <1>2, <1>5, <1>6, <1>7, <2>2 DEF TimerTypes
<1>10. LagInv'
  <2>1. Stale = 0
    <3>1. PICK m : m \in Nat \ {0} /\ m = TickMod
      BY Constants
    <3>2. now - tx_ticks = 0 /\ 0 % m = 0
      BY <1>1, <1>2, <3>1, Types DEF LagInv
    <3> QED BY <3>1, <3>2 DEF Stale
  <2>2. PICK q : q \in Nat /\ q = MIN_TIME_OUT
    BY Constants
  <2>3. PICK n \in Nat : MaLag = Lag + n * q
    BY <1>2, <2>2 DEF LagInv
  <2>4. \E k \in Nat : MaLag' = Lag' + k * MIN_TIME_OUT
    <3>1. (n + 1) * q = n * q + q /\ n * q \in Int
      BY <2>2
    <3>2. MaLag = (Lag - q) + (n + 1) * q
      BY <1>3, <2>2, <2>3, <3>1
    <3>3. n + 1 \in Nat
      OBVIOUS
    <3> QED BY <1>5, <2>2, <3>2, <3>3, Zenon
  <2>5. (mi_tick' - ma_tick') % SizeMod' = MaLag' - Lag'
    <3>1. MaLag - (Lag - MIN_TIME_OUT) = MaLag - Lag + MIN_TIME_OUT
      BY <1>3, Constants
    <3> QED BY <1>1, <1>5, <3>1, Zenon
  <2>6. /\ Lag < MIN_TIME_OUT + MaxStall /\ MaLag < MIN_MA_TIMER + MaxStall
        /\ StLag < MIN_ST_TIMER + MaxStall /\ MaLag - StLag < MIN_MA_TIMER
        /\ tx_ticks = now
    BY <1>1, <1>2 DEF LagInv
  <2>7. 0 <= Lag' /\ Lag' < MIN_TIME_OUT + MaxStall
    BY <1>3, <1>4, <1>5, <2>6, Constants
  <2> QED BY <1>1, <1>3, <1>5, <2>1, <2>4, <2>5, <2>6, <2>7 DEF LagInv
<1>11. ASSUME NEW u \in Timer PROVE WellPlaced(u)'
  <2>1. SUFFICES ASSUME Armed(u)' PROVE Placed(place[u], left[u])' /\ Dated(interval[u], left[u])'
    BY DEF WellPlaced
  <2>2. place'[u] # Idle
    BY <2>1 DEF Armed
  <2>3. left'[u] = left[u] /\ interval'[u] = interval[u]
    BY <1>7, <2>2, Zenon
  <2>4. place[u] = <<"mi", mi_wheel'>> => Armed(u)
    BY DEF Armed, Idle
  <2>5. place[u] # <<"mi", mi_wheel'>>
    BY <1>7, <1>8, <2>2, <2>4, Zenon
  <2>6. place'[u] = place[u] /\ Armed(u)
    BY <1>7, <2>2, <2>5, Zenon DEF Armed
  <2>7. Placed(place[u], left[u])'
    BY <1>1, <1>5, <1>8, <2>3, <2>5, <2>6, Zenon DEF Placed
  <2>8. Dated(interval[u], left[u])'
    BY <1>1, <2>3, <2>6, Zenon DEF Dated, IndInv, WellPlaced
  <2> QED BY <2>7, <2>8
<1> QED BY <1>9, <1>10, <1>11 DEF IndInv

\* The major tick is at least a turn of the minor wheel behind the minor tick when the
\* second loop turns, since the first one has caught up.
LEMMA WholeTurn ==
    ASSUME TimerTypes, LagInv, Lag < MIN_TIME_OUT, MIN_MA_TIMER <= MaLag
    PROVE  \E n \in Nat : MaLag - MIN_MA_TIMER = Lag + n * MIN_TIME_OUT
<1>1. PICK q, M : q \in Nat \ {0} /\ M \in Nat \ {0} /\ q = MIN_TIME_OUT /\ M = MAX_MI_WHEEL
  BY Constants
<1>2. PICK n \in Nat : MaLag = Lag + n * q
  BY <1>1 DEF LagInv
<1>3. MIN_MA_TIMER = q * M
  BY <1>1 DEF MIN_MA_TIMER
<1>4. Lag \in Nat /\ MaLag \in Nat /\ Lag < q
  BY <1>1, Types, Constants
<1>5. n >= M
  <2> SUFFICES ASSUME n <= M - 1 PROVE FALSE
    BY <1>1
  <2>1. n * q <= (M - 1) * q
    BY <1>1
  <2>2. (M - 1) * q = q * M - q
    BY <1>1
  <2>3. PICK a \in Int, b \in Int : a = n * q /\ b = q * M
    BY <1>1
  <2> QED BY <1>1, <1>2, <1>3, <1>4, <2>1, <2>2, <2>3
<1>6. PICK k \in Nat : k = n - M
  BY <1>1, <1>5
<1>7. k * q = n * q - q * M
  BY <1>1, <1>6
<1>8. PICK a \in Int, b \in Int : a = n * q /\ b = q * M
  BY <1>1
<1>9. MaLag - MIN_MA_TIMER = Lag + k * q
  BY <1>2, <1>3, <1>4, <1>7, <1>8
<1> QED BY <1>1, <1>9, Zenon

LEMMA MaTurnInv == IndInv /\ MaTurn => IndInv'
<1> SUFFICES ASSUME IndInv, MaTurn PROVE IndInv'
  OBVIOUS
<1>1. /\ pc = "ma" /\ Elapsed(ma_tick, MIN_MA_TIMER)
      /\ ma_tick' = (ma_tick + MIN_MA_TIMER) % SizeMod
      /\ ma_wheel' = (ma_wheel + 1) % MAX_MA_WHEEL
      /\ place' = Visited(<<"ma", ma_wheel'>>, mi_tick, mi_wheel, ma_tick', ma_wheel')
      /\ left' = Forget(left, place') /\ interval' = Forget(interval, place')
      /\ SizeMod' = SizeMod /\ now' = now /\ tx_ticks' = tx_ticks /\ mi_tick' = mi_tick
      /\ mi_wheel' = mi_wheel /\ st_tick' = st_tick /\ pc' = pc
  BY DEF MaTurn
<1>2. TimerTypes /\ LagInv
  BY DEF IndInv
<1>3. /\ Lag \in Nat /\ MaLag \in Nat /\ StLag \in Nat /\ Stale \in Nat
      /\ mi_wheel \in 0..(MAX_MI_WHEEL - 1) /\ ma_wheel \in 0..(MAX_MA_WHEEL - 1)
      /\ SizeMod \in Nat \ {0} /\ SizeMod % TickMod = 0
      /\ now \in Int /\ mi_tick \in Int
  BY <1>2, Types, Constants DEF TimerTypes
<1>4. MIN_MA_TIMER <= MaLag /\ Lag < MIN_TIME_OUT
  BY <1>1, <1>2, <1>3, Tests, Constants DEF LagInv
<1>5. PICK n \in Nat : MaLag - MIN_MA_TIMER = Lag + n * MIN_TIME_OUT
  BY <1>2, <1>4, WholeTurn
<1>6. Lag <= MaLag - MIN_MA_TIMER /\ MIN_MA_TIMER <= MaLag - Lag
  <2>1. n * MIN_TIME_OUT \in Nat
    BY Constants
  <2> QED BY <1>3, <1>5, <2>1, Constants
<1>7. /\ ma_tick' \in 0..(SizeMod - 1)
      /\ MaLag' = MaLag - MIN_MA_TIMER
      /\ Lag' = Lag /\ StLag' = StLag /\ Stale' = Stale
      /\ (mi_tick - ma_tick') % SizeMod = MaLag - Lag - MIN_MA_TIMER
  BY <1>1, <1>2, <1>6, TurnMaTicks
<1>8. ma_wheel' \in 0..(MAX_MA_WHEEL - 1)
  <2>1. ma_wheel + 1 \in Int
    BY <1>3
  <2> QED BY <1>1, <2>1, Constants
<1>9. PICK L : L \in Nat /\ L = MaLag - MIN_MA_TIMER
  BY <1>3, <1>4, Constants
<1>10. /\ MaLag < MIN_MA_TIMER + MaxStall /\ MaLag - StLag < MIN_MA_TIMER
       /\ L - StLag < MIN_MA_TIMER
  <2>1. MaLag < MIN_MA_TIMER + MaxStall /\ MaLag - StLag < MIN_MA_TIMER
    BY <1>2 DEF LagInv
  <2> QED BY <1>3, <1>9, <2>1, Constants
<1>11. /\ left' \in [Timer -> Int] /\ interval' \in [Timer -> Int]
       /\ place' = [u \in Timer |-> place'[u]]
       /\ \A u \in Timer :
             /\ place[u] # <<"ma", ma_wheel'>> => place'[u] = place[u]
             /\ place[u] = <<"ma", ma_wheel'>> /\ Due(u) => place'[u] = Idle
             /\ place[u] = <<"ma", ma_wheel'>> /\ ~Due(u) =>
                  place'[u] = Slot(interval[u], mi_tick, mi_wheel, ma_tick', ma_wheel')
             /\ place'[u] # Idle => left'[u] = left[u] /\ interval'[u] = interval[u]
  <2>1. /\ place' = Visited(<<"ma", ma_wheel'>>, mi_tick, mi_wheel, ma_tick', ma_wheel')
        /\ left' = Forget(left, place') /\ interval' = Forget(interval, place')
        /\ TimerTypes
    BY <1>1, <1>2
  <2> QED BY <2>1, Visit
<1>12. ASSUME NEW u \in Timer, Armed(u), place'[u] # Idle
       PROVE  /\ \/ OnMinor(place'[u], left[u], mi_wheel, Lag)
                 \/ OnMajor(place'[u], left[u], ma_wheel', L)
                 \/ OnFar(place'[u], left[u], StLag, SizeMod)
              /\ place'[u] \in {"mi", "ma", "st"} \X Nat
  <2>1. /\ left[u] \in Int /\ interval[u] \in Int /\ (Due(u) <=> left[u] < MIN_TIME_OUT)
        /\ 2 * (left[u] + MaxStall + MIN_ST_TIMER + MIN_TIME_OUT) < TickMod
    BY <1>1, <1>12, Deadlines
  <2>2. Placed(place[u], left[u]) /\ Dated(interval[u], left[u])
    BY <1>12 DEF IndInv, WellPlaced
  <2>3. CASE place[u] = <<"ma", ma_wheel'>>
    <3>1. ~Due(u) /\ place'[u] = Slot(interval[u], mi_tick, mi_wheel, ma_tick', ma_wheel')
      BY <1>11, <1>12, <2>3, Zenon
    <3>2. /\ L \in Nat /\ Lag <= L /\ 0 <= left[u] + Lag /\ left[u] + L < TickMod
          /\ StLag \in Nat /\ 0 <= left[u] + StLag
      <4>1. left[u] >= MIN_TIME_OUT
        BY <2>1, <3>1, Constants
      <4> QED BY <1>3, <1>6, <1>9, <1>10, <2>1, <4>1, Constants
    <3>3. (mi_tick - ma_tick') % SizeMod = L - Lag
      <4>1. MaLag - Lag - MIN_MA_TIMER = L - Lag
        BY <1>3, <1>9, Constants
      <4> QED BY <1>7, <4>1, Zenon
    <3>4. ma_tick' \in Int
      BY <1>3, <1>7
    <3>5. Timed(interval[u], mi_tick, ma_tick', now, left[u], Lag, L)
      BY <1>3, <2>1, <2>2, <3>2, <3>3, <3>4, Zenon DEF Timed, Dated, Lag
    <3>6. PICK p : p = Slot(interval[u], mi_tick, mi_wheel, ma_tick', ma_wheel')
      OBVIOUS
    <3>7. /\ StLag \in Nat /\ 0 <= left[u] + StLag /\ L - StLag < MIN_MA_TIMER
          /\ mi_wheel \in 0..(MAX_MI_WHEEL - 1)
      BY <1>3, <1>10, <3>2
    <3>8. /\ \/ OnMinor(p, left[u], mi_wheel, Lag)
             \/ OnMajor(p, left[u], ma_wheel', L)
             \/ OnFar(p, left[u], StLag, SizeMod)
          /\ p \in {"mi", "ma", "st"} \X Nat
      BY <1>8, <3>5, <3>6, <3>7, SlotFits, Zenon
    <3> QED BY <3>1, <3>6, <3>8, Zenon
  <2>4. CASE place[u] # <<"ma", ma_wheel'>>
    <3>1. place'[u] = place[u]
      BY <1>11, <2>4, Zenon
    <3>2. CASE OnMinor(place[u], left[u], mi_wheel, Lag)
      <4>1. Lag \in Int
        BY <1>3
      <4>2. place[u] \in {"mi"} \X Nat
        BY <1>3, <2>1, <3>2, <4>1, PlaceMinor, Zenon
      <4>3. place[u] \in {"mi", "ma", "st"} \X Nat
        BY <4>2
      <4> QED BY <3>1, <3>2, <4>3, Zenon
    <3>3. CASE OnMajor(place[u], left[u], ma_wheel, MaLag)
      <4>1. MaLag \in Int
        BY <1>3
      <4>2. place[u] \in {"ma"} \X Nat
        BY <1>3, <2>1, <3>3, <4>1, PlaceMajor, Zenon
      <4>3. place[u] \in {"mi", "ma", "st"} \X Nat
        BY <4>2
      <4>4. IF place[u] = <<"ma", (ma_wheel + 1) % MAX_MA_WHEEL>>
            THEN left[u] + MaLag < 2 * MIN_MA_TIMER
            ELSE OnMajor(place[u], left[u], (ma_wheel + 1) % MAX_MA_WHEEL, MaLag - MIN_MA_TIMER)
        BY <1>3, <2>1, <3>3, <4>1, TurnMajor, Zenon
      <4> QED BY <1>1, <1>9, <2>4, <3>1, <4>3, <4>4, Zenon
    <3>4. CASE OnFar(place[u], left[u], StLag, SizeMod)
      <4>1. place[u] \in {"mi", "ma", "st"} \X Nat
        BY <3>4 DEF OnFar, Far
      <4> QED BY <3>1, <3>4, <4>1, Zenon
    <3> QED BY <2>2, <3>2, <3>3, <3>4, Zenon DEF Placed
  <2> QED BY <2>3, <2>4, Zenon
<1>13. ASSUME NEW u \in Timer, place'[u] # Idle PROVE Armed(u)
  <2>1. place[u] = <<"ma", ma_wheel'>> => place[u] # Idle
    BY DEF Idle
  <2> QED BY <1>11, <1>13, <2>1, Zenon DEF Armed
<1>14. TimerTypes'
  <2>1. \A u \in Timer : place'[u] \in {"idle", "mi", "ma", "st"} \X Nat
    <3> SUFFICES ASSUME NEW u \in Timer PROVE place'[u] \in {"idle", "mi", "ma", "st"} \X Nat
      OBVIOUS
    <3>1. CASE place'[u] = Idle
      BY <3>1 DEF Idle
    <3>2. CASE place'[u] # Idle
      <4>1. place'[u] \in {"mi", "ma", "st"} \X Nat
        BY <1>12, <1>13, <3>2, Zenon
      <4> QED BY <4>1
    <3> QED BY <3>1, <3>2
  <2>2. place' \in [Timer -> {"idle", "mi", "ma", "st"} \X Nat]
    BY <1>11, <2>1
  <2> QED BY <1>1, <1>2, <1>7, <1>8, <1>11, <2>2 DEF TimerTypes
<1>15. LagInv'
  <2>1. \E k \in Nat : MaLag' = Lag' + k * MIN_TIME_OUT
    BY <1>5, <1>7, Zenon
  <2>2. (mi_tick' - ma_tick') % SizeMod' = MaLag' - Lag'
    <3>1. MaLag - Lag - MIN_MA_TIMER = (MaLag - MIN_MA_TIMER) - Lag
      BY <1>3, Constants
    <3> QED BY <1>1, <1>7, <3>1, Zenon
  <2>3. /\ MaLag' = L /\ L < MIN_MA_TIMER + MaxStall
        /\ StLag < MIN_ST_TIMER + MaxStall /\ tx_ticks = now
        /\ Lag < MIN_TIME_OUT + MaxStall
    BY <1>1, <1>2, <1>3, <1>7, <1>9, <1>10, Constants DEF LagInv
  <2> QED BY <1>1, <1>2, <1>4, <1>7, <1>10, <2>1, <2>2, <2>3 DEF LagInv
<1>16. ASSUME NEW u \in Timer PROVE WellPlaced(u)'
  <2>1. SUFFICES ASSUME Armed(u)' PROVE Placed(place[u], left[u])' /\ Dated(interval[u], left[u])'
    BY DEF WellPlaced
  <2>2. place'[u] # Idle
    BY <2>1 DEF Armed
  <2>3. Armed(u) /\ left'[u] = left[u] /\ interval'[u] = interval[u]
    BY <1>11, <1>13, <2>2, Zenon
  <2>4. Placed(place[u], left[u])'
    BY <1>1, <1>7, <1>9, <1>12, <2>2, <2>3, Zenon DEF Placed
  <2>5. Dated(interval[u], left[u])'
    BY <1>1, <2>3, Zenon DEF Dated, IndInv, WellPlaced
  <2> QED BY <2>4, <2>5
<1> QED BY <1>14, <1>15, <1>16 DEF IndInv

LEMMA StScanInv == IndInv /\ StScan => IndInv'
<1> SUFFICES ASSUME IndInv, StScan PROVE IndInv'
  OBVIOUS
<1>1. /\ pc = "st" /\ pc' = "end"
      /\ SizeMod' = SizeMod /\ now' = now /\ tx_ticks' = tx_ticks /\ mi_tick' = mi_tick
      /\ mi_wheel' = mi_wheel /\ ma_tick' = ma_tick /\ ma_wheel' = ma_wheel
  BY DEF StScan
<1>2. TimerTypes /\ LagInv
  BY DEF IndInv
<1>3. /\ Lag \in Nat /\ MaLag \in Nat /\ StLag \in Nat /\ Stale \in Nat
      /\ mi_wheel \in 0..(MAX_MI_WHEEL - 1) /\ ma_wheel \in 0..(MAX_MA_WHEEL - 1)
      /\ SizeMod \in Nat \ {0} /\ SizeMod % TickMod = 0
      /\ now \in Int /\ mi_tick \in Int /\ ma_tick \in Int
  BY <1>2, Types, Constants DEF TimerTypes
<1>4. /\ tx_ticks = now /\ Stale <= Lag /\ MaLag < MIN_MA_TIMER /\ Lag < MIN_TIME_OUT
      /\ \E n \in Nat : MaLag = Lag + n * MIN_TIME_OUT
  BY <1>1, <1>2 DEF LagInv
<1>5. Lag' = Lag /\ MaLag' = MaLag /\ Stale' = Stale
  BY <1>1 DEF Lag, MaLag, Stale
<1>6. Lag <= MaLag
  <2>1. PICK n \in Nat : MaLag = Lag + n * MIN_TIME_OUT
    BY <1>4
  <2>2. n * MIN_TIME_OUT \in Nat
    BY Constants
  <2> QED BY <1>3, <2>1, <2>2
<1>7. Stale = 0
  <2>1. PICK m : m \in Nat \ {0} /\ m = TickMod
    BY Constants
  <2>2. now - tx_ticks = 0 /\ 0 % m = 0
    BY <1>3, <1>4, <2>1
  <2> QED BY <2>1, <2>2 DEF Stale
<1>8. CASE ~Elapsed(st_tick, MIN_ST_TIMER)
  <2>1. st_tick' = st_tick /\ place' = place /\ interval' = interval /\ left' = left
    BY <1>8 DEF StScan
  <2>2. StLag' = StLag
    BY <1>1, <2>1 DEF StLag
  <2>3. StLag < MIN_ST_TIMER
    BY <1>1, <1>2, <1>3, <1>8, Tests, Constants
  <2>4. TimerTypes'
    BY <1>1, <1>2, <2>1 DEF TimerTypes
  <2>5. LagInv'
    <3>1. (mi_tick' - ma_tick') % SizeMod' = (mi_tick - ma_tick) % SizeMod
      BY <1>1
    <3> QED BY <1>1, <1>2, <1>4, <1>5, <2>2, <2>3, <3>1 DEF LagInv
  <2>6. \A u \in Timer : WellPlaced(u)'
    <3>1. UNCHANGED <<now, interval, place, ringVars, left>>
      BY <1>1, <2>1 DEF ringVars
    <3> QED BY <3>1, RingStays
  <2> QED BY <2>4, <2>5, <2>6 DEF IndInv
<1>9. CASE Elapsed(st_tick, MIN_ST_TIMER)
  <2>1. /\ st_tick' = tx_ticks
        /\ place' = Visited(Far, mi_tick, mi_wheel, ma_tick, ma_wheel)
        /\ left' = Forget(left, place') /\ interval' = Forget(interval, place')
    BY <1>9 DEF StScan
  <2>2. StLag' = 0
    <3>1. PICK m : m \in Nat \ {0} /\ m = TickMod
      BY Constants
    <3>2. now - now = 0 /\ 0 % m = 0
      BY <1>3, <3>1
    <3> QED BY <1>1, <1>4, <2>1, <3>1, <3>2 DEF StLag
  <2>3. /\ left' \in [Timer -> Int] /\ interval' \in [Timer -> Int]
        /\ place' = [u \in Timer |-> place'[u]]
        /\ \A u \in Timer :
              /\ place[u] # Far => place'[u] = place[u]
              /\ place[u] = Far /\ Due(u) => place'[u] = Idle
              /\ place[u] = Far /\ ~Due(u) =>
                   place'[u] = Slot(interval[u], mi_tick, mi_wheel, ma_tick, ma_wheel)
              /\ place'[u] # Idle => left'[u] = left[u] /\ interval'[u] = interval[u]
    <3>1. TimerTypes
      BY <1>2
    <3> QED BY <2>1, <3>1, Visit
  <2>4. ASSUME NEW u \in Timer, place'[u] # Idle PROVE Armed(u)
    <3>1. Far # Idle
      BY DEF Idle, Far
    <3> QED BY <2>3, <2>4, <3>1, Zenon DEF Armed
  <2>5. ASSUME NEW u \in Timer, Armed(u), place'[u] # Idle
        PROVE  /\ \/ OnMinor(place'[u], left[u], mi_wheel, Lag)
                  \/ OnMajor(place'[u], left[u], ma_wheel, MaLag)
                  \/ OnFar(place'[u], left[u], 0, SizeMod)
               /\ place'[u] \in {"mi", "ma", "st"} \X Nat
    <3>1. /\ left[u] \in Int /\ interval[u] \in Int /\ (Due(u) <=> left[u] < MIN_TIME_OUT)
          /\ 2 * (left[u] + MaxStall + MIN_ST_TIMER + MIN_TIME_OUT) < TickMod
      BY <1>1, <2>5, Deadlines
    <3>2. Placed(place[u], left[u]) /\ Dated(interval[u], left[u])
      BY <2>5 DEF IndInv, WellPlaced
    <3>3. CASE place[u] = Far
      <4>1. ~Due(u) /\ place'[u] = Slot(interval[u], mi_tick, mi_wheel, ma_tick, ma_wheel)
        BY <2>3, <2>5, <3>3, Zenon
      <4>2. /\ 0 <= left[u] + Lag /\ left[u] + MaLag < TickMod
            /\ 0 \in Nat /\ 0 <= left[u] + 0 /\ MaLag - 0 < MIN_MA_TIMER
        <5>1. left[u] >= MIN_TIME_OUT
          BY <3>1, <4>1, Constants
        <5> QED BY <1>3, <1>4, <3>1, <5>1, Constants
      <4>3. Timed(interval[u], mi_tick, ma_tick, now, left[u], Lag, MaLag)
        <5>1. (mi_tick - ma_tick) % SizeMod = MaLag - Lag
          BY <1>2 DEF LagInv
        <5> QED BY <1>3, <1>6, <3>1, <3>2, <4>2, <5>1, Zenon DEF Timed, Dated, Lag
      <4>4. PICK p : p = Slot(interval[u], mi_tick, mi_wheel, ma_tick, ma_wheel)
        OBVIOUS
      <4>5. mi_wheel \in 0..(MAX_MI_WHEEL - 1) /\ ma_wheel \in 0..(MAX_MA_WHEEL - 1)
        BY <1>3
      <4>6. /\ \/ OnMinor(p, left[u], mi_wheel, Lag)
               \/ OnMajor(p, left[u], ma_wheel, MaLag)
               \/ OnFar(p, left[u], 0, SizeMod)
            /\ p \in {"mi", "ma", "st"} \X Nat
        BY <4>2, <4>3, <4>4, <4>5, SlotFits, Zenon
      <4> QED BY <4>1, <4>4, <4>6, Zenon
    <3>4. CASE place[u] # Far
      <4>1. place'[u] = place[u]
        BY <2>3, <3>4, Zenon
      <4>2. CASE OnMinor(place[u], left[u], mi_wheel, Lag)
        <5>1. Lag \in Int
          BY <1>3
        <5>2. place[u] \in {"mi"} \X Nat
          BY <1>3, <3>1, <4>2, <5>1, PlaceMinor, Zenon
        <5>3. place[u] \in {"mi", "ma", "st"} \X Nat
          BY <5>2
        <5> QED BY <4>1, <4>2, <5>3, Zenon
      <4>3. CASE OnMajor(place[u], left[u], ma_wheel, MaLag)
        <5>1. MaLag \in Int
          BY <1>3
        <5>2. place[u] \in {"ma"} \X Nat
          BY <1>3, <3>1, <4>3, <5>1, PlaceMajor, Zenon
        <5>3. place[u] \in {"mi", "ma", "st"} \X Nat
          BY <5>2
        <5> QED BY <4>1, <4>3, <5>3, Zenon
      <4> QED BY <3>2, <3>4, <4>2, <4>3, Zenon DEF Placed, OnFar
    <3> QED BY <3>3, <3>4, Zenon
  <2>6. TimerTypes'
    <3>1. \A u \in Timer : place'[u] \in {"idle", "mi", "ma", "st"} \X Nat
      <4> SUFFICES ASSUME NEW u \in Timer PROVE place'[u] \in {"idle", "mi", "ma", "st"} \X Nat
        OBVIOUS
      <4>1. CASE place'[u] = Idle
        BY <4>1 DEF Idle
      <4>2. CASE place'[u] # Idle
        <5>1. place'[u] \in {"mi", "ma", "st"} \X Nat
          BY <2>4, <2>5, <4>2, Zenon
        <5> QED BY <5>1
      <4> QED BY <4>1, <4>2
    <3>2. place' \in [Timer -> {"idle", "mi", "ma", "st"} \X Nat]
      BY <2>3, <3>1
    <3> QED BY <1>1, <1>2, <2>1, <2>3, <3>2 DEF TimerTypes
  <2>7. LagInv'
    <3>1. (mi_tick' - ma_tick') % SizeMod' = (mi_tick - ma_tick) % SizeMod
      BY <1>1
    <3>2. MaLag - 0 < MIN_MA_TIMER /\ 0 < MIN_ST_TIMER + MaxStall /\ 0 < MIN_ST_TIMER
      BY <1>3, <1>4, Constants
    <3> QED BY <1>1, <1>2, <1>3, <1>4, <1>5, <1>7, <2>2, <3>1, <3>2 DEF LagInv
  <2>8. ASSUME NEW u \in Timer PROVE WellPlaced(u)'
    <3>1. SUFFICES ASSUME Armed(u)' PROVE Placed(place[u], left[u])' /\ Dated(interval[u], left[u])'
      BY DEF WellPlaced
    <3>2. place'[u] # Idle
      BY <3>1 DEF Armed
    <3>3. Armed(u) /\ left'[u] = left[u] /\ interval'[u] = interval[u]
      BY <2>3, <2>4, <3>2, Zenon
    <3>4. Placed(place[u], left[u])'
      BY <1>1, <1>5, <2>2, <2>5, <3>2, <3>3, Zenon DEF Placed
    <3>5. Dated(interval[u], left[u])'
      BY <1>1, <3>3, Zenon DEF Dated, IndInv, WellPlaced
    <3> QED BY <3>4, <3>5
  <2> QED BY <2>6, <2>7, <2>8 DEF IndInv
<1> QED BY <1>8, <1>9

LEMMA NextInv == IndInv /\ [Next]_vars => IndInv'
<1> SUFFICES ASSUME IndInv, [Next]_vars PROVE IndInv'
  OBVIOUS
<1>1. CASE \E d \in Step : Advance(d) \/ PollSleep(d)
  BY <1>1, TimeInv
<1>2. CASE \E t \in Timer : Stop(t)
  BY <1>2, StopInv
<1>3. CASE \E t \in Timer, ms \in Delay : Reset(t, ms)
  BY <1>3, ResetInv
<1>4. CASE tx_getticks \/ PollBegin
  BY <1>4, ReadInv
<1>5. CASE MiDone \/ MaDone \/ PollEnd
  BY <1>5, DoneInv
<1>6. CASE MiTurn
  BY <1>6, MiTurnInv
<1>7. CASE MaTurn
  BY <1>7, MaTurnInv
<1>8. CASE StScan
  BY <1>8, StScanInv
<1>9. CASE UNCHANGED vars
  <2>1. /\ UNCHANGED <<now, interval, place, ringVars, left>>
        /\ tx_ticks' = tx_ticks /\ pc' = pc
    BY <1>9 DEF vars, ringVars
  <2>2. Lag' = Lag /\ MaLag' = MaLag /\ StLag' = StLag /\ \A t \in Timer : WellPlaced(t)'
    BY <2>1, RingStays
  <2>3. Stale' = Stale
    BY <2>1 DEF Stale
  <2> QED BY <2>1, <2>2, <2>3 DEF IndInv, TimerTypes, LagInv, ringVars
<1> QED BY <1>1, <1>2, <1>3, <1>4, <1>5, <1>6, <1>7, <1>8, <1>9 DEF Next, PollStep

(* The inductive invariant: the ticks of the ring keep their distances from  *)
(* the clock, and every armed timer is on the slot its deadline falls in.    *)
THEOREM TimerInvariant == Spec => []IndInv
<1>1. Init => IndInv
  BY InitInv
<1>2. IndInv /\ [Next]_vars => IndInv'
  BY NextInv
<1> QED BY <1>1, <1>2, PTL DEF Spec

\* Where a timer can be, and how late it is when no tick of the ring is more than a slot of
\* its wheel and a stall of x behind.
LEMMA LateBound ==
    ASSUME IndInv, NEW t \in Timer, Armed(t), NEW x \in Nat,
           Lag < MIN_TIME_OUT + x, MaLag < MIN_MA_TIMER + x, StLag < MIN_ST_TIMER + x
    PROVE  left[t] \in Int /\ left[t] > -(Lateness + x)
<1> DEFINE l == left[t]
<1>1. /\ l \in Int /\ Placed(place[t], l)
      /\ mi_wheel \in 0..(MAX_MI_WHEEL - 1) /\ ma_wheel \in 0..(MAX_MA_WHEEL - 1)
  BY DEF IndInv, TimerTypes, WellPlaced
<1>2. Lag \in Int /\ MaLag \in Int /\ StLag \in Int
  BY Types, Constants DEF IndInv
<1>3. PICK b : /\ b \in Int /\ b = Lateness /\ MIN_MA_TIMER <= b
               /\ SizeMod # TickMod => b = MIN_ST_TIMER
  BY Constants DEF Lateness
<1>4. CASE OnMinor(place[t], l, mi_wheel, Lag)
  <2>1. 0 <= l + Lag
    BY <1>1, <1>2, <1>4, PlaceMinor
  <2> QED BY <1>1, <1>2, <1>3, <2>1, Constants
<1>5. CASE OnMajor(place[t], l, ma_wheel, MaLag)
  <2>1. MIN_MA_TIMER <= l + MaLag
    BY <1>1, <1>2, <1>5, PlaceMajor
  <2> QED BY <1>1, <1>2, <1>3, <2>1, Constants
<1>6. CASE OnFar(place[t], l, StLag, SizeMod)
  <2>1. 0 <= l + StLag /\ (SizeMod = TickMod => MIN_ST_TIMER - MIN_MA_TIMER < l + StLag)
    BY <1>6 DEF OnFar
  <2>2. CASE SizeMod = TickMod
    BY <1>1, <1>2, <1>3, <2>1, <2>2, Constants
  <2>3. CASE SizeMod # TickMod
    BY <1>1, <1>2, <1>3, <2>1, <2>3, Constants
  <2> QED BY <2>2, <2>3
<1> QED BY <1>1, <1>4, <1>5, <1>6 DEF Placed

(* tx_timer_polling leaves no timer on a list Lateness or more after its     *)
(* deadline, whatever the ring's ticks were when it began.                   *)
THEOREM TimerNeverLate == Spec => []NeverLate
<1>1. IndInv => NeverLate
  <2> SUFFICES ASSUME IndInv, pc = "end", NEW t \in Timer, Armed(t) PROVE left[t] > -Lateness
    BY DEF NeverLate
  <2>1. Lag < MIN_TIME_OUT /\ MaLag < MIN_MA_TIMER /\ StLag < MIN_ST_TIMER
    BY DEF IndInv, LagInv
  <2>2. /\ 0 \in Nat /\ Lag < MIN_TIME_OUT + 0 /\ MaLag < MIN_MA_TIMER + 0
        /\ StLag < MIN_ST_TIMER + 0
    BY <2>1, Constants
  <2>3. left[t] \in Int /\ left[t] > -(Lateness + 0)
    BY <2>2, LateBound
  <2>4. Lateness \in Int
    BY Constants DEF Lateness
  <2> QED BY <2>3, <2>4
<1> QED BY <1>1, TimerInvariant, PTL

(* Outside the loop that turns the minor wheel no timer is on the slot the   *)
(* wheel is at, where only a whole turn later would find it.                 *)
THEOREM TimerNothingBehind == Spec => []NothingBehindTheWheel
<1>1. IndInv => NothingBehindTheWheel
  <2> SUFFICES ASSUME IndInv, NEW t \in Timer PROVE place[t] # <<"mi", mi_wheel>>
    BY DEF NothingBehindTheWheel
  <2>1. CASE ~Armed(t)
    BY <2>1 DEF Armed, Idle
  <2>2. CASE Armed(t)
    <3>1. /\ left[t] \in Int /\ Placed(place[t], left[t])
          /\ mi_wheel \in 0..(MAX_MI_WHEEL - 1) /\ ma_wheel \in 0..(MAX_MA_WHEEL - 1)
      BY <2>2 DEF IndInv, TimerTypes, WellPlaced
    <3>2. Lag \in Int /\ MaLag \in Int
      BY Types, Constants DEF IndInv
    <3> QED BY <3>1, <3>2, PlaceMinor, PlaceMajor, PlaceFar, Zenon DEF Placed
  <2> QED BY <2>1, <2>2
<1> QED BY <1>1, TimerInvariant, PTL

\* tx_timer_reset always puts a timer on a list.
LEMMA SlotArmed ==
    ASSUME NEW iv, NEW mt, NEW mw, NEW at, NEW aw
    PROVE  Slot(iv, mt, mw, at, aw) # Idle
<1>1. \A mi, ma, x, y : (CASE mi < MAX_MI_WHEEL -> <<"mi", x>>
                           [] mi >= MAX_MI_WHEEL /\ ma < MAX_MA_WHEEL -> <<"ma", y>>
                           [] OTHER -> Far) # Idle
  BY DEF Far, Idle
<1> QED BY <1>1 DEF Slot

\* A visit of a list only takes the due timers of that list off.
LEMMA Fired ==
    ASSUME TimerTypes, NEW from, NEW mt, NEW mw, NEW at, NEW aw,
           place' = Visited(from, mt, mw, at, aw),
           left' = Forget(left, place'), interval' = Forget(interval, place'),
           NEW t \in Timer, Armed(t), place'[t] = Idle
    PROVE  Due(t)
<1>1. /\ place[t] # from => place'[t] = place[t]
      /\ place[t] = from /\ ~Due(t) => place'[t] = Slot(interval[t], mt, mw, at, aw)
  BY Visit
<1> QED BY <1>1, SlotArmed DEF Armed

(* tx_timer_polling activates the task of a timer only in a window around    *)
(* its deadline: at most a minor slot ahead, at most Lateness and the stall  *)
(* before the poll behind.                                                   *)
THEOREM TimerFiringWindow == Spec => FiringWindow
<1>1. ASSUME IndInv, [Next]_vars, NEW t \in Timer, pc # "idle", Armed(t), place'[t] = Idle
      PROVE  left[t] < MIN_TIME_OUT /\ left[t] > -(Lateness + MaxStall)
  <2>1. TimerTypes
    BY <1>1 DEF IndInv
  <2>2. Due(t)
    <3>1. CASE MiTurn
      BY <1>1, <2>1, <3>1, Fired DEF MiTurn
    <3>2. CASE MaTurn
      BY <1>1, <2>1, <3>2, Fired DEF MaTurn
    <3>3. CASE StScan
      <4>1. CASE Elapsed(st_tick, MIN_ST_TIMER)
        BY <1>1, <2>1, <3>3, <4>1, Fired DEF StScan
      <4>2. CASE ~Elapsed(st_tick, MIN_ST_TIMER)
        BY <1>1, <3>3, <4>2 DEF StScan, Armed
      <4> QED BY <4>1, <4>2
    <3>4. CASE place' = place
      BY <1>1, <3>4 DEF Armed
    <3> QED BY <1>1, <3>1, <3>2, <3>3, <3>4
         DEF Next, PollStep, vars, Advance, PollSleep, Stop, Reset, tx_getticks, PollBegin,
             MiDone, MaDone, PollEnd
  <2>3. left[t] < MIN_TIME_OUT
    <3>1. pc # "idle" => (Due(t) <=> left[t] < MIN_TIME_OUT)
      BY <1>1, Deadlines
    <3> QED BY <1>1, <2>2, <3>1, Zenon
  <2>4. /\ MaxStall \in Nat /\ Lag < MIN_TIME_OUT + MaxStall /\ MaLag < MIN_MA_TIMER + MaxStall
        /\ StLag < MIN_ST_TIMER + MaxStall
    BY <1>1, Constants DEF IndInv, LagInv
  <2>5. left[t] > -(Lateness + MaxStall)
    BY <1>1, <2>4, LateBound
  <2> QED BY <2>3, <2>5
<1>2. IndInv /\ [Next]_vars =>
        [\A t \in Timer : pc # "idle" /\ Armed(t) /\ place'[t] = Idle
            => left[t] < MIN_TIME_OUT /\ left[t] > -(Lateness + MaxStall)]_vars
  BY <1>1
<1> QED BY <1>2, TimerInvariant, PTL DEF Spec, FiringWindow
===============================================================================
