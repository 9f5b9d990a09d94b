------------------------------- MODULE TxTimer -------------------------------
(***************************************************************************)
(* The timer ring of libtx (tx_timer.cpp) and tx_getticks.                 *)
(*                                                                         *)
(* A timer is on a slot of the minor wheel (one slot per MIN_TIME_OUT), of *)
(* the major wheel (one slot per turn of the minor one), or on the list of *)
(* the far ones.  tx_timer_polling turns the wheels up to the current      *)
(* tick; one action is one turn of one of its while loops.                 *)
(*                                                                         *)
(* Ticks keep their widths: unsigned int modulo TickMod, size_t modulo     *)
(* SizeMod.  True time appears only in the history variable left.          *)
(***************************************************************************)
EXTENDS Integers, FiniteSets

CONSTANTS Timer,
          MIN_TIME_OUT, MAX_MI_WHEEL, MAX_MA_WHEEL,
          TickMod,     \* 2^32: the range of unsigned int
          SizeMods,    \* 2^32 and 2^64: the ranges of size_t among the builds
          Start,       \* ticks at which the ring may be created
          Delay,       \* arguments of tx_timer_reset
          Step,        \* steps of the clock
          MaxStall,    \* bound on the time from one poll of the ring to the next
          Horizon      \* bound on tx_mi_tick, for a size_t that never wraps

MIN_MA_TIMER == MIN_TIME_OUT * MAX_MI_WHEEL
MIN_ST_TIMER == MIN_MA_TIMER * MAX_MA_WHEEL

ASSUME TimerAssumption ==
    /\ MIN_TIME_OUT \in Nat \ {0}
    /\ MAX_MI_WHEEL \in Nat \ {0, 1} /\ MAX_MA_WHEEL \in Nat \ {0, 1}
    /\ TickMod \in Nat \ {0} /\ TickMod % 2 = 0
    /\ \A m \in SizeMods : m \in Nat \ {0} /\ m % TickMod = 0
    /\ Start \subseteq 0..(TickMod - 1)
    /\ Delay \subseteq Nat /\ Step \subseteq Nat \ {0}
    /\ MaxStall \in Nat /\ Horizon \in Nat
    \* (int) differences of ticks keep their sign
    /\ 2 * (MaxStall + MIN_ST_TIMER + MIN_TIME_OUT) < TickMod
    /\ \A d \in Delay : 2 * (d + MaxStall + MIN_ST_TIMER + MIN_TIME_OUT) < TickMod

VARIABLES
    SizeMod,    \* the range of size_t of this build; it never changes
    now,        \* CLOCK_MONOTONIC in milliseconds, modulo TickMod (external)
    tx_ticks,   \* the global tx_ticks: the clock when it was last read
    interval,   \* tx_timer_t.interval
    place,      \* the list a timer is on; <<"idle", 0>> is TIMER_IDLE
    mi_tick, mi_wheel,  \* of tx_timer_ring; the wheel modulo MAX_MI_WHEEL
    ma_tick, ma_wheel,  \* of tx_timer_ring; the wheel modulo MAX_MA_WHEEL
    st_tick,    \* of tx_timer_ring
    pc,         \* "idle", or the part of tx_timer_polling that runs
    left        \* history: true time until the deadline of an armed timer

vars == <<SizeMod, now, tx_ticks, interval, place, mi_tick, mi_wheel, ma_tick, ma_wheel,
          st_tick, pc, left>>

ringVars == <<SizeMod, mi_tick, mi_wheel, ma_tick, ma_wheel, st_tick>>

Idle == <<"idle", 0>>
Far == <<"st", 0>>

Armed(t) == place[t] # Idle
-----------------------------------------------------------------------------
(* Arithmetic of the code.                                                 *)

\* (int)n
Signed(n) == LET m == n % TickMod IN IF 2 * m < TickMod THEN m ELSE m - TickMod

\* Mutant: no cast, so that the difference of unsigned values is never negative.
ElapsedUnsigned(since, span) == (tx_ticks - since - span) % TickMod >= 0

\* (int)(ticks - since - span) >= 0
Elapsed(since, span) == Signed(tx_ticks - since - span) >= 0

\* Mutant: a timer of the major wheel's granularity counts as due.
DueCoarse(t) == Signed(interval[t] - tx_ticks - MIN_MA_TIMER) < 0

\* (int)(cur->interval - ticks - MIN_TIME_OUT) < 0
Due(t) == Signed(interval[t] - tx_ticks - MIN_TIME_OUT) < 0

\* Mutant: no minimum of one slot.
SlotNoMinimum(iv, mt, mw, at, aw) ==
    LET mi == ((iv - mt) % SizeMod) \div MIN_TIME_OUT
        ma == ((iv - at) % SizeMod) \div MIN_MA_TIMER
    IN  CASE mi < MAX_MI_WHEEL -> <<"mi", (mw + mi) % MAX_MI_WHEEL>>
          [] mi >= MAX_MI_WHEEL /\ ma < MAX_MA_WHEEL -> <<"ma", (aw + ma) % MAX_MA_WHEEL>>
          [] OTHER -> Far

\* The list tx_timer_reset inserts into, for interval iv and a ring at ticks mt,
\* at and wheels mw, aw.
Slot(iv, mt, mw, at, aw) ==
    LET raw == ((iv - mt) % SizeMod) \div MIN_TIME_OUT
        mi  == IF raw = 0 THEN 1 ELSE raw
        ma  == ((iv - at) % SizeMod) \div MIN_MA_TIMER
    IN  CASE mi < MAX_MI_WHEEL -> <<"mi", (mw + mi) % MAX_MI_WHEEL>>
          [] mi >= MAX_MI_WHEEL /\ ma < MAX_MA_WHEEL -> <<"ma", (aw + ma) % MAX_MA_WHEEL>>
          [] OTHER -> Far

\* What polling does to each timer of the list it took: its task is activated,
\* or tx_timer_reset(cur, cur->interval - ticks), which keeps its interval.
Visited(from, mt, mw, at, aw) ==
    [t \in Timer |->
        IF place[t] # from THEN place[t]
        ELSE IF Due(t) THEN Idle ELSE Slot(interval[t], mt, mw, at, aw)]

\* interval of an idle timer is dead (tx_timer_reset sets it before any read):
\* it and left are kept at 0.
Forget(f, p) == [t \in Timer |-> IF p[t] = Idle THEN 0 ELSE f[t]]
-----------------------------------------------------------------------------
\* tx_timer_ring_new, with tx_timer_init of every timer.
Init ==
    /\ SizeMod \in SizeMods
    /\ now \in Start
    /\ tx_ticks = now
    /\ interval = [t \in Timer |-> 0]
    /\ place = [t \in Timer |-> Idle]
    /\ mi_tick = now /\ mi_wheel = 0
    /\ ma_tick = now /\ ma_wheel = 0
    /\ st_tick = now
    /\ pc = "idle"
    /\ left = [t \in Timer |-> 0]

Stale == (now - tx_ticks) % TickMod

Lag == (now - mi_tick) % TickMod

\* Time passes while tasks run or other pollers sleep.
Advance(d) ==
    /\ pc = "idle"
    /\ Lag + d <= MaxStall
    /\ mi_tick + MaxStall <= Horizon
    /\ now' = (now + d) % TickMod
    /\ left' = [t \in Timer |-> IF Armed(t) THEN left[t] - d ELSE 0]
    /\ UNCHANGED <<tx_ticks, interval, place, ringVars, pc>>

\* Application code reads the clock.
tx_getticks ==
    /\ pc = "idle"
    /\ tx_ticks' = now
    /\ UNCHANGED <<now, interval, place, ringVars, pc, left>>

\* timer->interval, an unsigned int, counted from the cached tx_ticks and not
\* from the clock.
Deadline(umilsec) == (tx_ticks + umilsec) % TickMod

\* Mutant: a timer that is armed already keeps its slot.
NewPlaceIfIdle(t, iv) ==
    IF Armed(t) THEN place[t] ELSE Slot(iv, mi_tick, mi_wheel, ma_tick, ma_wheel)

NewPlace(t, iv) == Slot(iv, mi_tick, mi_wheel, ma_tick, ma_wheel)

\* tx_timer_reset of an idle timer, or of an armed one, which leaves its list.
Reset(t, umilsec) ==
    /\ pc = "idle"
    /\ interval' = [interval EXCEPT ![t] = Deadline(umilsec)]
    /\ place' = [place EXCEPT ![t] = NewPlace(t, Deadline(umilsec))]
    /\ left' = [left EXCEPT ![t] = umilsec - Stale]
    /\ UNCHANGED <<now, tx_ticks, ringVars, pc>>

\* tx_timer_stop, and tx_timer_drain, which also activates the timer's task.
Stop(t) ==
    /\ pc = "idle"
    /\ Armed(t)
    /\ place' = [place EXCEPT ![t] = Idle]
    /\ left' = Forget(left, place')
    /\ interval' = Forget(interval, place')
    /\ UNCHANGED <<now, tx_ticks, ringVars, pc>>
-----------------------------------------------------------------------------
(* tx_timer_polling.                                                       *)

PollBegin ==
    /\ pc = "idle"
    /\ tx_ticks' = now
    /\ pc' = "mi"
    /\ UNCHANGED <<now, interval, place, ringVars, left>>

MiTurn ==
    /\ pc = "mi"
    /\ Elapsed(mi_tick, MIN_TIME_OUT)
    /\ mi_tick' = (mi_tick + MIN_TIME_OUT) % SizeMod
    /\ mi_wheel' = (mi_wheel + 1) % MAX_MI_WHEEL
    /\ place' = Visited(<<"mi", mi_wheel'>>, mi_tick', mi_wheel', ma_tick, ma_wheel)
    /\ left' = Forget(left, place')
    /\ interval' = Forget(interval, place')
    /\ UNCHANGED <<SizeMod, now, tx_ticks, ma_tick, ma_wheel, st_tick, pc>>

MiDone ==
    /\ pc = "mi"
    /\ ~Elapsed(mi_tick, MIN_TIME_OUT)
    /\ pc' = "ma"
    /\ UNCHANGED <<now, tx_ticks, interval, place, ringVars, left>>

MaTurn ==
    /\ pc = "ma"
    /\ Elapsed(ma_tick, MIN_MA_TIMER)
    /\ ma_tick' = (ma_tick + MIN_MA_TIMER) % SizeMod
    /\ ma_wheel' = (ma_wheel + 1) % MAX_MA_WHEEL
    /\ place' = Visited(<<"ma", ma_wheel'>>, mi_tick, mi_wheel, ma_tick', ma_wheel')
    /\ left' = Forget(left, place')
    /\ interval' = Forget(interval, place')
    /\ UNCHANGED <<SizeMod, now, tx_ticks, mi_tick, mi_wheel, st_tick, pc>>

MaDone ==
    /\ pc = "ma"
    /\ ~Elapsed(ma_tick, MIN_MA_TIMER)
    /\ pc' = "st"
    /\ UNCHANGED <<now, tx_ticks, interval, place, ringVars, left>>

\* The list of far timers, at most once per poll.
StScan ==
    /\ pc = "st"
    /\ IF Elapsed(st_tick, MIN_ST_TIMER)
       THEN /\ st_tick' = tx_ticks
            /\ place' = Visited(Far, mi_tick, mi_wheel, ma_tick, ma_wheel)
            /\ left' = Forget(left, place')
            /\ interval' = Forget(interval, place')
       ELSE UNCHANGED <<st_tick, place, interval, left>>
    /\ pc' = "end"
    /\ UNCHANGED <<SizeMod, now, tx_ticks, mi_tick, mi_wheel, ma_tick, ma_wheel>>

\* tx_loop_timeout says 0: no sleep.
PollEnd ==
    /\ pc = "end"
    /\ pc' = "idle"
    /\ UNCHANGED <<now, tx_ticks, interval, place, ringVars, left>>

\* usleep, then tx_getticks: the cached tick runs ahead of the wheels.
PollSleep(d) ==
    /\ pc = "end"
    /\ Lag + d <= MaxStall
    /\ mi_tick + MaxStall <= Horizon
    /\ now' = (now + d) % TickMod
    /\ tx_ticks' = now'
    /\ left' = [t \in Timer |-> IF Armed(t) THEN left[t] - d ELSE 0]
    /\ pc' = "idle"
    /\ UNCHANGED <<interval, place, ringVars>>

PollStep == MiTurn \/ MiDone \/ MaTurn \/ MaDone \/ StScan

Next ==
    \/ \E d \in Step : Advance(d) \/ PollSleep(d)
    \/ \E t \in Timer : Stop(t) \/ \E ms \in Delay : Reset(t, ms)
    \/ tx_getticks
    \/ PollBegin \/ PollStep \/ PollEnd

Spec == Init /\ [][Next]_vars

\* A callback of the loop runs to its end.
FairSpec == Spec /\ WF_vars(PollStep) /\ WF_vars(PollEnd)
-----------------------------------------------------------------------------
(* Properties.                                                             *)

\* How late a timer may be: a turn of the minor wheel where size_t is as wide as the
\* tick, but a whole scan period of the far list where it is wider, because tx_mi_tick
\* then runs past the range of interval when the tick wraps.
Lateness == IF SizeMod = TickMod THEN MIN_MA_TIMER ELSE MIN_ST_TIMER

\* When a poll has turned the wheels, no timer is left on a list Lateness or more
\* after its deadline: no slot is missed, whatever the phases of the three ticks,
\* stalls of the loop, and the wrap of the tick counter.
NeverLate == pc = "end" => \A t \in Timer : Armed(t) => left[t] > -Lateness

\* A poll activates a timer's task neither MIN_TIME_OUT or more ahead of the
\* deadline nor, beyond the stall before it, Lateness late.
FiringWindow ==
    [][\A t \in Timer : pc # "idle" /\ Armed(t) /\ place'[t] = Idle
          => left[t] < MIN_TIME_OUT /\ left[t] > -(Lateness + MaxStall)]_vars

\* The timers that an unfinished turn would strand: one on the slot the wheel is
\* at is only seen again after a whole turn.
NothingBehindTheWheel ==
    pc # "mi" => \A t \in Timer : place[t] # <<"mi", mi_wheel>>

\* A poll ends: its while loops catch up with the clock, across the wrap too.
PollTerminates == pc # "idle" ~> pc = "idle"
===============================================================================
