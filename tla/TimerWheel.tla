----------------------------- MODULE TimerWheel -----------------------------
(***************************************************************************)
(* The four-level timer wheel of timer/timer_wheel.c, with its two users   *)
(* in one thread: coroutines in coco_sleep() and the owners of coco_timer  *)
(* callbacks, and with the idle part of coco_sched_run() that ticks it and *)
(* asks it how long to wait.                                               *)
(*                                                                         *)
(* Time is kept relative: `lag' is the real time since the wheel's         *)
(* current_time_ms, `left' of a timer is expire_time_ms - current_time_ms, *)
(* and the four tick counters are kept modulo the size of their level,     *)
(* which is all the code uses of them.  A slot's list is the set of timers *)
(* that carry its level and slot.  A timer that is overdue has left = -1:  *)
(* how long it is overdue does not change the slot it is given.            *)
(***************************************************************************)
EXTENDS Integers, FiniteSets

CONSTANTS
    Sleeper,    \* coroutines that call coco_sleep()
    Owner,      \* owners of coco_timer() callbacks, one timer each
    Pool,       \* timer_pool
    Heap,       \* the timers calloc() can still provide
    Nobody,     \* the user of a free timer
    Size,       \* Size[k]: slots of level k (256, 64, 64, 64 in the code)
    Word,       \* 2^64, scaled: delays are unsigned
    Delays,     \* the delays asked for
    Lags        \* bounds on the time between two ticks, one chosen per behaviour

Level == 1..4
Timer == Pool \cup Heap
User == Sleeper \cup Owner

ASSUME WheelAssumption ==
    /\ Nobody \notin User
    /\ Size \in [Level -> Nat \ {0}]
    /\ Delays \subseteq 0..(Word \div 2)
    /\ Lags \subseteq Nat \ {0}

VARIABLES
    timer,      \* the timers: level (0 when free), slot, left, user
    tick,       \* w1_tick .. w4_tick, each modulo its level's size
    lag,        \* now - current_time_ms
    asleep,     \* the coroutines that are WAITING in coco_sleep()
    pc,         \* "run": coroutines run; "poll": the loop is about to wait; "end"
    maxlag      \* the bound on lag in this behaviour

vars == <<timer, tick, lag, asleep, pc, maxlag>>

Free == [level |-> 0, slot |-> 0, left |-> 0, user |-> Nobody]

\* The values the state can take; in particular every slot index is within
\* the array of its level.
TypeOK ==
    /\ \A n \in Timer :
         \/ timer[n] = Free
         \/ /\ timer[n].level \in Level
            /\ timer[n].slot \in 0..(Size[timer[n].level] - 1)
            /\ timer[n].left \in -1..(Word \div 2)
            /\ timer[n].user \in User
    /\ \A k \in Level : tick[k] \in 0..(Size[k] - 1)
    /\ lag \in 0..maxlag
    /\ asleep \subseteq Sleeper
    /\ pc \in {"run", "poll", "end"}
    /\ maxlag \in Lags

-----------------------------------------------------------------------------
(* Where a timer goes.                                                     *)

\* The time one slot of level k stands for.
Grain(k) == CASE k = 1 -> 1
              [] k = 2 -> Size[1]
              [] k = 3 -> Size[1] * Size[2]
              [] OTHER -> Size[1] * Size[2] * Size[3]

\* place_timer() and add_timer_to_wheel(): the level whose range the delay
\* falls in, and the slot that many grains ahead of the level's tick.
place_timer(t, tk) ==
    LET delay == t.left % Word
        k == CASE delay < Grain(2) -> 1
               [] delay < Grain(3) -> 2
               [] delay < Grain(4) -> 3
               [] OTHER -> 4
    IN  [t EXCEPT !.level = k, !.slot = (tk[k] + delay \div Grain(k)) % Size[k]]

\* timer_alloc(): a timer of the pool, else one from calloc(), else none.
timer_alloc ==
    LET free(S) == {n \in S : timer[n] = Free}
    IN  IF free(Pool) # {} THEN {CHOOSE n \in Pool : timer[n] = Free}
        ELSE IF free(Heap) # {} THEN {CHOOSE n \in Heap : timer[n] = Free}
        ELSE {}

\* What coco_timer(), coco_timer_ex() and coco_timer_add() do alike.  The
\* delay counts from current_time_ms, which is `lag' older than now.
NewTimer(u, d) ==
    timer' = [n \in Timer |->
                IF n \in timer_alloc
                THEN place_timer([Free EXCEPT !.left = d, !.user = u], tick)
                ELSE timer[n]]

-----------------------------------------------------------------------------
(* The operations.                                                         *)

\* coco_sleep(): the coroutine waits even if it got no timer.
coco_sleep(c, d) ==
    /\ pc = "run"
    /\ c \notin asleep
    /\ NewTimer(c, d)
    /\ asleep' = asleep \cup {c}
    /\ UNCHANGED <<tick, lag, pc, maxlag>>

\* coco_timer() and coco_timer_ex(): the owner keeps the timer, or NULL.
coco_timer(o, d) ==
    /\ pc = "run"
    /\ \A n \in Timer : timer[n].user # o
    /\ NewTimer(o, d)
    /\ UNCHANGED <<tick, lag, asleep, pc, maxlag>>

\* Mutant of coco_timer_cancel: an upper-level timer stays linked.
coco_timer_cancel_Level1Only(n) ==
    /\ pc = "run"
    /\ timer[n].user \in Owner
    /\ timer' = [timer EXCEPT ![n] = IF @.level = 1 THEN Free
                                     ELSE [@ EXCEPT !.user = Nobody]]
    /\ UNCHANGED <<tick, lag, asleep, pc, maxlag>>

\* coco_timer_cancel() on a timer that has not fired: unlinked and freed.
coco_timer_cancel(n) ==
    /\ pc = "run"
    /\ timer[n].user \in Owner
    /\ timer' = [timer EXCEPT ![n] = Free]
    /\ UNCHANGED <<tick, lag, asleep, pc, maxlag>>

\* coco_timer_wheel_destroy(), from coco_sched_destroy(): every timer still
\* linked is freed, and the coroutines that sleep are freed with the scheduler.
coco_timer_wheel_destroy ==
    /\ pc = "run"
    /\ timer' = [n \in Timer |-> Free]
    /\ asleep' = {}
    /\ pc' = "end"
    /\ UNCHANGED <<tick, lag, maxlag>>

\* Coroutines run and the clock goes on.
Work ==
    /\ pc = "run"
    /\ lag < maxlag
    /\ lag' = lag + 1
    /\ UNCHANGED <<timer, tick, asleep, pc, maxlag>>

-----------------------------------------------------------------------------
(* coco_timer_tick().                                                      *)

\* Mutant of W1Slots: the tick stops one slot short.
W1Slots_OneShort(e) == {(tick[1] + i) % Size[1] : i \in 0..(e - 2)}

\* The W1 slots process_w1_range() empties after e milliseconds.
W1Slots(e) == {(tick[1] + i) % Size[1] : i \in 0..(e - 1)}


\* cascade_timers(), for one timer: placed anew if it is in the current slot
\* of the level.  The timers of a slot do not affect each other.
cascade_timers(w, k) ==
    IF w.t.level = k /\ w.t.slot = w.tk[k]
    THEN [w EXCEPT !.t = place_timer(w.t, w.tk)] ELSE w

\* wk_tick++ and the cascade of the slot it now points to.
Advance(w, k) ==
    cascade_timers([w EXCEPT !.tk = [@ EXCEPT ![k] = (@ + 1) % Size[k]]], k)

\* One turn of the cascade loop: W2, at its end W3, at its end W4.
CascadeRound(w) ==
    LET w2 == Advance(w, 2)
        w3 == Advance(w2, 3)
    IN  IF w2.tk[2] # 0 THEN w2 ELSE IF w3.tk[3] # 0 THEN w3 ELSE Advance(w3, 4)

\* How often W1 has turned over after e milliseconds.
Turns(e) == (tick[1] + e) \div Size[1]

\* The clock's new value in a timer; an overdue one is -1.
Elapse(t, e) == [t EXCEPT !.left = IF @ < e THEN -1 ELSE @ - e]

\* coco_timer_tick() after e ms, for one timer: it fires if it is in a W1
\* slot passed over; else W2 to W4 cascade once per turn of W1, after which
\* the same W1 slots fire again.  Gives the timer and the ticks.
Ticked(t, e) ==
    LET tk == [tick EXCEPT ![1] = (@ + e) % Size[1]]
        fires(u) == u.level = 1 /\ u.slot \in W1Slots(e)
        start == [t |-> IF t = Free \/ fires(t) THEN Free ELSE Elapse(t, e), tk |-> tk]
        round[j \in 0..Turns(e)] == IF j = 0 THEN start ELSE CascadeRound(round[j - 1])
        end == round[Turns(e)]
    IN  IF Turns(e) > 0 /\ fires(end.t) THEN [end EXCEPT !.t = Free] ELSE end

\* coco_timer_tick() in the loop of coco_sched_run(), which goes on to wait
\* if no coroutine became ready.
coco_timer_tick ==
    /\ pc = "run"
    /\ lag > 0
    /\ timer' = [n \in Timer |-> Ticked(timer[n], lag).t]
    /\ tick' = Ticked(Free, lag).tk
    /\ LET woken == {timer[n].user : n \in {m \in Timer : timer'[m] = Free}} \cap asleep
       IN  /\ asleep' = asleep \ woken
           /\ pc' = IF woken = {} THEN "poll" ELSE "run"
    /\ lag' = 0
    /\ UNCHANGED maxlag

-----------------------------------------------------------------------------
(* How long to wait.                                                       *)

Occupied(k) == {timer[n].slot : n \in {m \in Timer : timer[m].level = k}}

\* coco_timer_wheel_next_expire(), from current_time_ms: the first occupied
\* slot by index of the lowest level that has one.
next_expire ==
    LET k == CHOOSE k \in Level : Occupied(k) # {} /\ \A j \in 1..(k-1) : Occupied(j) = {}
        i == CHOOSE i \in Occupied(k) : \A j \in Occupied(k) : i <= j
    IN  ((i - tick[k] + Size[k]) % Size[k]) * Grain(k)

\* The wait of coco_sched_run(): it ends at the timeout, or before it with
\* an I/O event; without a timer only an event ends it.
PollWait ==
    /\ pc = "poll"
    /\ \E w \in 0..maxlag :
         /\ lag + w <= maxlag
         /\ (\E n \in Timer : timer[n].level # 0) =>
               w <= (IF next_expire > lag THEN next_expire - lag ELSE 0)
         /\ lag' = lag + w
    /\ pc' = "run"
    /\ UNCHANGED <<timer, tick, asleep, maxlag>>

-----------------------------------------------------------------------------

Init ==
    /\ timer = [n \in Timer |-> Free]
    /\ tick = [k \in Level |-> 0]
    /\ lag = 0
    /\ asleep = {}
    /\ pc = "run"
    /\ maxlag \in Lags

Next ==
    \/ \E c \in Sleeper, d \in Delays : coco_sleep(c, d)
    \/ \E o \in Owner, d \in Delays : coco_timer(o, d)
    \/ \E n \in Timer : coco_timer_cancel(n)
    \/ coco_timer_wheel_destroy
    \/ Work
    \/ coco_timer_tick
    \/ PollWait

Spec == Init /\ [][Next]_vars

-----------------------------------------------------------------------------
(* Properties.                                                             *)

\* Every timer handed out and not yet fired or cancelled is linked in
\* exactly one slot, no slot holds a timer nobody waits for, and no user has
\* two timers: nothing is leaked or fired twice by the two passes over W1
\* and the three cascades.
LinkedWhilePending ==
    /\ \A n \in Timer : timer[n].level = 0 <=> timer[n].user = Nobody
    /\ \A n \in Timer : timer[n].user \in Sleeper => timer[n].user \in asleep
    /\ \A n, m \in Timer : timer[n].user = timer[m].user /\ n # m => timer[n].level = 0

\* (Only a tick makes lag smaller.)  A timer that is in W1 then fires in that tick if and only
\* if its time is past, however many slots the tick runs over, W1 wrapping
\* around included.
Level1OnTime ==
    [][\A n \in Timer :
         lag' < lag /\ timer[n].level = 1
           => (timer'[n] = Free <=> timer[n].left < lag)]_vars

\* While the loop comes round every millisecond, no pending timer of any
\* level is ever overdue: the cascades bring each one down to W1 in time.
NeverLate ==
    maxlag = 1 => \A n \in Timer : timer[n].level # 0 => timer[n].left >= 0

\* A timer that is pending will fire, and in time if the loop ticks in time.
TimersKept == TypeOK /\ LinkedWhilePending /\ NeverLate

\* "Milliseconds to sleep": a timer does not fire before its time.
NeverEarly ==
    [][\A n \in Timer :
         lag' < lag /\ timer[n].level # 0 /\ timer'[n] = Free
           => timer[n].left <= lag]_vars
=============================================================================
