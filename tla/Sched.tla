------------------------------- MODULE Sched -------------------------------
(***************************************************************************)
(* The single-threaded scheduler: core/coro.c, with coco_cancel            *)
(* (core/cancel.c), coco_sleep (io/event_loop.c) and the parts of the      *)
(* timer wheel and of the epoll back end through which a waiting coroutine *)
(* becomes ready again.                                                    *)
(*                                                                         *)
(* Control is either in the program that owns the scheduler (pc = "main"), *)
(* in the scheduler's loop (every other value of pc but "coro"), or in the *)
(* running coroutine (pc = "coro"), which may call any operation of the    *)
(* API.  The four intrusive ready lists are sequences; the three redundant *)
(* views the code keeps of them (bitmap, counts, total) are variables.     *)
(*                                                                         *)
(* Time: `age' is now - ready_timestamp and `lag' is now - current_time_ms *)
(* of the wheel; the code only compares them with bounded values, so both  *)
(* saturate just above the largest value they are compared with.           *)
(***************************************************************************)
EXTENDS Integers, Sequences, FiniteSets

CONSTANTS
    Coro,             \* the coroutines the program may create
    None,             \* the NULL coroutine pointer
    AgingThreshold,   \* aging_threshold_ms (100 in the code)
    AgingInterval,    \* AGING_CHECK_INTERVAL (100 in the code)
    MaxSleep,         \* the longest coco_sleep(), in ms
    MaxTimers,        \* bound on the timers pending for one coroutine
    MainOps,          \* what the owner of the scheduler calls
    CoroOps,          \* what the coroutines call
    CancelSleeping    \* whether a coroutine inside coco_sleep() is cancelled

ASSUME SchedAssumption ==
    /\ None \notin Coro
    /\ AgingThreshold \in Nat \ {0}
    /\ AgingInterval \in Nat \ {0}
    /\ MaxSleep \in Nat
    /\ MaxTimers \in Nat
    /\ CancelSleeping \in BOOLEAN

Prio == 0..3
HIGH == 0
NORMAL == 1

States == {"NONE", "READY", "RUNNING", "WAITING", "DEAD",
           "OVERFLOW", "OVERFLOW_RESUME", "FREED"}

\* Where control can be: in the owner, in the loop of coco_sched_run(), in
\* apply_aging(), in the rest of dequeue_ready(), in the coroutine, in
\* handle_coro_return(), in coco_timer_tick(), in epoll_wait(), after
\* coco_sched_destroy(), and after a NULL pointer was dereferenced.
Places == {"main", "loop", "age", "pick", "coro", "ret", "tick", "poll", "end", "crash"}

VARIABLES
    state,            \* coro->state; NONE before coco_create, FREED after free
    priority,         \* coro->priority
    cancelled,        \* coro->cancelled
    age,              \* now - coro->ready_timestamp, saturated
    joining,          \* the coroutine a coco_join() in progress waits for
    ready,            \* the lists ready_heads[p] .. ready_tails[p]
    ready_counts,     \* their lengths, as the code counts them
    ready_count,      \* the total, as the code counts it
    ready_bitmap,     \* the set of bits that are 1
    coro_count,       \* coroutines not yet finished, as the code counts them
    dequeue_count,    \* dequeues since the last aging pass
    table,            \* the coroutines coro_table points to
    frees,            \* how often free() was called on a coroutine
    timers,           \* per coroutine, the delays left of its wheel timers
    lag,              \* now - timer_wheel->current_time_ms, saturated
    polled,           \* the coroutines the fd_table points to
    self,             \* g_current_coro, what coco_self() returns
    current,          \* sched->current, the last coroutine switched to
    pc,               \* where control is
    scan,             \* the level apply_aging() is at
    once              \* control came from coco_sched_run_once()

queueVars == <<ready, ready_counts, ready_count, ready_bitmap>>
memVars == <<table, frees>>
waitVars == <<timers, polled>>
vars == <<state, priority, cancelled, age, joining, queueVars, coro_count,
          dequeue_count, memVars, waitVars, lag, self, current, pc, scan, once>>

-----------------------------------------------------------------------------
(* The ready lists.                                                        *)

Least(S) == CHOOSE x \in S : \A y \in S : x =< y

\* The list s without its element i.
Unlink(s, i) == [j \in 1..(Len(s) - 1) |-> IF j < i THEN s[j] ELSE s[j + 1]]

\* Mutant of enqueue_ready: it joins the head of the list.
enqueue_ready_AtHead(c) ==
    /\ state' = [state EXCEPT ![c] = "READY"]
    /\ age' = [age EXCEPT ![c] = 0]
    /\ ready' = [ready EXCEPT ![priority[c]] = <<c>> \o @]
    /\ ready_counts' = [ready_counts EXCEPT ![priority[c]] = @ + 1]
    /\ ready_count' = ready_count + 1
    /\ ready_bitmap' = ready_bitmap \cup {priority[c]}

\* enqueue_ready(): becomes READY, joins the tail of its level's list.
enqueue_ready(c) ==
    /\ state' = [state EXCEPT ![c] = "READY"]
    /\ age' = [age EXCEPT ![c] = 0]
    /\ ready' = [ready EXCEPT ![priority[c]] = Append(@, c)]
    /\ ready_counts' = [ready_counts EXCEPT ![priority[c]] = @ + 1]
    /\ ready_count' = ready_count + 1
    /\ ready_bitmap' = ready_bitmap \cup {priority[c]}

\* Mutant of MoveLevel: the bit of the level left is never cleared.
MoveLevel_KeepsBit(p, i, q) ==
    LET c == ready[p][i]
    IN  /\ priority' = [priority EXCEPT ![c] = q]
        /\ ready' = [ready EXCEPT ![p] = Unlink(@, i), ![q] = Append(@, c)]
        /\ ready_counts' = [ready_counts EXCEPT ![p] = @ - 1, ![q] = @ + 1]
        /\ ready_bitmap' = ready_bitmap \cup {q}
        /\ UNCHANGED ready_count

\* What apply_aging() and coco_set_priority() both do: take element i off
\* the list of level p and put it at the tail of the list of level q.
MoveLevel(p, i, q) ==
    LET c == ready[p][i]
        rest == Unlink(ready[p], i)
    IN  /\ priority' = [priority EXCEPT ![c] = q]
        /\ ready' = [ready EXCEPT ![p] = rest, ![q] = Append(@, c)]
        /\ ready_counts' = [ready_counts EXCEPT ![p] = @ - 1, ![q] = @ + 1]
        /\ ready_bitmap' = (IF rest = <<>> THEN ready_bitmap \ {p}
                                           ELSE ready_bitmap) \cup {q}
        /\ UNCHANGED ready_count

-----------------------------------------------------------------------------
(* The loop of coco_sched_run() and the single pass of                     *)
(* coco_sched_run_once().                                                  *)

coco_sched_run ==
    /\ pc = "main"
    /\ "run" \in MainOps
    /\ coro_count > 0
    /\ pc' = "loop"
    /\ once' = FALSE
    /\ UNCHANGED <<state, priority, cancelled, age, joining, queueVars, coro_count,
                   dequeue_count, memVars, waitVars, lag, self, current, scan>>

coco_sched_run_once ==
    /\ pc = "main"
    /\ "run_once" \in MainOps
    /\ ready_count # 0
    /\ pc' = "loop"
    /\ once' = TRUE
    /\ UNCHANGED <<state, priority, cancelled, age, joining, queueVars, coro_count,
                   dequeue_count, memVars, waitVars, lag, self, current, scan>>

\* dequeue_ready(), first half: every AgingInterval-th call ages the lists.
dequeue_begin ==
    LET due == dequeue_count + 1 >= AgingInterval
    IN  /\ pc = "loop"
        /\ ready_count > 0
        /\ dequeue_count' = IF due THEN 0 ELSE dequeue_count + 1
        /\ pc' = IF due THEN "age" ELSE "pick"
        /\ scan' = IF due THEN 3 ELSE scan
        /\ UNCHANGED <<state, priority, cancelled, age, joining, queueVars,
                       coro_count, memVars, waitVars, lag, self, current, once>>

\* Mutant of Aged: no aging at all.
Aged_Never(c) == FALSE

Aged(c) == age[c] >= AgingThreshold

\* apply_aging(), loop body: the next coroutine of level `scan' that has
\* waited long enough goes up one level.
apply_aging_promote ==
    /\ pc = "age"
    /\ \E i \in DOMAIN ready[scan] :
          /\ Aged(ready[scan][i])
          /\ \A j \in 1..(i - 1) : ~Aged(ready[scan][j])
          /\ MoveLevel(scan, i, scan - 1)
          /\ age' = [age EXCEPT ![ready[scan][i]] = 0]
    /\ UNCHANGED <<state, cancelled, joining, coro_count, dequeue_count, memVars,
                   waitVars, lag, self, current, pc, scan, once>>

\* apply_aging(), outer loop: nothing more to promote at this level.
apply_aging_next ==
    /\ pc = "age"
    /\ \A i \in DOMAIN ready[scan] : ~Aged(ready[scan][i])
    /\ pc' = IF scan > 1 THEN "age" ELSE "pick"
    /\ scan' = IF scan > 1 THEN scan - 1 ELSE scan
    /\ UNCHANGED <<state, priority, cancelled, age, joining, queueVars, coro_count,
                   dequeue_count, memVars, waitVars, lag, self, current, once>>

\* dequeue_ready(), second half, and switch_to_coro().  A NULL result is
\* dereferenced by switch_to_coro(): pc = "crash".
dequeue_and_switch ==
    LET p == Least(ready_bitmap)
        c == Head(ready[p])
    IN  /\ pc = "pick"
        /\ IF ready_bitmap = {} \/ ready[p] = <<>>
           THEN /\ pc' = "crash"
                /\ UNCHANGED <<state, queueVars, self, current>>
           ELSE /\ ready' = [ready EXCEPT ![p] = Tail(@)]
                /\ ready_bitmap' = IF Tail(ready[p]) = <<>> THEN ready_bitmap \ {p}
                                                            ELSE ready_bitmap
                /\ ready_counts' = [ready_counts EXCEPT ![p] = @ - 1]
                /\ ready_count' = ready_count - 1
                /\ state' = [state EXCEPT ![c] = "RUNNING"]
                /\ self' = c
                /\ current' = c
                /\ pc' = "coro"
        /\ UNCHANGED <<priority, cancelled, age, joining, coro_count, dequeue_count,
                       memVars, waitVars, lag, scan, once>>

\* Mutants of handle_coro_return: an OVERFLOW coroutine stays counted; one
\* that waits is counted as finished.
handle_coro_return_OverflowCounted ==
    /\ pc = "ret"
    /\ coro_count' = IF state[current] = "DEAD" THEN coro_count - 1 ELSE coro_count
    /\ IF state[current] = "OVERFLOW_RESUME" THEN enqueue_ready(current)
                                             ELSE UNCHANGED <<state, age, queueVars>>
    /\ pc' = IF once THEN "main" ELSE "loop"
    /\ UNCHANGED <<priority, cancelled, joining, dequeue_count, memVars, waitVars,
                   lag, self, current, scan, once>>

handle_coro_return_WaitingDone ==
    /\ pc = "ret"
    /\ coro_count' = IF state[current] = "READY" THEN coro_count ELSE coro_count - 1
    /\ IF state[current] = "OVERFLOW_RESUME" THEN enqueue_ready(current)
                                             ELSE UNCHANGED <<state, age, queueVars>>
    /\ pc' = IF once THEN "main" ELSE "loop"
    /\ UNCHANGED <<priority, cancelled, joining, dequeue_count, memVars, waitVars,
                   lag, self, current, scan, once>>

\* handle_coro_return(), for the coroutine that has just switched back.
handle_coro_return ==
    /\ pc = "ret"
    /\ coro_count' = IF state[current] \in {"DEAD", "OVERFLOW"} THEN coro_count - 1
                                                                ELSE coro_count
    /\ IF state[current] = "OVERFLOW_RESUME" THEN enqueue_ready(current)
                                             ELSE UNCHANGED <<state, age, queueVars>>
    /\ pc' = IF once THEN "main" ELSE "loop"
    /\ UNCHANGED <<priority, cancelled, joining, dequeue_count, memVars, waitVars,
                   lag, self, current, scan, once>>

\* No coroutine is ready: coco_sched_run() lets the timer wheel tick.
sched_idle ==
    /\ pc = "loop"
    /\ ready_count = 0
    /\ coro_count > 0
    /\ pc' = "tick"
    /\ UNCHANGED <<state, priority, cancelled, age, joining, queueVars, coro_count,
                   dequeue_count, memVars, waitVars, lag, self, current, scan, once>>

\* No coroutine is ready and none is left: coco_sched_run() returns.
sched_run_return ==
    /\ pc = "loop"
    /\ ready_count = 0
    /\ coro_count <= 0
    /\ pc' = "main"
    /\ UNCHANGED <<state, priority, cancelled, age, joining, queueVars, coro_count,
                   dequeue_count, memVars, waitVars, lag, self, current, scan, once>>

-----------------------------------------------------------------------------
(* Waking up: coco_timer_tick() and coco_poll_wait().                      *)

\* process_w1_range(), loop body: the earliest timer whose slot lies in the
\* range of ticks just passed makes its coroutine ready, whatever the state
\* that coroutine is in by now.
timer_fire ==
    /\ pc = "tick"
    /\ \E c \in Coro : \E i \in DOMAIN timers[c] :
          /\ timers[c][i] < lag
          /\ \A d \in Coro : \A j \in DOMAIN timers[d] : timers[c][i] =< timers[d][j]
          /\ timers' = [timers EXCEPT ![c] = Unlink(@, i)]
          /\ enqueue_ready(c)
    /\ UNCHANGED <<priority, cancelled, joining, coro_count, dequeue_count, memVars,
                   polled, lag, self, current, pc, scan, once>>

\* The end of coco_timer_tick(): the wheel's clock has caught up.
timer_tick_end ==
    /\ pc = "tick"
    /\ \A c \in Coro : \A i \in DOMAIN timers[c] : timers[c][i] >= lag
    /\ timers' = [c \in Coro |-> [i \in DOMAIN timers[c] |-> timers[c][i] - lag]]
    /\ lag' = 0
    /\ pc' = IF ready_count > 0 THEN "loop" ELSE "poll"
    /\ UNCHANGED <<state, priority, cancelled, age, joining, queueVars, coro_count,
                   dequeue_count, memVars, polled, self, current, scan, once>>

\* coco_poll_wait(), loop body: an event for the fd c waits for.
poll_event ==
    /\ pc = "poll"
    /\ \E c \in polled :
          /\ state[c] = "WAITING"
          /\ enqueue_ready(c)
          /\ polled' = polled \ {c}
    /\ UNCHANGED <<priority, cancelled, joining, coro_count, dequeue_count, memVars,
                   timers, lag, self, current, pc, scan, once>>

\* epoll_wait() returns when an event was reported or, with a timer pending
\* (timeout_ms >= 0), when the time is up.
poll_return ==
    /\ pc = "poll"
    /\ ready_count > 0 \/ \E c \in Coro : timers[c] # <<>>
    /\ pc' = "loop"
    /\ UNCHANGED <<state, priority, cancelled, age, joining, queueVars, coro_count,
                   dequeue_count, memVars, waitVars, lag, self, current, scan, once>>

-----------------------------------------------------------------------------
(* Calls of the running coroutine that switch back to the scheduler.       *)

InCoro(op) ==
    /\ pc = "coro"
    /\ joining[current] = None
    /\ op \in CoroOps

\* coco_yield() by a RUNNING coroutine.
YieldStep ==
    /\ enqueue_ready(current)
    /\ pc' = "ret"
    /\ UNCHANGED <<priority, cancelled, coro_count, dequeue_count, memVars, waitVars,
                   lag, self, current, scan, once>>

coco_yield ==
    /\ InCoro("yield")
    /\ YieldStep
    /\ UNCHANGED joining

coco_exit ==
    /\ InCoro("exit")
    /\ state' = [state EXCEPT ![current] = "DEAD"]
    /\ self' = None
    /\ pc' = "ret"
    /\ UNCHANGED <<priority, cancelled, age, joining, queueVars, coro_count,
                   dequeue_count, memVars, waitVars, lag, current, scan, once>>

\* coco_join(t): yields until the target is DEAD.
join_begin ==
    /\ InCoro("join")
    /\ \E t \in Coro \ {current} :
          /\ state[t] \notin {"NONE", "FREED", "DEAD"}
          /\ joining' = [joining EXCEPT ![current] = t]
    /\ YieldStep

join_again ==
    /\ pc = "coro"
    /\ joining[current] # None
    /\ state[joining[current]] # "DEAD"
    /\ YieldStep
    /\ UNCHANGED joining

join_return ==
    /\ pc = "coro"
    /\ joining[current] # None
    /\ state[joining[current]] = "DEAD"
    /\ joining' = [joining EXCEPT ![current] = None]
    /\ UNCHANGED <<state, priority, cancelled, age, queueVars, coro_count, dequeue_count,
                   memVars, waitVars, lag, self, current, pc, scan, once>>

\* coco_sleep(ms): the timer's delay counts from the wheel's clock.
coco_sleep ==
    /\ InCoro("sleep")
    /\ Len(timers[current]) < MaxTimers
    /\ \E ms \in 0..MaxSleep :
          timers' = [timers EXCEPT ![current] = Append(@, ms)]
    /\ state' = [state EXCEPT ![current] = "WAITING"]
    /\ pc' = "ret"
    /\ UNCHANGED <<priority, cancelled, age, joining, queueVars, coro_count,
                   dequeue_count, memVars, polled, lag, self, current, scan, once>>

\* coco_read()/coco_write() on an fd that is not ready: coco_poll_register(),
\* which sets WAITING, then coco_yield().
wait_fd ==
    /\ InCoro("read")
    /\ ~cancelled[current]
    /\ polled' = polled \cup {current}
    /\ state' = [state EXCEPT ![current] = "WAITING"]
    /\ pc' = "ret"
    /\ UNCHANGED <<priority, cancelled, age, joining, queueVars, coro_count,
                   dequeue_count, memVars, timers, lag, self, current, scan, once>>

\* segv_handler(): the guard page was hit; the stack was grown or not, and
\* siglongjmp() returns to the checkpoint in switch_to_coro().
stack_overflow ==
    /\ InCoro("overflow")
    /\ \E s \in {"OVERFLOW", "OVERFLOW_RESUME"} :
          state' = [state EXCEPT ![current] = s]
    /\ pc' = "ret"
    /\ UNCHANGED <<priority, cancelled, age, joining, queueVars, coro_count,
                   dequeue_count, memVars, waitVars, lag, self, current, scan, once>>

-----------------------------------------------------------------------------
(* Calls of the owner, or of the running coroutine, that return at once.   *)

Calls(op) == (pc = "main" /\ op \in MainOps) \/ InCoro(op)

Exists(c) == state[c] \notin {"NONE", "FREED"}

\* coco_create(): NORMAL priority, entered in coro_table, ready at once.
coco_create ==
    /\ Calls("create")
    /\ \E c \in Coro :
          /\ state[c] = "NONE"
          /\ enqueue_ready(c)
          /\ table' = table \cup {c}
    /\ coro_count' = coro_count + 1
    /\ UNCHANGED <<priority, cancelled, joining, dequeue_count, frees, waitVars, lag,
                   self, current, pc, scan, once>>

\* Mutant of coco_set_priority: the lists are not touched.
coco_set_priority_NoMove ==
    /\ Calls("set_priority")
    /\ \E c \in Coro, q \in Prio :
          /\ Exists(c)
          /\ priority[c] # q
          /\ priority' = [priority EXCEPT ![c] = q]
    /\ UNCHANGED <<state, queueVars, cancelled, age, joining, coro_count, dequeue_count,
                   memVars, waitVars, lag, self, current, pc, scan, once>>

\* coco_set_priority(): a READY coroutine changes lists.
coco_set_priority ==
    /\ Calls("set_priority")
    /\ \E c \in Coro, q \in Prio :
          /\ Exists(c)
          /\ priority[c] # q
          /\ IF state[c] = "READY"
             THEN \E i \in DOMAIN ready[priority[c]] :
                     /\ ready[priority[c]][i] = c
                     /\ MoveLevel(priority[c], i, q)
             ELSE /\ priority' = [priority EXCEPT ![c] = q]
                  /\ UNCHANGED queueVars
    /\ UNCHANGED <<state, cancelled, age, joining, coro_count, dequeue_count, memVars,
                   waitVars, lag, self, current, pc, scan, once>>

\* Mutant of coco_cancel: the fd_table keeps pointing to the coroutine.
coco_cancel_KeepsFd ==
    /\ Calls("cancel")
    /\ \E c \in Coro :
          /\ Exists(c)
          /\ state[c] \notin {"DEAD", "OVERFLOW"}
          /\ CancelSleeping \/ timers[c] = <<>>
          /\ cancelled' = [cancelled EXCEPT ![c] = TRUE]
          /\ IF state[c] = "WAITING" THEN enqueue_ready(c)
                                     ELSE UNCHANGED <<state, age, queueVars>>
    /\ UNCHANGED <<priority, joining, coro_count, dequeue_count, memVars, waitVars, lag,
                   self, current, pc, scan, once>>

\* coco_cancel(): a WAITING coroutine leaves the fd_table and becomes ready;
\* a timer it sleeps on stays in the wheel.
coco_cancel ==
    /\ Calls("cancel")
    /\ \E c \in Coro :
          /\ Exists(c)
          /\ state[c] \notin {"DEAD", "OVERFLOW"}
          /\ CancelSleeping \/ timers[c] = <<>>
          /\ cancelled' = [cancelled EXCEPT ![c] = TRUE]
          /\ IF state[c] = "WAITING"
             THEN /\ polled' = polled \ {c}
                  /\ enqueue_ready(c)
             ELSE UNCHANGED <<state, age, queueVars, polled>>
    /\ UNCHANGED <<priority, joining, coro_count, dequeue_count, memVars, timers, lag,
                   self, current, pc, scan, once>>

\* coco_destroy() of a DEAD coroutine nobody joins any more.
coco_destroy ==
    /\ Calls("destroy")
    /\ \E c \in Coro :
          /\ state[c] = "DEAD"
          /\ \A d \in Coro : joining[d] # c
          /\ state' = [state EXCEPT ![c] = "FREED"]
          /\ frees' = [frees EXCEPT ![c] = @ + 1]
    /\ UNCHANGED <<priority, cancelled, age, joining, queueVars, coro_count,
                   dequeue_count, table, waitVars, lag, self, current, pc, scan, once>>

\* coco_sched_destroy(): frees what coro_table points to, the wheel and the
\* fd_table.
coco_sched_destroy ==
    /\ pc = "main"
    /\ "sched_destroy" \in MainOps
    /\ frees' = [c \in Coro |-> IF c \in table THEN frees[c] + 1 ELSE frees[c]]
    /\ state' = [c \in Coro |-> IF c \in table THEN "FREED" ELSE state[c]]
    /\ table' = {}
    /\ timers' = [c \in Coro |-> <<>>]
    /\ polled' = {}
    /\ ready' = [p \in Prio |-> <<>>]
    /\ ready_counts' = [p \in Prio |-> 0]
    /\ ready_count' = 0
    /\ ready_bitmap' = {}
    /\ coro_count' = 0
    /\ pc' = "end"
    /\ UNCHANGED <<priority, cancelled, age, joining, dequeue_count, lag, self, current,
                   scan, once>>

-----------------------------------------------------------------------------
\* A millisecond passes while a coroutine or the owner computes, or while
\* epoll_wait() waits.
Clock ==
    /\ pc \in {"main", "coro", "poll"}
    /\ age' = [c \in Coro |-> IF state[c] = "READY" /\ age[c] < AgingThreshold
                              THEN age[c] + 1 ELSE age[c]]
    /\ lag' = IF lag =< MaxSleep THEN lag + 1 ELSE lag
    /\ UNCHANGED <<state, priority, cancelled, joining, queueVars, coro_count,
                   dequeue_count, memVars, waitVars, self, current, pc, scan, once>>

Terminated == pc = "end" /\ UNCHANGED vars

Init ==
    /\ state = [c \in Coro |-> "NONE"]
    /\ priority = [c \in Coro |-> NORMAL]
    /\ cancelled = [c \in Coro |-> FALSE]
    /\ age = [c \in Coro |-> 0]
    /\ joining = [c \in Coro |-> None]
    /\ ready = [p \in Prio |-> <<>>]
    /\ ready_counts = [p \in Prio |-> 0]
    /\ ready_count = 0
    /\ ready_bitmap = {}
    /\ coro_count = 0
    /\ dequeue_count = 0
    /\ table = {}
    /\ frees = [c \in Coro |-> 0]
    /\ timers = [c \in Coro |-> <<>>]
    /\ lag = 0
    /\ polled = {}
    /\ self = None
    /\ current = None
    /\ pc = "main"
    /\ scan = 0
    /\ once = FALSE

SchedStep ==
    \/ dequeue_begin
    \/ apply_aging_promote
    \/ apply_aging_next
    \/ dequeue_and_switch
    \/ handle_coro_return
    \/ sched_idle
    \/ sched_run_return
    \/ timer_fire
    \/ timer_tick_end
    \/ poll_return

\* Calls after which the scheduler has control again.
Switch ==
    \/ coco_yield
    \/ coco_exit
    \/ join_begin
    \/ join_again
    \/ coco_sleep
    \/ wait_fd
    \/ stack_overflow

Next ==
    \/ coco_sched_run
    \/ coco_sched_run_once
    \/ SchedStep
    \/ poll_event
    \/ Switch
    \/ join_return
    \/ coco_create
    \/ coco_set_priority
    \/ coco_cancel
    \/ coco_destroy
    \/ coco_sched_destroy
    \/ Clock
    \/ Terminated

Spec == Init /\ [][Next]_vars

\* The scheduler's code runs when it has control, coroutines are cooperative
\* (each one calls something that switches, or returns from its join), events
\* come for descriptors that are waited for, and time passes.
Fairness ==
    /\ WF_vars(SchedStep)
    /\ WF_vars(coco_sched_run)
    /\ WF_vars(Switch \/ join_return)
    /\ SF_vars(Clock)
    /\ SF_vars(poll_event)

FairSpec == Spec /\ Fairness

-----------------------------------------------------------------------------
(* Properties.                                                             *)

Live == {c \in Coro : state[c] \in {"READY", "RUNNING", "WAITING", "OVERFLOW_RESUME"}}

\* Every variable has its type.
TypeOK ==
    /\ state \in [Coro -> States]
    /\ priority \in [Coro -> Prio]
    /\ cancelled \in [Coro -> BOOLEAN]
    /\ age \in [Coro -> Nat]
    /\ joining \in [Coro -> Coro \cup {None}]
    /\ ready \in [Prio -> Seq(Coro)]
    /\ ready_counts \in [Prio -> Nat]
    /\ ready_count \in Nat
    /\ ready_bitmap \in SUBSET Prio
    /\ coro_count \in Int
    /\ dequeue_count \in 0..(AgingInterval - 1)
    /\ table \in SUBSET Coro
    /\ frees \in [Coro -> Nat]
    /\ timers \in [Coro -> Seq(Nat)]
    /\ lag \in 0..(MaxSleep + 1)
    /\ polled \in SUBSET Coro
    /\ self \in Coro \cup {None}
    /\ current \in Coro \cup {None}
    /\ pc \in Places
    /\ scan \in Prio
    /\ once \in BOOLEAN

\* The three summaries of the ready lists agree with the lists: a bit is set
\* exactly for a list that is not empty, ready_counts[p] is its length, and
\* ready_count is their sum.
SummariesAgree ==
    /\ ready_bitmap = {p \in Prio : ready[p] # <<>>}
    /\ \A p \in Prio : ready_counts[p] = Len(ready[p])
    /\ ready_count = ready_counts[0] + ready_counts[1] + ready_counts[2] + ready_counts[3]

\* A coroutine is READY exactly when it is in the ready list of its own
\* priority, and it is in no other place of any list: no double enqueue.
ReadyExactlyOnce ==
    /\ \A p \in Prio : \A i \in DOMAIN ready[p] :
          state[ready[p][i]] = "READY" /\ priority[ready[p][i]] = p
    /\ \A p \in Prio : \A i, j \in DOMAIN ready[p] :
          ready[p][i] = ready[p][j] => i = j
    /\ \A c \in Coro : state[c] = "READY" =>
          \E i \in DOMAIN ready[priority[c]] : ready[priority[c]][i] = c

\* The ready queue is consistent: enqueue_ready(), dequeue_ready(), a change of
\* priority, aging and cancellation leave the lists, what summarises them and
\* the states of the coroutines in agreement.
ReadyListsAgree == TypeOK /\ SummariesAgree /\ ReadyExactlyOnce

\* dequeue_ready() never returns NULL to a loop that dereferences its result.
NoNullDispatch == pc # "crash"

\* handle_coro_return() meets neither of the states its comments say
\* "should not appear here" (coro.c:475, 478).
ReturnState ==
    pc = "ret" => state[current] \notin {"NONE", "RUNNING", "FREED"}

\* coro_count, on which coco_sched_run() loops, is the number of coroutines
\* that have not finished.
CountsTheLiving ==
    pc # "ret" => coro_count = Cardinality(Live)

\* Every coroutine that waits can still be woken: by a timer in the wheel or
\* by its entry in the fd_table, and by one of them only.
WaitersAreReachable ==
    \A c \in Coro :
       IF state[c] = "WAITING" THEN Len(timers[c]) + (IF c \in polled THEN 1 ELSE 0) = 1
                               ELSE timers[c] = <<>> /\ c \notin polled

\* coco_sched_run() returns only when no coroutine is ready or waiting
\* (include/coco.h:334).
RunReturnsWhenDone ==
    [][pc = "loop" /\ pc' = "main" => Live = {}]_vars

\* The scheduler implements the priority queue the header describes.
running == IF pc = "coro" THEN {current} ELSE IF pc = "crash" THEN {None} ELSE {}
PF == INSTANCE PriorityFifo WITH queue <- ready, running <- running
ImplementsPriorityFifo == PF!PFSpec

\* No starvation: whatever the priorities, a ready coroutine is run (or the
\* scheduler is destroyed), because aging lifts it level by level.
NoStarvation ==
    \A c \in Coro : (state[c] = "READY" /\ pc # "main") ~> (state[c] # "READY")

\* coco_join() "blocks the current coroutine until the target coroutine
\* finishes" (coco.h:426): if a coroutine t that is run often enough ends, nobody
\* waits in a join on t for ever, unless t waits in a join of its own.
JoinReturns ==
    \A t \in Coro :
       SF_vars(coco_exit /\ current = t) =>
          []<>(joining[t] # None \/ \A c \in Coro : joining[c] # t)

\* A coroutine that "has finished execution" (coco.h:78) stays so until it is
\* freed.
DeadIsFinal ==
    [][\A c \in Coro : state[c] = "DEAD" => state'[c] \in {"DEAD", "FREED"}]_vars
=============================================================================
