------------------------------ MODULE MTSched -------------------------------
(***************************************************************************)
(* The multi-threaded scheduler: worker threads with a run queue each      *)
(* (sched/runq.c), a lock-free global stack (sched/global_sched.c), work   *)
(* stealing and balancing (sched/sched.c), coco_go() (core/coro_go.c),     *)
(* and the main thread that starts, waits for and stops the workers.       *)
(*                                                                         *)
(* A local queue is a sequence: what a worker does under its lock is one   *)
(* action, but runq_push_overflow(), which takes idle_lock meanwhile.  The *)
(* global stack is its head and its links, because a pop reads both before *)
(* it exchanges the head.  The wheels of the processors are always empty   *)
(* (nothing adds to them), so that an idle worker waits without a limit.   *)
(***************************************************************************)
EXTENDS Integers, Sequences, FiniteSets

CONSTANTS
    MaxCoro,           \* the most coroutines started
    None,              \* the NULL pointer
    Main, Outside,     \* the main thread; a thread such as the netpoller
    MaxWorkers,        \* the most workers a world has
    LOCAL_RUNQ_MAX,    \* the capacity of a local queue (256 in the code)
    MinLoad, Spread,   \* schedule_balanced() acts from this average load
                       \* and this difference on (4 and 4 in the code)
    Worlds             \* the programs: see Init

Coro == 1..MaxCoro     \* named by next_coro_id
Worker == 1..MaxWorkers
Thread == Worker \cup {Main, Outside}

ASSUME MTSchedAssumption ==
    /\ MaxCoro \in Nat /\ None \notin Coro \cup Thread
    /\ MaxWorkers \in Nat \ {0} /\ LOCAL_RUNQ_MAX \in Nat \ {0}
    /\ MinLoad \in Nat /\ Spread \in Nat
    /\ Main \notin Worker /\ Outside \notin Worker /\ Main # Outside
    /\ \A u \in Worlds : u.workers \in 1..MaxWorkers /\ u.max \in 0..MaxCoro

VARIABLES
    world,             \* the program: workers (its number), max (coroutines it
                       \* starts), whether it says on which processor (on),
                       \* and whether they spawn, yield, block, and are woken
                       \* from outside
    state,             \* of a coroutine: NEW, READY, RUNNING, WAITING, DEAD, FREED,
                       \* and LOST when it waits and the scheduler is stopped
    runq,              \* the local queues
    lock,              \* the holder of a local_runq_lock that takes more than a step
    head, next,        \* the global stack: global_runq_head and coro->next
    size,              \* global_runq_size
    idle_lock,         \* its holder
    idle_count,
    active,            \* active_coroutines (0 is all that is asked of it)
    running,
    th,                \* of a thread: where it is, and its local variables
    cur                \* p->curcoro

vars == <<world, state, runq, lock, head, next, size, idle_lock, idle_count, active, running,
          th, cur>>

P == 1..world.workers
Capacity == LOCAL_RUNQ_MAX

\* The local variables of a thread: the coroutine at hand, more of them, the
\* number of signals to send or the load measured, where to go on, the head
\* and link a pop has read.
Local == [at |-> "off", g |-> None, list |-> <<>>, n |-> 0, then |-> "off", old |-> None,
          link |-> None]

Goto(t, at) == th' = [th EXCEPT ![t].at = at]

\* The threads asleep in pthread_cond_wait() on idle_cond.
Asleep == {w \in P : th[w].at = "asleep"}

-----------------------------------------------------------------------------
(* The queues.                                                             *)

Full(p) == Len(runq[p]) >= Capacity

\* An insertion at the tail.
Append1(p, c) == runq' = [runq EXCEPT ![p] = Append(@, c)]

\* coco_global_runq_put(), entered with the coroutine in th[t].g: the push,
\* which the exchange makes atomic, and the new size.
global_runq_put(t) ==
    LET c == th[t].g IN
    /\ th[t].at = "put"
    /\ state' = [state EXCEPT ![c] = "READY"]
    /\ next' = [next EXCEPT ![c] = head]
    /\ head' = c
    /\ size' = size + 1
    /\ th' = [th EXCEPT ![t].at = "peek", ![t].n = size + 1, ![t].g = None]
    /\ UNCHANGED <<world, runq, lock, idle_lock, idle_count, active, running, cur>>

\* Its look at idle_count, without the lock.
global_runq_peek(t) ==
    /\ th[t].at = "peek"
    /\ th' = [th EXCEPT ![t].at = IF idle_count > 0 THEN "signal" ELSE th[t].then,
                        ![t].n = IF idle_count = 0 THEN 0
                                 ELSE IF @ < idle_count THEN @ ELSE idle_count]
    /\ UNCHANGED <<world, state, runq, lock, head, next, size, idle_lock, idle_count, active,
                   running, cur>>

\* pthread_cond_signal() n times under idle_lock: n sleepers, or all.
Woken(n) == {S \in SUBSET Asleep : Cardinality(S) = IF n < Cardinality(Asleep) THEN n
                                                    ELSE Cardinality(Asleep)}

signal(t) ==
    /\ th[t].at = "signal" /\ idle_lock = None
    /\ \E S \in Woken(th[t].n) :
         th' = [x \in Thread |-> IF x \in S THEN [th[x] EXCEPT !.at = "woken"]
                                 ELSE IF x = t THEN [th[x] EXCEPT !.at = th[t].then, !.n = 0]
                                 ELSE th[x]]
    /\ UNCHANGED <<world, state, runq, lock, head, next, size, idle_lock, idle_count, active,
                   running, cur>>

-----------------------------------------------------------------------------
(* coco_go().                                                              *)

\* select_best_p(): the processor of a worker, else the first with the
\* shortest queue.
select_best_p(t) ==
    IF t \in P THEN t
    ELSE CHOOSE p \in P : \A q \in P : \/ Len(runq[p]) < Len(runq[q])
                                       \/ Len(runq[p]) = Len(runq[q]) /\ p <= q

\* A thread may call coco_go(): the main thread, before it starts the workers
\* too, or a coroutine on a worker.
MayGo(t) == \/ t = Main /\ th[t].at \in {"off", "main", "waited"}
            \/ t \in P /\ th[t].at = "body" /\ world.spawn

\* coco_go(), or coco_go_on() that names the processor, up to the lock of the
\* queue, ...
coco_go(t, p) ==
    LET c == 1 + Cardinality({x \in Coro : state[x] # "NEW"}) IN
    /\ MayGo(t)
    /\ p \in P /\ (world.on \/ p = select_best_p(t))
    /\ c <= world.max
    /\ lock[p] = None
    /\ lock' = [lock EXCEPT ![p] = t]
    /\ state' = [state EXCEPT ![c] = "READY"]
    /\ th' = [th EXCEPT ![t].at = "go_put", ![t].g = c, ![t].n = p]
    /\ UNCHANGED <<world, runq, head, next, size, idle_lock, idle_count, active, running, cur>>

\* ... and the rest of runq_put(), which gives the coroutine to the global
\* stack when the queue is full.
runq_put(t) ==
    LET p == th[t].n IN
    /\ th[t].at = "go_put"
    /\ lock' = [lock EXCEPT ![p] = None]
    /\ IF Full(p)
       THEN /\ th' = [th EXCEPT ![t].at = "put", ![t].n = 0, ![t].then = "go_signal"]
            /\ UNCHANGED runq
       ELSE /\ th' = [th EXCEPT ![t].at = "go_signal", ![t].n = 0, ![t].g = None]
            /\ Append1(p, th[t].g)
    /\ UNCHANGED <<world, state, head, next, size, idle_lock, idle_count, active, running, cur>>

\* Its signal to one idle worker.
go_signal(t) ==
    /\ th[t].at = "go_signal"
    /\ th' = [th EXCEPT ![t].at = "signal", ![t].n = 1, ![t].then = "go_count"]
    /\ UNCHANGED <<world, state, runq, lock, head, next, size, idle_lock, idle_count, active,
                   running, cur>>

\* Its last step: active_coroutines, when the coroutine may be done already.
go_count(t) ==
    /\ th[t].at = "go_count"
    /\ active' = active + 1
    /\ th' = [th EXCEPT ![t].at = IF t # Main THEN "body" ELSE IF running THEN "main" ELSE "off", ![t].then = "off"]
    /\ UNCHANGED <<world, state, runq, lock, head, next, size, idle_lock, idle_count, running, cur>>

-----------------------------------------------------------------------------
(* A worker finds a coroutine.                                             *)

Worker0 == [Local EXCEPT !.at = "loop"]

\* The loop condition.
worker_loop(w) ==
    /\ th[w].at = "loop"
    /\ Goto(w, IF running THEN "find" ELSE "exit")
    /\ UNCHANGED <<world, state, runq, lock, head, next, size, idle_lock, idle_count, active,
                   running, cur>>

\* w has found c: idle_lock is released if it was held, and c runs.
RunIt(w, c) ==
    /\ state' = [state EXCEPT ![c] = "RUNNING"]
    /\ cur' = [cur EXCEPT ![w] = c]
    /\ idle_lock' = IF idle_lock = w THEN None ELSE idle_lock

\* find_runnable(), 1: runq_get() on the own queue.
runq_get(w) ==
    /\ th[w].at = "find" /\ lock[w] = None
    /\ IF runq[w] # <<>>
       THEN /\ RunIt(w, Head(runq[w]))
            /\ runq' = [runq EXCEPT ![w] = Tail(@)]
            /\ Goto(w, "body")
       ELSE Goto(w, "global") /\ UNCHANGED <<state, cur, idle_lock, runq>>
    /\ UNCHANGED <<world, lock, head, next, size, idle_count, active, running>>

\* 2: coco_global_runq_get(): the head and its link are read, ...
global_runq_load(w) ==
    /\ th[w].at = "global"
    /\ th' = IF head = None THEN [th EXCEPT ![w].at = "steal"]
             ELSE [th EXCEPT ![w].at = "cas", ![w].old = head, ![w].link = next[head]]
    /\ UNCHANGED <<world, state, runq, lock, head, next, size, idle_lock, idle_count, active,
                   running, cur>>

\* ... and the head exchanged if it has not changed.
global_runq_cas(w) ==
    LET c == th[w].old IN
    /\ th[w].at = "cas"
    /\ IF head = c
       THEN /\ head' = th[w].link
            /\ next' = [next EXCEPT ![c] = None]
            /\ size' = size - 1
            /\ RunIt(w, c)
            /\ th' = [th EXCEPT ![w].at = "body", ![w].old = None, ![w].link = None]
       ELSE /\ th' = [th EXCEPT ![w].at = "global", ![w].old = None, ![w].link = None]
            /\ UNCHANGED <<state, cur, idle_lock, head, next, size>>
    /\ UNCHANGED <<world, runq, lock, idle_count, active, running>>

\* What runq_steal() takes from a queue: half of it, from the tail.
Stolen(q) == LET n == IF Len(q) \div 2 = 0 THEN 1 ELSE Len(q) \div 2
             IN  SubSeq(q, Len(q) - n + 1, Len(q))

\* The lock of queue q is held by another thread than w, or may be: by the
\* worker that is about to look at it, or by another thief.
Busy(w, q) ==
    \/ lock[q] # None
    \/ th[q].at \in {"find", "batch"}
    \/ \E x \in P \ {w} : th[x].at = "steal"

\* The processor w steals from: the first of the others, from its own on, that
\* has something and whose lock can be had, when those in skip cannot.
Victim(w, skip) ==
    LET nth(i) == ((w - 1 + i) % world.workers) + 1
        good == {i \in 1..(world.workers - 1) : nth(i) \notin skip /\ runq[nth(i)] # <<>>}
    IN  IF good = {} THEN None
        ELSE nth(CHOOSE i \in good : \A j \in good : i <= j)

\* What w does when it finds nothing: on to idle_lock, or to sleep.
NotFound(w) ==
    IF idle_lock = w
    THEN /\ idle_count' = idle_count + 1
         /\ idle_lock' = None
         /\ Goto(w, "asleep")
    ELSE Goto(w, "idle") /\ UNCHANGED <<idle_count, idle_lock>>

\* 3: runq_steal() from the first of the others that can be robbed; the first
\* coroutine of the batch is run, the others go to runq_put_batch().
runq_steal(w) ==
    /\ th[w].at = "steal"
    /\ \E skip \in SUBSET {q \in P \ {w} : Busy(w, q)} :
        LET v == Victim(w, skip)
            batch == Stolen(runq[v])
        IN
        /\ {q \in P : lock[q] # None} \subseteq skip \cup {w}
        /\ IF v = None
           THEN NotFound(w) /\ UNCHANGED <<state, cur, runq>>
           ELSE /\ RunIt(w, Head(batch))
                /\ runq' = [runq EXCEPT ![v] = SubSeq(@, 1, Len(@) - Len(batch))]
                /\ th' = [th EXCEPT ![w].at = IF Len(batch) = 1 THEN "body" ELSE "batch",
                                    ![w].list = Tail(batch)]
                /\ UNCHANGED idle_count
    /\ UNCHANGED <<world, lock, head, next, size, active, running>>

\* runq_put_batch(), whose failure is ignored.
runq_put_batch(w) ==
    /\ th[w].at = "batch" /\ lock[w] = None
    /\ runq' = IF Len(runq[w]) + Len(th[w].list) > Capacity THEN runq
               ELSE [runq EXCEPT ![w] = @ \o th[w].list]
    /\ th' = [th EXCEPT ![w].at = "body", ![w].list = <<>>]
    /\ UNCHANGED <<world, state, lock, head, next, size, idle_lock, idle_count, active, running,
                   cur>>

\* Mutant of idle_enter: running is not looked at again.
idle_enter_Blind(w) ==
    /\ th[w].at = "idle" /\ idle_lock = None
    /\ idle_lock' = w /\ Goto(w, "find")
    /\ UNCHANGED <<world, state, runq, lock, head, next, size, idle_count, active, running, cur>>

\* A worker with nothing to do takes idle_lock, and looks again at running and
\* for work.
idle_enter(w) ==
    /\ th[w].at = "idle" /\ idle_lock = None
    /\ IF running THEN idle_lock' = w /\ Goto(w, "find")
                  ELSE UNCHANGED idle_lock /\ Goto(w, "exit")
    /\ UNCHANGED <<world, state, runq, lock, head, next, size, idle_count, active, running, cur>>

\* A signalled worker takes idle_lock and releases it, ...
idle_leave(w) ==
    /\ th[w].at = "woken" /\ idle_lock = None
    /\ Goto(w, "unidle")
    /\ UNCHANGED <<world, state, runq, lock, head, next, size, idle_lock, idle_count, active,
                   running, cur>>

\* ... and is counted as busy.
idle_uncount(w) ==
    /\ th[w].at = "unidle"
    /\ idle_count' = idle_count - 1
    /\ Goto(w, "loop")
    /\ UNCHANGED <<world, state, runq, lock, head, next, size, idle_lock, active, running, cur>>

-----------------------------------------------------------------------------
(* A coroutine runs.                                                       *)

\* coco_yield() of a running coroutine: it puts itself in the queue of its
\* worker, or the global stack, and only then switches to the worker.
coco_yield(w) ==
    /\ th[w].at = "body" /\ world.yield /\ lock[w] = None
    /\ IF Full(w)
       THEN th' = [th EXCEPT ![w].at = "put", ![w].g = cur[w], ![w].then = "switch"] /\ UNCHANGED runq
       ELSE Append1(w, cur[w]) /\ Goto(w, "switch")
    /\ UNCHANGED <<world, state, lock, head, next, size, idle_lock, idle_count, active, running, cur>>

\* A coroutine blocks: it is WAITING when it yields, so that it is not queued.
block(w) ==
    /\ th[w].at = "body" /\ world.block
    /\ state' = [state EXCEPT ![cur[w]] = "WAITING"]
    /\ Goto(w, "switch")
    /\ UNCHANGED <<world, runq, lock, head, next, size, idle_lock, idle_count, active, running, cur>>

\* coco_ctx_switch() back to the worker, which saves the coroutine.
ctx_switch(w) ==
    /\ th[w].at = "switch"
    /\ Goto(w, "done")
    /\ UNCHANGED <<world, state, runq, lock, head, next, size, idle_lock, idle_count, active,
                   running, cur>>

\* A thread may wake a coroutine: one that runs another, or the netpoller.
MayWake(t) == \/ t \in P /\ th[t].at = "body"
              \/ t = Outside /\ th[t].at = "off" /\ world.outside /\ running

\* schedule_ready() of a coroutine that waits, once.
schedule_ready(t, c) ==
    /\ MayWake(t)
    /\ state[c] = "WAITING" /\ \A x \in Thread : th[x].g # c
    /\ th' = [th EXCEPT ![t].at = "put", ![t].g = c, ![t].then = IF t = Outside THEN "off" ELSE "body"]
    /\ UNCHANGED <<world, state, runq, lock, head, next, size, idle_lock, idle_count, active,
                   running, cur>>

\* coco_exit().
coco_exit(w) ==
    /\ th[w].at = "body"
    /\ state' = [state EXCEPT ![cur[w]] = "DEAD"]
    /\ Goto(w, "done")
    /\ UNCHANGED <<world, runq, lock, head, next, size, idle_lock, idle_count, active, running, cur>>

-----------------------------------------------------------------------------
(* The worker after a coroutine.                                           *)

\* Mutant of handle_coro_done: every return counts as an end.
handle_coro_done_Any(w) ==
    LET c == cur[w] IN
    /\ th[w].at = "done"
    /\ cur' = [cur EXCEPT ![w] = None]
    /\ active' = active - 1
    /\ state' = IF state[c] = "DEAD" THEN [state EXCEPT ![c] = "FREED"] ELSE state
    /\ Goto(w, IF Len(runq[w]) >= Capacity \div 2 THEN "overflow" ELSE "balance")
    /\ UNCHANGED <<world, runq, lock, head, next, size, idle_lock, idle_count, running>>

\* handle_coro_done(): a dead coroutine is counted and freed; then a queue
\* that is half full is to be halved.
handle_coro_done(w) ==
    LET c == cur[w] IN
    /\ th[w].at = "done"
    /\ cur' = [cur EXCEPT ![w] = None]
    /\ IF state[c] = "DEAD"
       THEN active' = active - 1 /\ state' = [state EXCEPT ![c] = "FREED"]
       ELSE UNCHANGED <<active, state>>
    /\ Goto(w, IF Len(runq[w]) >= Capacity \div 2 THEN "overflow" ELSE "balance")
    /\ UNCHANGED <<world, runq, lock, head, next, size, idle_lock, idle_count, running>>

\* runq_push_overflow() under the lock: its size again, then half the queue,
\* from the tail, one by one, to the global stack.
push_overflow(w) ==
    /\ th[w].at = "overflow" /\ lock[w] = None
    /\ IF Len(runq[w]) >= Capacity \div 2 /\ Len(runq[w]) \div 2 > 0
       THEN /\ lock' = [lock EXCEPT ![w] = w]
            /\ th' = [th EXCEPT ![w].at = "push", ![w].list = Stolen(runq[w])]
       ELSE UNCHANGED lock /\ Goto(w, "balance")
    /\ UNCHANGED <<world, state, runq, head, next, size, idle_lock, idle_count, active, running,
                   cur>>

\* Mutant of push_one: the coroutine stays in the local queue.
push_one_Copy(w) ==
    LET n == Len(th[w].list) IN
    /\ th[w].at = "push"
    /\ IF n = 0
       THEN lock' = [lock EXCEPT ![w] = None] /\ Goto(w, "balance")
       ELSE /\ th' = [th EXCEPT ![w].at = "put", ![w].g = th[w].list[n],
                                ![w].list = SubSeq(@, 1, n - 1), ![w].then = "push"]
            /\ UNCHANGED lock
    /\ UNCHANGED <<world, state, runq, head, next, size, idle_lock, idle_count, active, running,
                   cur>>

\* One coroutine: from the tail of the queue to the global stack.
push_one(w) ==
    LET n == Len(th[w].list) IN
    /\ th[w].at = "push"
    /\ IF n = 0
       THEN lock' = [lock EXCEPT ![w] = None] /\ Goto(w, "balance") /\ UNCHANGED runq
       ELSE /\ runq' = [runq EXCEPT ![w] = SubSeq(@, 1, Len(@) - 1)]
            /\ th' = [th EXCEPT ![w].at = "put", ![w].g = th[w].list[n],
                                ![w].list = SubSeq(@, 1, n - 1), ![w].then = "push"]
            /\ UNCHANGED lock
    /\ UNCHANGED <<world, state, head, next, size, idle_lock, idle_count, active, running, cur>>

Total == LET sum[p \in 0..world.workers] == IF p = 0 THEN size ELSE sum[p - 1] + Len(runq[p])
         IN  sum[world.workers]

\* The test of the balance, made every 50th time, and schedule_balanced() up to
\* the average load, kept as a total.
balance(w) ==
    /\ th[w].at = "balance"
    /\ \/ th' = [th EXCEPT ![w] = Worker0]
       \/ /\ \E p, q \in P : Len(runq[p]) - Len(runq[q]) > Spread
          /\ Total >= MinLoad * world.workers
          /\ th' = [th EXCEPT ![w].at = "collect", ![w].n = Total, ![w].g = None]
    /\ UNCHANGED <<world, state, runq, lock, head, next, size, idle_lock, idle_count, active,
                   running, cur>>

\* How many coroutines processor p has too many: what exceeds 1.2 times the
\* average, if that is more than 1.5 times.
Excess(p, total) ==
    LET target == (12 * total) \div (10 * world.workers) IN
    IF 2 * world.workers * Len(runq[p]) <= 3 * total THEN 0 ELSE Len(runq[p]) - target

\* Phase 1: the excess of each processor whose lock is free, from the head.
balance_collect(w) ==
    /\ th[w].at = "collect"
    /\ \E skip \in SUBSET {q \in P \ {w} : Busy(w, q)} :
        LET take(p) == IF p \in skip \/ lock[p] # None THEN 0 ELSE Excess(p, th[w].n)
            from[p \in 0..world.workers] == IF p = 0 THEN <<>>
                                            ELSE from[p - 1] \o SubSeq(runq[p], 1, take(p))
        IN  /\ runq' = [p \in Worker |-> IF p \in P THEN SubSeq(runq[p], take(p) + 1, Len(runq[p]))
                                          ELSE runq[p]]
            /\ th' = [th EXCEPT ![w].at = "spread", ![w].n = 0, ![w].list = from[world.workers]]
    /\ UNCHANGED <<world, state, lock, head, next, size, idle_lock, idle_count, active, running, cur>>

\* Phase 2: one by one to the global stack.
balance_spread(w) ==
    /\ th[w].at = "spread"
    /\ IF th[w].list = <<>> THEN th' = [th EXCEPT ![w] = Worker0]
       ELSE th' = [th EXCEPT ![w].at = "put", ![w].g = Head(th[w].list), ![w].list = Tail(@),
                             ![w].then = "spread"]
    /\ UNCHANGED <<world, state, runq, lock, head, next, size, idle_lock, idle_count, active,
                   running, cur>>

-----------------------------------------------------------------------------
(* The main thread.                                                        *)

\* coco_global_sched_start().
coco_global_sched_start ==
    /\ th[Main].at = "off"
    /\ running' = TRUE
    /\ th' = [t \in Thread |-> IF t \in P THEN Worker0
                               ELSE IF t = Main THEN [Local EXCEPT !.at = "main"] ELSE th[t]]
    /\ UNCHANGED <<world, state, runq, lock, head, next, size, idle_lock, idle_count, active, cur>>

\* coco_global_sched_wait() returns when no coroutine is counted.
coco_global_sched_wait ==
    /\ th[Main].at = "main"
    /\ active = 0
    /\ Goto(Main, "waited")
    /\ UNCHANGED <<world, state, runq, lock, head, next, size, idle_lock, idle_count, active,
                   running, cur>>

\* coco_global_sched_stop(), with or without a wait before: the flag, ...
coco_global_sched_stop ==
    /\ th[Main].at \in {"main", "waited"} /\ th[Outside].at = "off"
    /\ running' = FALSE
    /\ Goto(Main, "broadcast")
    /\ UNCHANGED <<world, state, runq, lock, head, next, size, idle_lock, idle_count, active, cur>>

\* ... the broadcast under idle_lock, ...
stop_broadcast ==
    /\ th[Main].at = "broadcast" /\ idle_lock = None
    /\ th' = [t \in Thread |-> IF t \in Asleep THEN [th[t] EXCEPT !.at = "woken"]
                               ELSE IF t = Main THEN [th[t] EXCEPT !.at = "join"] ELSE th[t]]
    /\ UNCHANGED <<world, state, runq, lock, head, next, size, idle_lock, idle_count, active,
                   running, cur>>

\* ... and, when the workers have been joined, the queues: what is left in them
\* is freed and the counters are reset.  Nobody knows of those that wait.
stop_drain ==
    /\ th[Main].at = "join"
    /\ \A w \in P : th[w].at = "exit"
    /\ LET stacked[c \in Coro \cup {None}, n \in 0..Cardinality(Coro)] ==
              IF c = None \/ n = 0 THEN {} ELSE {c} \cup stacked[next[c], n - 1]
            left == stacked[head, Cardinality(Coro)]
                    \cup (UNION {{runq[p][i] : i \in 1..Len(runq[p])} : p \in P})
        IN  state' = [c \in Coro |-> IF c \in left THEN "FREED"
                                     ELSE IF state[c] = "WAITING" THEN "LOST" ELSE state[c]]
    /\ runq' = [w \in Worker |-> <<>>]
    /\ head' = None /\ next' = [c \in Coro |-> None] /\ size' = 0
    /\ idle_count' = 0 /\ active' = 0
    /\ th' = [t \in Thread |-> Local]
    /\ UNCHANGED <<world, lock, idle_lock, running, cur>>

-----------------------------------------------------------------------------

\* coco_global_init(): the empty scheduler, for one of the programs.
Init ==
    /\ world \in Worlds
    /\ state = [c \in Coro |-> "NEW"]
    /\ runq = [w \in Worker |-> <<>>]
    /\ lock = [w \in Worker |-> None]
    /\ head = None /\ next = [c \in Coro |-> None] /\ size = 0
    /\ idle_lock = None /\ idle_count = 0 /\ active = 0 /\ running = FALSE
    /\ th = [t \in Thread |-> Local]
    /\ cur = [w \in Worker |-> None]

Next ==
    \/ \E t \in Thread : \/ global_runq_put(t) \/ global_runq_peek(t) \/ signal(t)
                          \/ runq_put(t) \/ go_signal(t) \/ go_count(t)
                          \/ \E p \in P : coco_go(t, p)
                          \/ \E c \in Coro : schedule_ready(t, c)
    \/ \E w \in P : \/ worker_loop(w) \/ runq_get(w) \/ global_runq_load(w) \/ global_runq_cas(w)
                     \/ runq_steal(w) \/ runq_put_batch(w)
                     \/ idle_enter(w) \/ idle_leave(w) \/ idle_uncount(w)
                     \/ coco_yield(w) \/ block(w) \/ ctx_switch(w) \/ coco_exit(w)
                     \/ handle_coro_done(w) \/ push_overflow(w) \/ push_one(w)
                     \/ balance(w) \/ balance_collect(w) \/ balance_spread(w)
    \/ coco_global_sched_start \/ coco_global_sched_wait \/ coco_global_sched_stop
    \/ stop_broadcast \/ stop_drain

Spec == Init /\ [][Next]_vars

-----------------------------------------------------------------------------
(* Properties.                                                             *)

\* The members of the global stack.
Stacked ==
    LET chain[c \in Coro \cup {None}, n \in 0..Cardinality(Coro)] ==
          IF c = None \/ n = 0 THEN <<>> ELSE <<c>> \o chain[next[c], n - 1]
    IN  chain[head, Cardinality(Coro)]

Count(c, s) == Cardinality({i \in 1..Len(s) : s[i] = c})

\* Worker p has left the coroutine it runs, which may be queued; it is at
\* coco_global_runq_put() and will go on at a place.
Leaving(p) == th[p].at \in {"switch", "done"}
GoingTo(p, at) == th[p].at \in {"put", "peek", "signal"} /\ th[p].then = at

\* How often c is in a queue, in the hands of a thread that moves it, or running.
\* What runq_push_overflow() has yet to move is still queued.
Places(c) ==
    LET n[p \in 0..world.workers] ==
          IF p = 0 THEN Count(c, Stacked)
          ELSE n[p - 1] + Count(c, runq[p])
               + (IF cur[p] = c /\ ~ Leaving(p) /\ ~ GoingTo(p, "switch") THEN 1 ELSE 0)
               + (IF th[p].at = "push" \/ GoingTo(p, "push") THEN 0 ELSE Count(c, th[p].list))
    IN  n[world.workers] + Cardinality({t \in Thread : th[t].g = c})

\* Whatever is moved between queues, stolen, spilled or popped: a coroutine that
\* is ready or runs is in one place exactly, others in none, and the stack has
\* the size it says.
OnePlace ==
    /\ \A c \in Coro : Places(c) = IF \/ state[c] \in {"READY", "RUNNING"}
                                       \/ \E t \in Thread : th[t].g = c THEN 1 ELSE 0
    /\ size = Len(Stacked)

\* No coroutine is on two workers.
OneWorker == \A v, w \in P : v # w /\ cur[v] # None => cur[v] # cur[w]

\* A coroutine that is ready is run by one worker, once: it is neither dropped
\* nor doubled on its way through the queues.
RunOnce == OnePlace /\ OneWorker

\* The workers do not all sleep on while there is work: some thread that has
\* queued it is still to signal them.
NobodySleepsOnWork ==
    (\A w \in P : th[w].at = "asleep") /\ (\A t \in {Main, Outside} : th[t].at \in {"off", "main", "waited"})
        => head = None /\ \A p \in P : runq[p] = <<>>

\* When coco_global_sched_wait() has returned, the coroutines started are done.
WaitMeansDone ==
    th[Main].at = "waited" => \A c \in Coro : state[c] \in {"NEW", "FREED", "LOST"}

\* No worker sleeps through a stop, which would be waited for in vain.
StopIsSeen == th[Main].at = "join" => Asleep = {}

\* A worker that goes to sleep is woken for work and for the stop: neither is
\* missed between its last look and its wait.
WorkersWakeUp == NobodySleepsOnWork /\ StopIsSeen
=============================================================================
