----------------------------- MODULE Netpoller ------------------------------
(***************************************************************************)
(* I/O in the multi-threaded scheduler: the netpoller of                   *)
(* io/netpoller_mt.c, a thread of its own that waits in epoll_wait() and   *)
(* makes coroutines ready, against the coroutines that register and        *)
(* unregister (io/event_loop.c) and the thread that starts and stops it.   *)
(* There is one worker, so that a coroutine made ready is not run before   *)
(* it has yielded; np->lock covers register, unregister and the dispatch   *)
(* of one event, which are one action each.                                *)
(***************************************************************************)
EXTENDS Descriptors, FiniteSets

CONSTANTS
    Info,          \* the blocks a coco_fd_info_t can occupy
    HangUps        \* the sets of events a hang-up can raise

ASSUME NetpollerAssumption ==
    /\ None \notin Info
    /\ HangUps \subseteq SUBSET {"read", "write", "HUP"}

VARIABLES
    io,            \* the call of a coroutine: where it is, descriptor, event
    cur,           \* the coroutine on the worker
    runq,          \* coroutines handed to schedule_ready()
    holds,         \* the events that hold for a descriptor
    epoll,         \* the epoll set: armed events and data.ptr of a descriptor
    info,          \* the contents of the blocks
    fds,           \* np->fd_table
    thread,        \* the netpoller thread: where it is, the events it still
                   \* has to handle, the coroutine it is about to make ready
    running, wakeup, main   \* np->running, the eventfd, the controlling thread

pollVars == <<io, cur, runq, holds, epoll, info, fds, thread, running, wakeup, main>>

NoInfo == [fd |-> -1, read |-> None, write |-> None]
Absent == [on |-> {}, ptr |-> None]
Away == [at |-> "idle", fd |-> 0, e |-> "read"]

\* The table of blocks: a lookup, an update (it grows as needed), and the
\* destruction of the table with all its blocks.
fd_info_table_get(fd) == fds[fd]
fd_info_table_set(fd, i) == fds' = [fds EXCEPT ![fd] = i]
fd_info_table_destroy == fds' = [fd \in Fd |-> None] /\ info' = [i \in Info |-> NoInfo]

-----------------------------------------------------------------------------
(* Coroutines.                                                             *)

\* The system call of a read, accept, write, sendfile or connect: it returns
\* if its event or a hang-up holds, perhaps using the event up; else it would
\* block.
TryIo(c, fd, e) ==
    \/ /\ holds[fd] \cap {e, "HUP"} # {}
       /\ io' = [io EXCEPT ![c] = Away] /\ cur' = None
       /\ holds' \in {holds, [holds EXCEPT ![fd] = IF "HUP" \in @ THEN @ ELSE @ \ {e}]}
    \/ /\ holds[fd] \cap {e, "HUP"} = {}
       /\ io' = [io EXCEPT ![c] = [at |-> "register", fd |-> fd, e |-> e]] /\ cur' = c
       /\ UNCHANGED holds

\* A coroutine starts a call.
StartIo(c, fd, e) ==
    /\ main = "up" /\ cur = None /\ io[c] = Away
    /\ fd \in Shared \/ \A x \in Coro : io[x] # Away => io[x].fd # fd
    /\ TryIo(c, fd, e)
    /\ UNCHANGED <<runq, epoll, info, fds, thread, running, wakeup, main>>

\* coco_netpoller_register(): the block of the descriptor, or a new one, gets
\* the coroutine, and the epoll entry, added or modified, this event alone.
coco_netpoller_register(c) ==
    LET fd == io[c].fd IN
    /\ io[c].at = "register"
    /\ \E i \in IF fd_info_table_get(fd) # None THEN {fd_info_table_get(fd)} ELSE {j \in Info : info[j] = NoInfo} :
        /\ info' = [info EXCEPT ![i].fd = fd, ![i][io[c].e] = c]
        /\ fd_info_table_set(fd, i)
        /\ epoll' = [epoll EXCEPT ![fd] = [on |-> {io[c].e}, ptr |-> i]]
    /\ io' = [io EXCEPT ![c].at = "yield"]
    /\ UNCHANGED <<cur, runq, holds, thread, running, wakeup, main>>

\* coco_yield() in state WAITING: the coroutine just leaves the worker.
YieldIo(c) ==
    /\ io[c].at = "yield"
    /\ io' = [io EXCEPT ![c].at = "parked"] /\ cur' = None
    /\ UNCHANGED <<runq, holds, epoll, info, fds, thread, running, wakeup, main>>

\* coco_netpoller_unregister(): the direction is cleared; a descriptor nobody
\* waits for leaves the epoll set and its block is freed.
coco_netpoller_unregister(fd, e) ==
    LET i == fd_info_table_get(fd)
        left == [info[i] EXCEPT ![e] = None]
    IN  IF i = None
        THEN UNCHANGED <<info, fds, epoll>>
        ELSE IF left.read = None /\ left.write = None
        THEN /\ epoll' = [epoll EXCEPT ![fd] = Absent]
             /\ fd_info_table_set(fd, None)
             /\ info' = [info EXCEPT ![i] = NoInfo]
        ELSE info' = [info EXCEPT ![i] = left] /\ UNCHANGED <<fds, epoll>>

\* The worker takes a ready coroutine, which unregisters and tries again.
ResumeIo(c) ==
    /\ main = "up" /\ cur = None /\ c \in runq
    /\ runq' = runq \ {c}
    /\ coco_netpoller_unregister(io[c].fd, io[c].e)
    /\ TryIo(c, io[c].fd, io[c].e)
    /\ UNCHANGED <<thread, running, wakeup, main>>

-----------------------------------------------------------------------------
(* The kernel.                                                             *)

\* An event comes true, or the other end hangs up.
NewEvent(fd) ==
    /\ \E evs \in {{"read"}, {"write"}} \cup HangUps :
         /\ ~ evs \subseteq holds[fd]
         /\ holds' = [holds EXCEPT ![fd] = @ \cup evs]
    /\ UNCHANGED <<io, cur, runq, epoll, info, fds, thread, running, wakeup, main>>

\* What epoll_wait() reports of fd: the armed events that hold, and a hang-up
\* whether asked for or not; nothing once it is disarmed (EPOLLONESHOT).
Report(fd) == IF epoll[fd].on = {} THEN {} ELSE holds[fd] \cap (epoll[fd].on \cup {"HUP"})

-----------------------------------------------------------------------------
(* The netpoller thread.                                                   *)

\* The loop condition.
netpoller_top ==
    /\ thread.at = "top"
    /\ thread' = [thread EXCEPT !.at = IF running THEN "wait" ELSE "exit"]
    /\ UNCHANGED <<io, cur, runq, holds, epoll, info, fds, running, wakeup, main>>

\* epoll_wait() returns some of the events there are, as data.ptr and mask.
netpoller_wait ==
    /\ thread.at = "wait"
    /\ \E evs \in SUBSET {fd \in Fd : Report(fd) # {}}, w \in {{}, {"wakeup"}} :
        /\ w = {} \/ wakeup
        /\ evs # {} \/ w # {}
        /\ thread' = [at |-> "handle", ready |-> None,
                      batch |-> {[ptr |-> epoll[fd].ptr, on |-> Report(fd)] : fd \in evs}
                                \cup {[ptr |-> None, on |-> x] : x \in IF w = {} THEN {} ELSE {w}}]
        /\ epoll' = [fd \in Fd |-> IF fd \in evs THEN [epoll[fd] EXCEPT !.on = {}] ELSE epoll[fd]]
    /\ UNCHANGED <<io, cur, runq, holds, info, fds, running, wakeup, main>>

\* Mutant of netpoller_wakeup_event: the loop over the events is left.
netpoller_wakeup_event_Break(ev) ==
    /\ thread.at = "handle" /\ thread.ready = None
    /\ ev \in thread.batch /\ ev.ptr = None
    /\ wakeup' = FALSE
    /\ thread' = [thread EXCEPT !.batch = {}]
    /\ UNCHANGED <<io, cur, runq, holds, epoll, info, fds, running, main>>

\* The wake-up event: the eventfd is read.
netpoller_wakeup_event(ev) ==
    /\ thread.at = "handle" /\ thread.ready = None
    /\ ev \in thread.batch /\ ev.ptr = None
    /\ wakeup' = FALSE
    /\ thread' = [thread EXCEPT !.batch = @ \ {ev}]
    /\ UNCHANGED <<io, cur, runq, holds, epoll, info, fds, running, main>>

\* Another event, under np->lock: the reader of its block if it can read, else
\* the writer if it can write.
netpoller_dispatch(ev) ==
    LET b == info[ev.ptr]
        e == IF "read" \in ev.on /\ b.read # None THEN "read"
             ELSE IF "write" \in ev.on /\ b.write # None THEN "write" ELSE "none"
    IN
    /\ thread.at = "handle" /\ thread.ready = None
    /\ ev \in thread.batch /\ ev.ptr # None
    /\ IF e = "none"
       THEN thread' = [thread EXCEPT !.batch = @ \ {ev}] /\ UNCHANGED info
       ELSE /\ thread' = [thread EXCEPT !.batch = @ \ {ev}, !.ready = b[e]]
            /\ info' = [info EXCEPT ![ev.ptr][e] = None]
    /\ UNCHANGED <<io, cur, runq, holds, epoll, fds, running, wakeup, main>>

\* schedule_ready(), after the lock was released.
netpoller_ready ==
    /\ thread.at = "handle" /\ thread.ready # None
    /\ runq' = runq \cup {thread.ready}
    /\ thread' = [thread EXCEPT !.ready = None]
    /\ UNCHANGED <<io, cur, holds, epoll, info, fds, running, wakeup, main>>

\* The end of the loop over the events.
netpoller_next ==
    /\ thread.at = "handle" /\ thread.ready = None /\ thread.batch = {}
    /\ thread' = [thread EXCEPT !.at = "top"]
    /\ UNCHANGED <<io, cur, runq, holds, epoll, info, fds, running, wakeup, main>>

-----------------------------------------------------------------------------
(* Start and stop.                                                         *)

NoThread == [at |-> "none", batch |-> {}, ready |-> None]

\* coco_netpoller_start().
coco_netpoller_start ==
    /\ main = "new"
    /\ running' = TRUE
    /\ thread' = [thread EXCEPT !.at = "top"]
    /\ main' = "up"
    /\ UNCHANGED <<io, cur, runq, holds, epoll, info, fds, wakeup>>

\* coco_netpoller_stop(), called when the workers have been joined: the flag,
\* then coco_netpoller_wakeup().
coco_netpoller_stop ==
    /\ \/ main = "up" /\ cur = None /\ main' = "stop" /\ running' = FALSE /\ UNCHANGED wakeup
       \/ main = "stop" /\ main' = "join" /\ wakeup' = TRUE /\ UNCHANGED running
    /\ UNCHANGED <<io, cur, runq, holds, epoll, info, fds, thread>>

\* The end of coco_netpoller_destroy(), once the thread is joined: the table
\* and its blocks are freed and the epoll set is closed.
coco_netpoller_destroy ==
    /\ main = "join" /\ thread.at = "exit"
    /\ main' = "down"
    /\ fd_info_table_destroy
    /\ epoll' = [fd \in Fd |-> Absent]
    /\ wakeup' = FALSE
    /\ thread' = NoThread
    /\ UNCHANGED <<io, cur, runq, holds, running>>

-----------------------------------------------------------------------------

\* coco_netpoller_create().
PollInit ==
    /\ io = [c \in Coro |-> Away] /\ cur = None /\ runq = {}
    /\ holds = [fd \in Fd |-> {}]
    /\ epoll = [fd \in Fd |-> Absent]
    /\ info = [i \in Info |-> NoInfo]
    /\ fds = [fd \in Fd |-> None]
    /\ thread = NoThread /\ running = FALSE /\ wakeup = FALSE /\ main = "new"

PollNext ==
    \/ \E c \in Coro, fd \in Fd, e \in {"read", "write"} : StartIo(c, fd, e)
    \/ \E c \in Coro : coco_netpoller_register(c) \/ YieldIo(c) \/ ResumeIo(c)
    \/ \E fd \in Fd : NewEvent(fd)
    \/ netpoller_top \/ netpoller_wait \/ netpoller_ready \/ netpoller_next
    \/ \E ev \in thread.batch : netpoller_wakeup_event(ev) \/ netpoller_dispatch(ev)
    \/ coco_netpoller_start \/ coco_netpoller_stop \/ coco_netpoller_destroy

PollSpec == PollInit /\ [][PollNext]_pollVars

-----------------------------------------------------------------------------
(* Properties.                                                             *)

Asleep(c) == io[c].at \in {"yield", "parked"}

\* While the netpoller lives, a coroutine that waits is on its way to run, or
\* an event for it is in the thread's hands, or the kernel is armed to report
\* one: no order of registering, polling, dispatching and stopping loses it.
SleepersAreWatched ==
    main \in {"up", "stop", "join"} =>
    \A c \in Coro : Asleep(c) =>
        LET i == fds[io[c].fd] IN
        \/ c \in runq \/ thread.ready = c
        \/ /\ i # None /\ info[i][io[c].e] = c
           /\ \/ io[c].e \in epoll[io[c].fd].on /\ epoll[io[c].fd].ptr = i
              \/ \E ev \in thread.batch : ev.ptr = i /\ io[c].e \in ev.on

\* Every pointer to a block, in the table, in the kernel or in an event the
\* thread has yet to handle, is to a block in use; a block names coroutines
\* that wait on its descriptor, and only sleeping coroutines are made ready.
BlocksAreLive ==
    /\ \A fd \in Fd : /\ fds[fd] # None => info[fds[fd]].fd = fd
                      /\ epoll[fd].ptr = fds[fd]
    /\ \A ev \in thread.batch : ev.ptr # None => info[ev.ptr] # NoInfo
    /\ \A i \in Info, e \in {"read", "write"} : info[i][e] # None =>
         Asleep(info[i][e]) /\ io[info[i][e]].fd = info[i].fd /\ io[info[i][e]].e = e
    /\ \A c \in runq \cup ({thread.ready} \ {None}) : Asleep(c)

\* A stop does not wait for a thread that sleeps in epoll_wait() for good.
StopIsHeard == main = "join" /\ thread.at = "wait" => wakeup

\* Nobody sleeps for good, neither a coroutine that has registered nor the thread
\* that stops the netpoller, and no event is dispatched through freed memory.
PollerKeepsAll == SleepersAreWatched /\ BlocksAreLive /\ StopIsHeard
=============================================================================
