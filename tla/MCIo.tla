-------------------------------- MODULE MCIo --------------------------------
(***************************************************************************)
(* An instance for TLC of what wakes a blocked coroutine: the timer wheel, *)
(* the event loop of one thread over epoll or over io_uring, or the        *)
(* netpoller of the multi-threaded scheduler.  They share nothing, so each *)
(* behaviour is about one of them.                                         *)
(***************************************************************************)
EXTENDS EventLoop, IoUring, Netpoller, MCTimerWheel, TLC

VARIABLE part

Symmetric == Permutations(Coro) \cup Permutations(Info)

\* Programs for the io_uring backend: two coroutines that wait for descriptors
\* and for other things, yield and cancel each other; one that submits batches
\* or waits for descriptors; one that reads and writes files.
PassingRings ==
    {[entries |-> n, coros |-> 2, ops |-> {"poll", "cancel", "yield", "sleep"}] : n \in {1, 2}}
    \cup {[entries |-> 2, coros |-> 1, ops |-> {"batch", "poll"}],
          [entries |-> 2, coros |-> 1, ops |-> {"read", "write"}]}

\* One that submits batches and yields: coco_yield() does not queue it, because
\* coco_batch_submit() leaves it READY, and NobodyIsLost is violated.
BatchThenYield == {[entries |-> 2, coros |-> 1, ops |-> {"batch", "yield"}]}

\* The descriptors the coroutines use with the netpoller, whose blocks are
\* linked to them one by one; the table of the event loop grows with the third.
Polled == {0, 1}

MCInit ==
    /\ part \in {"loop", "uring", "netpoller", "timer"}
    /\ LoopInit /\ UringInit /\ PollInit /\ Init
    /\ part # "uring" => ring = CHOOSE r \in Rings : TRUE

MCNext ==
    \/ part = "loop" /\ LoopNext /\ UNCHANGED <<uringVars, pollVars, vars, part>>
    \/ part = "uring" /\ UringNext /\ UNCHANGED <<loopVars, pollVars, vars, part>>
    \/ /\ part = "netpoller" /\ PollNext /\ UNCHANGED <<loopVars, uringVars, vars, part>>
       /\ \A c \in Coro : io'[c] # Away => io'[c].fd \in Polled
       /\ \A fd \in Fd \ Polled : holds'[fd] = {}
    \/ part = "timer" /\ Next /\ UNCHANGED <<loopVars, uringVars, pollVars, part>>

MCSpec == MCInit /\ [][MCNext]_<<loopVars, uringVars, pollVars, vars, part>>
=============================================================================
