------------------------------ MODULE IoUring -------------------------------
(***************************************************************************)
(* The io_uring backend (io/poll_iouring.c), which coco_poll_init() prefers *)
(* to epoll: the pool of request blocks, the waits for a descriptor that   *)
(* the calls of io/event_loop.c make, reads and writes of files, and       *)
(* batches.  One thread runs the coroutines, each from one yield to the    *)
(* next; the kernel completes what was submitted in any order.             *)
(*                                                                         *)
(* The kernel's answer to an operation is the operation itself, so a call  *)
(* can be seen to get the answer to another one.  The fd table is not      *)
(* modelled here: this backend writes it and never reads it.               *)
(***************************************************************************)
EXTENDS Descriptors, Sequences, FiniteSets

CONSTANTS
    Rings,         \* the programs: queue_depth, how many coroutines, what they do
    MaxItems,      \* operations of a batch (64 in the code)
    MaxPool,       \* bound: the size up to which the pool of requests grows
    Moves          \* whether the realloc() of the pool moves it: a set of BOOLEANs

ASSUME IoUringAssumption ==
    /\ MaxItems \in Nat \ {0} /\ MaxPool \in Nat \ {0}
    /\ Moves \subseteq BOOLEAN

VARIABLES
    ring,          \* the program of this behaviour
    on,            \* the coroutine that runs, or None for coco_sched_run()
    doing,         \* the call a coroutine is in
    ustate,        \* coro->state
    queue,         \* the coroutines in the ready lists
    stopped,       \* the coroutines with the cancelled flag
    reqs,          \* the pool: blocks, free list, size, and how often it has moved
    sq,            \* prepared and not yet submitted
    kernel,        \* submitted and not yet completed
    cq,            \* completed and not yet seen
    answers        \* what the last call of a coroutine was asked and got

uringVars == <<ring, on, doing, ustate, queue, stopped, reqs, sq, kernel, cq, answers>>
rings == <<reqs, sq, kernel, cq>>

Idle == [kind |-> "none"]
NoBlock == [type |-> "none", coro |-> None, result |-> None]
NoAnswer == [asked |-> <<>>, got |-> <<>>]

\* An operation, told apart from every other that is under way.
Op(c, kind, n) == [coro |-> c, kind |-> kind, n |-> n]

-----------------------------------------------------------------------------
(* Requests.                                                               *)

\* req_pool_grow(): twice the blocks, the new ones in the free list; the
\* array may move.
req_pool_grow(p, moved) ==
    LET n == IF p.size = 0 THEN ring.entries ELSE 2 * p.size
    IN  [size |-> n,
         gen |-> IF moved THEN p.gen + 1 ELSE p.gen,
         head |-> n - 1,
         next |-> [i \in 0..(n - 1) |-> IF i < p.size THEN p.next[i]
                                        ELSE IF i = p.size THEN p.head ELSE i - 1],
         block |-> [i \in 0..(n - 1) |-> IF i < p.size THEN p.block[i] ELSE NoBlock]]

\* The pool req_alloc() takes from: it grows when nothing is free.
Grown(p, moved) == IF p.head = -1 THEN req_pool_grow(p, moved) ELSE p

\* Mutant of req_alloc: the block stays in the free list.
req_alloc_Keeps(p, c, type) ==
    [at |-> [gen |-> p.gen, i |-> p.head],
     pool |-> [p EXCEPT !.block[p.head] = [type |-> type, coro |-> c, result |-> None]]]

\* req_alloc(): the pool after it, and the address of the block.
req_alloc(p, c, type) ==
    LET i == p.head
    IN  [at |-> [gen |-> p.gen, i |-> i],
         pool |-> [p EXCEPT !.head = p.next[i], !.next[i] = -1,
                            !.block[i] = [type |-> type, coro |-> c, result |-> None]]]

\* req_free(): the block goes to the head of the free list, its contents
\* stay.  (An address in an array that has moved is not in the pool; what
\* the free() of it does is not modelled: RequestsOwned is broken by then.)
req_free(p, at) ==
    IF at.gen = p.gen THEN [p EXCEPT !.next[at.i] = p.head, !.head = at.i] ELSE p

\* A request of c and its SQE: none if the submission queue is full.
Prepare(p, q, c, type, op, moved) ==
    LET a == req_alloc(Grown(p, moved), c, type)
    IN  IF Len(q) = ring.entries
        THEN [ok |-> FALSE, at |-> a.at, pool |-> req_free(a.pool, a.at), sq |-> q]
        ELSE [ok |-> TRUE, at |-> a.at, pool |-> a.pool,
              sq |-> Append(q, [data |-> a.at, op |-> op])]

\* c runs, in no call, and the program has this one.
MayCall(c, op) == on = c /\ doing[c] = Idle /\ op \in ring.ops

\* coco_yield() of c in state st: only a RUNNING coroutine is queued.
coco_yield(c, st) ==
    /\ on' = None
    /\ ustate' = [ustate EXCEPT ![c] = IF st = "RUNNING" THEN "READY" ELSE st]
    /\ queue' = IF st = "RUNNING" THEN queue \cup {c} ELSE queue

\* coco_sched_run() takes c from the ready lists and switches to it.
Dispatch(c) ==
    /\ on = None /\ c \in queue
    /\ on' = c
    /\ queue' = queue \ {c}
    /\ ustate' = [ustate EXCEPT ![c] = "RUNNING"]
    /\ doing' = IF doing[c].kind = "sleep" THEN [doing EXCEPT ![c] = Idle] ELSE doing
    /\ UNCHANGED <<ring, stopped, rings, answers>>

\* A yield of the program, in no call or between two calls of a batch.
YieldUring(c) ==
    /\ on = c /\ doing[c].kind \in {"none", "batch"} /\ "yield" \in ring.ops
    /\ coco_yield(c, ustate[c])
    /\ UNCHANGED <<ring, doing, stopped, rings, answers>>

\* c blocks in something else, a timer or a channel, and is made ready by it.
Sleep(c) ==
    /\ MayCall(c, "sleep")
    /\ doing' = [doing EXCEPT ![c] = [kind |-> "sleep"]]
    /\ coco_yield(c, "WAITING")
    /\ UNCHANGED <<ring, stopped, rings, answers>>
Awake(c) ==
    /\ doing[c].kind = "sleep" /\ ustate[c] = "WAITING"
    /\ ustate' = [ustate EXCEPT ![c] = "READY"]
    /\ queue' = queue \cup {c}
    /\ UNCHANGED <<ring, on, doing, stopped, rings, answers>>

-----------------------------------------------------------------------------
(* Waiting for a descriptor.                                               *)

\* coco_poll_register_iouring() and the coco_yield() after it.  The callers
\* ignore its error, so without a request c yields in the state it has.
coco_poll_register_iouring(c, fd) ==
    \E moved \in Moves :
        LET r == Prepare(reqs, sq, c, "poll", Op(c, "poll", fd), moved) IN
        /\ r.pool.size <= MaxPool
        /\ reqs' = r.pool
        /\ sq' = r.sq
        /\ doing' = [doing EXCEPT ![c] = [kind |-> "poll", fd |-> fd]]
        /\ coco_yield(c, IF r.ok THEN "WAITING" ELSE ustate[c])

\* A call of io/event_loop.c would block.
StartPoll(c, fd) ==
    /\ MayCall(c, "poll")
    /\ c \notin stopped
    /\ coco_poll_register_iouring(c, fd)
    /\ UNCHANGED <<ring, stopped, kernel, cq, answers>>

\* It runs again, and returns or, unless c is cancelled, would block again.
\* coco_poll_unregister_iouring() only clears the fd table.
ResumePoll(c) ==
    /\ on = c /\ doing[c].kind = "poll"
    /\ \/ /\ doing' = [doing EXCEPT ![c] = Idle]
          /\ UNCHANGED <<on, ustate, queue, reqs, sq>>
       \/ c \notin stopped /\ coco_poll_register_iouring(c, doing[c].fd)
    /\ UNCHANGED <<ring, stopped, kernel, cq, answers>>

\* Mutant of Wakes: only the completion of a poll makes its coroutine ready.
Wakes_PollOnly(b) == b.type = "poll"

\* The types of request whose completion makes the coroutine ready.
Wakes(b) == b.type \in {"poll", "read", "write"}

\* coco_poll_wait_iouring() handles completion e: s is the pool and the
\* states before it.  A block nobody has is left alone.
Handle(s, e) ==
    LET b == s.pool.block[e.data.i]
        p == IF b.type \in {"read", "write"}
             THEN [s.pool EXCEPT !.block[e.data.i].result = e.op] ELSE s.pool
    IN  IF b.coro = None THEN s
        ELSE [pool |-> req_free(p, e.data),
              state |-> IF Wakes(b) /\ s.state[b.coro] = "WAITING"
                        THEN [s.state EXCEPT ![b.coro] = "READY"] ELSE s.state]

\* coco_poll_wait_iouring(), when nobody is ready: all that is prepared is
\* submitted, all that has completed is handled.
coco_poll_wait_iouring ==
    LET after[k \in 0..Len(cq)] ==
            IF k = 0 THEN [pool |-> reqs, state |-> ustate] ELSE Handle(after[k - 1], cq[k])
        end == after[Len(cq)]
    IN  /\ on = None /\ queue = {}
        /\ sq # <<>> \/ cq # <<>>
        /\ kernel' = kernel \o sq
        /\ sq' = <<>>
        /\ cq' = <<>>
        /\ reqs' = end.pool
        /\ ustate' = end.state
        /\ queue' = {c \in Coro : end.state[c] # ustate[c]}
        /\ UNCHANGED <<ring, on, doing, stopped, answers>>

\* coco_cancel() of c by the coroutine that runs: if c waits it is made
\* ready, and its request stays with the kernel.
CancelUring(c) ==
    /\ on \notin {None, c} /\ doing[on] = Idle /\ "cancel" \in ring.ops
    /\ c \notin stopped /\ ustate[c] # "ABSENT"
    /\ stopped' = stopped \cup {c}
    /\ IF ustate[c] = "WAITING"
       THEN ustate' = [ustate EXCEPT ![c] = "READY"] /\ queue' = queue \cup {c}
       ELSE UNCHANGED <<ustate, queue>>
    /\ UNCHANGED <<ring, on, doing, rings, answers>>

-----------------------------------------------------------------------------
(* Files.                                                                  *)

\* coco_file_read(), coco_file_write(), coco_file_open() or coco_file_close()
\* up to its yield; without a request it returns an error.
coco_file(c, kind) ==
    /\ MayCall(c, kind)
    /\ \E moved \in Moves :
         LET r == Prepare(reqs, sq, c, kind, Op(c, kind, 0), moved) IN
         /\ r.pool.size <= MaxPool
         /\ reqs' = r.pool
         /\ sq' = r.sq
         /\ IF r.ok
            THEN /\ doing' = [doing EXCEPT ![c] = [kind |-> kind, at |-> r.at]]
                 /\ coco_yield(c, "WAITING")
            ELSE UNCHANGED <<on, doing, ustate, queue>>
    /\ UNCHANGED <<ring, stopped, kernel, cq, answers>>

\* The rest of it: c returns what its request says, and frees it again.
coco_file_end(c) ==
    /\ on = c /\ doing[c].kind \in {"read", "write", "open", "close"}
    /\ answers' = [answers EXCEPT ![c] = [asked |-> <<Op(c, doing[c].kind, 0)>>,
                                          got |-> <<reqs.block[doing[c].at.i].result>>]]
    /\ reqs' = req_free(reqs, doing[c].at)
    /\ doing' = [doing EXCEPT ![c] = Idle]
    /\ UNCHANGED <<ring, on, ustate, queue, stopped, sq, kernel, cq>>

-----------------------------------------------------------------------------
(* Batches.  A context comes from a pool or from the heap, so there always *)
(* is one.                                                                 *)

\* coco_batch_begin_iouring().
coco_batch_begin(c) ==
    /\ MayCall(c, "batch")
    /\ doing' = [doing EXCEPT ![c] = [kind |-> "batch", items |-> <<>>,
                                      submitted |-> FALSE, completed |-> 0]]
    /\ UNCHANGED <<ring, on, ustate, queue, stopped, rings, answers>>

\* c is between two calls of the batch API.
InBatch(c) == on = c /\ doing[c].kind = "batch"

\* coco_batch_add_read_iouring() and coco_batch_add_write_iouring().
coco_batch_add(c, type) ==
    /\ InBatch(c)
    /\ ~doing[c].submitted /\ Len(doing[c].items) < MaxItems
    /\ doing' = [doing EXCEPT ![c].items = Append(@, [type |-> type, at |-> None, result |-> None])]
    /\ UNCHANGED <<ring, on, ustate, queue, stopped, rings, answers>>

\* The requests of the items of c, up to the first there was no room for.
Requests(c, moved) ==
    LET items == doing[c].items
        add[k \in 0..Len(items)] ==
            IF k = 0 THEN [ok |-> TRUE, at |-> <<>>, pool |-> reqs, sq |-> sq]
            ELSE IF ~add[k - 1].ok THEN add[k - 1]
            ELSE LET s == add[k - 1]
                     r == Prepare(s.pool, s.sq, c, items[k].type, Op(c, "batch", k), moved)
                 IN  [ok |-> r.ok, pool |-> r.pool, sq |-> r.sq,
                      at |-> IF r.ok THEN Append(s.at, r.at) ELSE s.at]
    IN  add[Len(items)]

\* coco_batch_submit_iouring() up to its wait.  If the submission queue is
\* full the requests made so far are freed, and their SQEs stay in it.
coco_batch_submit(c) ==
    /\ InBatch(c)
    /\ ~doing[c].submitted /\ doing[c].items # <<>>
    /\ \E moved \in Moves :
         LET r == Requests(c, moved)
             back[k \in 0..Len(r.at)] == IF k = 0 THEN r.pool ELSE req_free(back[k - 1], r.at[k])
         IN
         /\ r.pool.size <= MaxPool
         /\ IF r.ok
            THEN /\ doing' = [doing EXCEPT ![c].kind = "reap", ![c].submitted = TRUE,
                                 ![c].items = [k \in DOMAIN @ |-> [@[k] EXCEPT !.at = r.at[k]]]]
                 /\ ustate' = [ustate EXCEPT ![c] = "WAITING"]
                 /\ kernel' = kernel \o r.sq
                 /\ sq' = <<>>
                 /\ reqs' = r.pool
            ELSE /\ doing' = [doing EXCEPT ![c].submitted = TRUE]
                 /\ sq' = r.sq
                 /\ reqs' = back[Len(r.at)]
                 /\ UNCHANGED <<ustate, kernel>>
    /\ UNCHANGED <<ring, on, queue, stopped, cq, answers>>

\* The item a completion belongs to: the first that has its request.
ItemOf(d, at) == {k \in DOMAIN d.items : d.items[k].at = at /\ \A j \in 1..(k - 1) : d.items[j].at # at}

\* Its wait, on the thread of the scheduler, takes one completion, whoever's
\* it is; after as many as there are items it returns, in state READY.
coco_batch_reap(c) ==
    LET e == Head(cq)
        n == doing[c].completed + 1
        items == [k \in DOMAIN doing[c].items |->
                    IF k \in ItemOf(doing[c], e.data)
                    THEN [doing[c].items[k] EXCEPT !.result = e.op] ELSE doing[c].items[k]]
    IN  /\ on = c /\ doing[c].kind = "reap"
        /\ cq # <<>>
        /\ cq' = Tail(cq)
        /\ reqs' = req_free([reqs EXCEPT !.block[e.data.i].result = e.op], e.data)
        /\ IF n < Len(items)
           THEN /\ doing' = [doing EXCEPT ![c].completed = n, ![c].items = items]
                /\ UNCHANGED <<ustate, answers>>
           ELSE /\ doing' = [doing EXCEPT ![c].completed = n, ![c].items = items, ![c].kind = "batch"]
                /\ ustate' = [ustate EXCEPT ![c] = "READY"]
                /\ answers' = [answers EXCEPT ![c] =
                                 [asked |-> [k \in DOMAIN items |-> Op(c, "batch", k)],
                                  got |-> [k \in DOMAIN items |-> items[k].result]]]
        /\ UNCHANGED <<ring, on, queue, stopped, sq, kernel>>

\* coco_batch_cancel_iouring().
coco_batch_cancel(c) ==
    /\ InBatch(c) /\ ~doing[c].submitted
    /\ doing' = [doing EXCEPT ![c].submitted = TRUE]
    /\ UNCHANGED <<ring, on, ustate, queue, stopped, rings, answers>>

\* coco_batch_end_iouring().
coco_batch_end(c) ==
    /\ InBatch(c)
    /\ doing' = [doing EXCEPT ![c] = Idle]
    /\ UNCHANGED <<ring, on, ustate, queue, stopped, rings, answers>>

\* The kernel completes one of the operations it has.
KernelCompletes(k) ==
    /\ cq' = Append(cq, kernel[k])
    /\ kernel' = SubSeq(kernel, 1, k - 1) \o SubSeq(kernel, k + 1, Len(kernel))
    /\ UNCHANGED <<ring, on, doing, ustate, queue, stopped, reqs, sq, answers>>

-----------------------------------------------------------------------------

\* coco_poll_init_iouring(): a pool of queue_depth free blocks.
UringInit ==
    /\ ring \in Rings
    /\ queue \in {S \in SUBSET Coro : Cardinality(S) = ring.coros}
    /\ on = None
    /\ doing = [c \in Coro |-> Idle]
    /\ ustate = [c \in Coro |-> IF c \in queue THEN "READY" ELSE "ABSENT"]
    /\ stopped = {}
    /\ reqs = req_pool_grow([size |-> 0, gen |-> 0, head |-> -1, next |-> <<>>, block |-> <<>>],
                            FALSE)
    /\ sq = <<>> /\ kernel = <<>> /\ cq = <<>>
    /\ answers = [c \in Coro |-> NoAnswer]

UringNext ==
    \/ \E c \in Coro :
         \/ Dispatch(c) \/ YieldUring(c) \/ Sleep(c) \/ Awake(c)
         \/ \E fd \in Fd : StartPoll(c, fd)
         \/ ResumePoll(c) \/ CancelUring(c)
         \/ \E kind \in {"read", "write", "open", "close"} : coco_file(c, kind)
         \/ coco_file_end(c)
         \/ coco_batch_begin(c)
         \/ \E type \in {"read", "write"} : coco_batch_add(c, type)
         \/ coco_batch_submit(c) \/ coco_batch_reap(c) \/ coco_batch_cancel(c) \/ coco_batch_end(c)
    \/ coco_poll_wait_iouring
    \/ \E k \in 1..Len(kernel) : KernelCompletes(k)

-----------------------------------------------------------------------------
(* Properties.                                                             *)

\* The requests under way.
UnderWay == sq \o kernel \o cq

\* The block of a request under way is where the kernel was told it is, and
\* serves no other request: no completion is handled with the block of
\* another one, whatever order they come in and whoever was cancelled.
RequestsOwned ==
    \A j \in DOMAIN UnderWay :
        /\ UnderWay[j].data.gen = reqs.gen
        /\ \A k \in DOMAIN UnderWay : UnderWay[k].data = UnderWay[j].data => k = j

\* A coroutine that does not run will run again: it is in a ready list, or
\* waits with a request under way that is its own, or blocks elsewhere.
NobodyIsLost ==
    \A c \in Coro \ {on} : ustate[c] # "ABSENT" =>
        \/ c \in queue
        \/ doing[c].kind = "sleep"
        \/ /\ ustate[c] = "WAITING"
           /\ \E j \in DOMAIN UnderWay : reqs.block[UnderWay[j].data.i].coro = c

\* A call returns the kernel's answers to its own operations, each in its
\* place, in whatever order the completions came.
AnswersAreOwn == \A c \in Coro : answers[c].got = answers[c].asked

\* A completion goes to the operation it is the completion of, and no other.
CompletionsAreOwn == RequestsOwned /\ AnswersAreOwn
=============================================================================
