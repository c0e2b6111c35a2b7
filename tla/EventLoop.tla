----------------------------- MODULE EventLoop ------------------------------
(***************************************************************************)
(* Blocking I/O of coroutines in the single-threaded scheduler: the calls  *)
(* of io/event_loop.c, the epoll backend io/poll_linux.c and the table of  *)
(* io/fd_table.c that maps a descriptor to the coroutine that waits for    *)
(* it.  A coroutine runs from one yield to the next without interruption,  *)
(* so each action is one such stretch; the kernel and coco_cancel() act in *)
(* between.                                                                *)
(***************************************************************************)
EXTENDS Descriptors, FiniteSets

CONSTANTS
    Capacity0,     \* the first capacity of the fd table (1024 in the code)
    MaxLeft,       \* the size of a write, in pieces the kernel can take
    Opens          \* whether a reopened descriptor is O_NONBLOCK: a set of BOOLEANs

ASSUME EventLoopAssumption ==
    Capacity0 \in Nat \ {0} /\ MaxLeft \in Nat \ {0} /\ Opens \subseteq BOOLEAN

VARIABLES
    call,          \* the I/O call a coroutine is in
    state,         \* its state: RUNNING, READY or WAITING
    cancelled,     \* coroutines with the cancelled flag
    wait_fd,       \* coro->wait_fd
    table,         \* fd_table: the coroutine that waits for a descriptor
    marked,        \* fd_table: the descriptors cached as non-blocking
    capacity,      \* its capacity
    interest,      \* epoll: the event a descriptor is armed for, OFF after the
                   \* event was reported, ABSENT if it is not in the set
    nonblock,      \* the kernel's O_NONBLOCK flag
    ready          \* the events (IN, OUT) that hold for a descriptor

loopVars == <<call, state, cancelled, wait_fd, table, marked, capacity, interest, nonblock,
              ready>>

NoCall == [kind |-> "none", fd |-> 0, left |-> 0]
Event(kind) == IF kind = "read" THEN "IN" ELSE "OUT"

\* What the parts of the state hold.
LoopTypeOK ==
    /\ call \in [Coro -> [kind : {"read", "write", "connect"}, fd : Fd, left : 1..MaxLeft]
                         \cup {NoCall}]
    /\ state \in [Coro -> {"RUNNING", "READY", "WAITING"}]
    /\ cancelled \subseteq Coro
    /\ wait_fd \in [Coro -> Fd \cup {-1}]
    /\ table \in [Fd -> Coro \cup {None}]
    /\ marked \subseteq Fd
    /\ capacity \in Nat
    /\ interest \in [Fd -> {"IN", "OUT", "OFF", "ABSENT"}]
    /\ nonblock \subseteq Fd
    /\ ready \in [Fd -> SUBSET {"IN", "OUT"}]

-----------------------------------------------------------------------------
(* The fd table.                                                           *)

\* Mutant of fd_table_ensure_capacity: doubled once.
fd_table_ensure_capacity_Once(cap, fd) == IF fd < cap THEN cap ELSE 2 * cap

\* fd_table_ensure_capacity(): doubled until the descriptor fits.
fd_table_ensure_capacity(cap, fd) ==
    LET grow[n \in 0..NFd] == IF n = 0 THEN cap
                              ELSE IF grow[n - 1] <= fd THEN 2 * grow[n - 1] ELSE grow[n - 1]
    IN  grow[NFd]

\* fd_table_get() and fd_table_is_nonblock() see nothing beyond the capacity.
fd_table_get(fd) == IF fd < capacity THEN table[fd] ELSE None
fd_table_is_nonblock(fd) == fd < capacity /\ fd \in marked

\* fd_table_set(), for a descriptor that coco_poll_set_nonblock() has made
\* room for, and fd_table_clear(): the table they leave.
fd_table_set(tab, fd, c) == [tab EXCEPT ![fd] = c]
fd_table_clear(tab, fd) == IF fd < capacity THEN [tab EXCEPT ![fd] = None] ELSE tab

\* Mutant of coco_poll_set_nonblock: a descriptor beyond the table is left alone.
coco_poll_set_nonblock_InTable(fd) ==
    IF fd >= capacity \/ fd_table_is_nonblock(fd)
    THEN UNCHANGED <<nonblock, marked, capacity>>
    ELSE nonblock' = nonblock \cup {fd} /\ marked' = marked \cup {fd} /\ UNCHANGED capacity

\* coco_poll_set_nonblock(), whose cached answer saves the fcntl().
coco_poll_set_nonblock(fd) ==
    IF fd_table_is_nonblock(fd)
    THEN UNCHANGED <<nonblock, marked, capacity>>
    ELSE /\ nonblock' = nonblock \cup {fd}
         /\ capacity' = fd_table_ensure_capacity(capacity, fd)
         /\ marked' = marked \cup {fd}

-----------------------------------------------------------------------------
(* Waiting for a descriptor.                                               *)

\* The call of c returns.
Return(c) ==
    /\ call' = [call EXCEPT ![c] = NoCall]
    /\ state' = [state EXCEPT ![c] = "RUNNING"]
    /\ UNCHANGED wait_fd

\* coco_poll_register() and coco_yield() for call k of c.  A descriptor that
\* is in the epoll set cannot be added: then c stays RUNNING, and yields as
\* one that is ready.
WaitFor(c, k, ints, tab) ==
    /\ call' = [call EXCEPT ![c] = k]
    /\ IF ints[k.fd] = "ABSENT"
       THEN /\ interest' = [ints EXCEPT ![k.fd] = Event(k.kind)]
            /\ table' = fd_table_set(tab, k.fd, c)
            /\ wait_fd' = [wait_fd EXCEPT ![c] = k.fd]
            /\ state' = [state EXCEPT ![c] = "WAITING"]
       ELSE /\ interest' = ints /\ table' = tab
            /\ state' = [state EXCEPT ![c] = "READY"]
            /\ UNCHANGED wait_fd

\* What a system call can take of call k without finishing it.
Partial(k) == 1..(k.left - 1)

\* One round of the loop of coco_read(), coco_accept(), coco_write() or
\* coco_sendfile(), from the epoll set and table it finds: nothing if c is
\* cancelled; else the system call fails, finishes the call, takes a part
\* (and then would block), or would block.
Attempt(c, k, ints, tab) ==
    LET e == Event(k.kind) IN
    \/ /\ c \in cancelled
       /\ Return(c)
       /\ interest' = ints /\ table' = tab
       /\ UNCHANGED ready
    \/ /\ c \notin cancelled
       /\ Return(c)
       /\ interest' = ints /\ table' = tab
       /\ ready' \in {ready} \cup IF e \in ready[k.fd]
                                  THEN {[ready EXCEPT ![k.fd] = @ \ {e}]} ELSE {}
    \/ /\ c \notin cancelled /\ e \in ready[k.fd]
       /\ \E n \in Partial(k) : WaitFor(c, [k EXCEPT !.left = @ - n], ints, tab)
       /\ ready' = [ready EXCEPT ![k.fd] = @ \ {e}]
    \/ /\ c \notin cancelled /\ e \notin ready[k.fd]
       /\ WaitFor(c, k, ints, tab)
       /\ UNCHANGED ready

\* The start of a call of c: its descriptor becomes non-blocking.
Start(c, fd) ==
    /\ call[c] = NoCall
    /\ fd \in Shared \/ \A x \in Coro : call[x] # NoCall => call[x].fd # fd
    /\ coco_poll_set_nonblock(fd)

\* The four calls that loop.  A read and an accept end with the first system
\* call that succeeds; a write and a sendfile go on until all is written.
coco_read(c, fd) ==
    /\ Start(c, fd)
    /\ Attempt(c, [kind |-> "read", fd |-> fd, left |-> 1], interest, table)
    /\ UNCHANGED cancelled

coco_accept(c, fd) ==
    /\ Start(c, fd)
    /\ Attempt(c, [kind |-> "read", fd |-> fd, left |-> 1], interest, table)
    /\ UNCHANGED cancelled

coco_write(c, fd) ==
    /\ Start(c, fd)
    /\ Attempt(c, [kind |-> "write", fd |-> fd, left |-> MaxLeft], interest, table)
    /\ UNCHANGED cancelled

coco_sendfile(c, out_fd) ==
    /\ Start(c, out_fd)
    /\ Attempt(c, [kind |-> "write", fd |-> out_fd, left |-> MaxLeft], interest, table)
    /\ UNCHANGED cancelled

\* A coroutine calls coco_connect(), which connects at once, fails, or waits.
coco_connect(c, fd) ==
    LET k == [kind |-> "connect", fd |-> fd, left |-> 1] IN
    /\ Start(c, fd)
    /\ \/ Return(c) /\ UNCHANGED <<interest, table>>
       \/ c \notin cancelled /\ WaitFor(c, k, interest, table)
    /\ UNCHANGED <<ready, cancelled>>

\* coco_poll_unregister(): the epoll set and the table without fd.
coco_poll_unregister(fd) ==
    <<[interest EXCEPT ![fd] = "ABSENT"], fd_table_clear(table, fd)>>

\* A ready coroutine runs again: it unregisters its descriptor and tries
\* again; coco_connect() just looks at the outcome.
Resume(c) ==
    LET k == call[c]
        un == coco_poll_unregister(k.fd)
    IN
    /\ state[c] = "READY"
    /\ \/ k.kind # "connect" /\ Attempt(c, k, un[1], un[2])
       \/ /\ k.kind = "connect" /\ Return(c)
          /\ interest' = un[1] /\ table' = un[2]
          /\ UNCHANGED ready
    /\ UNCHANGED <<cancelled, marked, capacity, nonblock>>

\* coco_cancel() by another coroutine: one that waits for a descriptor is
\* unregistered and made ready.
coco_cancel(c) ==
    /\ call[c] # NoCall
    /\ c \notin cancelled
    /\ cancelled' = cancelled \cup {c}
    /\ IF state[c] = "WAITING"
       THEN /\ interest' = coco_poll_unregister(wait_fd[c])[1]
            /\ table' = coco_poll_unregister(wait_fd[c])[2]
            /\ wait_fd' = [wait_fd EXCEPT ![c] = -1]
            /\ state' = [state EXCEPT ![c] = "READY"]
       ELSE UNCHANGED <<interest, table, wait_fd, state>>
    /\ UNCHANGED <<call, marked, capacity, nonblock, ready>>

\* The descriptors epoll_wait() can report: each once (EPOLLONESHOT).
Reportable == {fd \in Fd : interest[fd] \in ready[fd]}

\* coco_poll_wait(): some of the reportable events; the coroutine the table
\* has for each is made ready if it waits.
coco_poll_wait ==
    \E evs \in SUBSET Reportable \ {{}} :
        LET woken == {fd \in evs : /\ fd_table_get(fd) # None
                                   /\ state[fd_table_get(fd)] = "WAITING"}
            who == {table[fd] : fd \in woken}
        IN  /\ interest' = [fd \in Fd |-> IF fd \in evs THEN "OFF" ELSE interest[fd]]
            /\ table' = [fd \in Fd |-> IF fd \in woken THEN None ELSE table[fd]]
            /\ state' = [c \in Coro |-> IF c \in who THEN "READY" ELSE state[c]]
            /\ wait_fd' = [c \in Coro |-> IF c \in who THEN -1 ELSE wait_fd[c]]
            /\ UNCHANGED <<call, cancelled, marked, capacity, nonblock, ready>>

\* The kernel: an event comes true.
KernelReady(fd, e) ==
    /\ e \notin ready[fd]
    /\ ready' = [ready EXCEPT ![fd] = @ \cup {e}]
    /\ UNCHANGED <<call, state, cancelled, wait_fd, table, marked, capacity, interest, nonblock>>

\* The program closes a descriptor nobody uses and opens another file, which
\* gets the same number.
Reopen(fd, nb) ==
    /\ \A c \in Coro : call[c] # NoCall => call[c].fd # fd
    /\ nonblock' = IF nb THEN nonblock \cup {fd} ELSE nonblock \ {fd}
    /\ ready' = [ready EXCEPT ![fd] = {}]
    /\ interest' = [interest EXCEPT ![fd] = "ABSENT"]
    /\ UNCHANGED <<call, state, cancelled, wait_fd, table, marked, capacity>>

-----------------------------------------------------------------------------

\* coco_poll_init(): an empty epoll set and table.
LoopInit ==
    /\ call = [c \in Coro |-> NoCall]
    /\ state = [c \in Coro |-> "RUNNING"]
    /\ cancelled = {}
    /\ wait_fd = [c \in Coro |-> -1]
    /\ table = [fd \in Fd |-> None]
    /\ marked = {}
    /\ capacity = Capacity0
    /\ interest = [fd \in Fd |-> "ABSENT"]
    /\ nonblock = {}
    /\ ready = [fd \in Fd |-> {}]

LoopNext ==
    \/ \E c \in Coro, fd \in Fd :
         \/ coco_read(c, fd) \/ coco_accept(c, fd) \/ coco_connect(c, fd)
         \/ coco_write(c, fd) \/ coco_sendfile(c, fd)
    \/ \E c \in Coro : Resume(c)
    \/ \E c \in Coro : coco_cancel(c)
    \/ coco_poll_wait
    \/ \E fd \in Fd, e \in {"IN", "OUT"} : KernelReady(fd, e)
    \/ \E fd \in Fd, nb \in Opens : Reopen(fd, nb)

LoopSpec == LoopInit /\ [][LoopNext]_loopVars

-----------------------------------------------------------------------------
(* Properties.                                                             *)

\* A coroutine that waits for a descriptor can be woken: it is in the table,
\* within the capacity, and epoll is armed for its event; and whoever is in
\* the table waits there.  No event, cancellation, growth of the table or
\* call on another descriptor breaks this.
WaitersAreArmed ==
    LoopTypeOK /\ \A fd \in Fd :
        /\ \A c \in Coro : state[c] = "WAITING" /\ call[c].fd = fd =>
             /\ wait_fd[c] = fd /\ fd_table_get(fd) = c
             /\ interest[fd] = Event(call[c].kind)
        /\ table[fd] # None => state[table[fd]] = "WAITING" /\ call[table[fd]].fd = fd

\* No call ever uses a blocking descriptor, which would stop the scheduler
\* and every other coroutine with it.
NeverBlocks == \A c \in Coro : call[c] # NoCall => call[c].fd \in nonblock
=============================================================================
