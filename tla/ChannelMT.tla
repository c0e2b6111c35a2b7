----------------------------- MODULE ChannelMT ------------------------------
(***************************************************************************)
(* The channel for several threads (channel/channel_mt.c): a ring buffer,  *)
(* queues of waiting coroutines, condition variables for plain threads,    *)
(* and queues of coroutines blocked in a select over several channels.     *)
(*                                                                         *)
(* What runs under the lock of a channel is one action, when no other      *)
(* actor holds the lock.  The lock is explicit where it is held across     *)
(* steps that others can see: a send that has claimed a slot of the ring,  *)
(* a select that locks its channels one by one, a destroy.  The fast paths *)
(* of try_send and try_recv take no lock: they load the counters, exchange *)
(* one, and access the slot, in three steps.  Where they run beside what   *)
(* is locked, the code has more interleavings than the model, which still  *)
(* has only ones of the code.  A call that returns an error at once        *)
(* changes nothing and is left out.                                        *)
(***************************************************************************)
EXTENDS Integers, Sequences, FiniteSets

CONSTANTS
    ChanMt,            \* the channels
    CoroMt, ThreadMt,  \* the coroutines and the plain threads
    Null,              \* the NULL pointer
    Bits,              \* the width of the counters of a ring (32 in the code)
    MaxRetry,          \* trylocks before a select blocks (100 in the code)
    Uses               \* the programs: see MtInit

Actor == CoroMt \cup ThreadMt
Modulus == 2 ^ Bits

ASSUME ChannelMTAssumption ==
    /\ Null \notin Actor \cup ChanMt
    /\ Bits \in Nat \ {0} /\ MaxRetry \in Nat

VARIABLES
    use,               \* the program: the channels and their capacity, the ops of the
                       \* actors, the cases of the selects, whether these
                       \* have a default, and the sends of an actor (a bound)
    chan,              \* the channels
    act,               \* of an actor: where it is, and its local variables
    sends,             \* how many values an actor has sent
    accepted,          \* the values whose send has returned COCO_OK
    taken,             \* of a channel: the values receivers got, in that order
    fault              \* a NULL or freed pointer has been used

mtVars == <<use, chan, act, sends, accepted, taken, fault>>

Capacity2 == use.capacity
NoSlot == [i \in 0..1 |-> Null]

\* coco_channel_mt_create().
coco_channel_mt_create ==
    [closed |-> FALSE, buffer |-> NoSlot, head |-> 0, tail |-> 0, sendq |-> <<>>, recvq |-> <<>>,
     selects |-> <<>>, lock |-> Null, freed |-> FALSE]

\* An actor: pc, the channel of its call, wait_node.value, the counter and slot
\* loaded, the case it is at, its trylocks, select_ready_index.
Free == [pc |-> "idle", ch |-> Null, val |-> Null, reg |-> 0, i |-> 0, tries |-> 0, ready |-> -1]

-----------------------------------------------------------------------------
(* The ring.                                                               *)

\* mpmc_ring_count().
mpmc_ring_count(k) == (k.tail - k.head) % Modulus

\* Mutant of Room: one value too many.
Room_OffByOne(k) == Capacity2 > 0 /\ mpmc_ring_count(k) <= Capacity2

Room(k) == mpmc_ring_count(k) < Capacity2

\* mpmc_ring_enqueue_locked() and mpmc_ring_dequeue_locked().
mpmc_ring_enqueue_locked(k, v) ==
    [k EXCEPT !.buffer[k.tail % Capacity2] = v, !.tail = (k.tail + 1) % Modulus]

Oldest(k) == k.buffer[k.head % Capacity2]

mpmc_ring_dequeue_locked(k) == [k EXCEPT !.head = (k.head + 1) % Modulus]

-----------------------------------------------------------------------------
(* Calls.                                                                  *)

\* Actor x, at pc, may do op on channel c.
At(x, pc, op) == act[x].pc = pc /\ op \in use.ops[x]

Unlocked(c) == chan[c].lock = Null /\ ~ chan[c].freed

\* A program starts no call on a channel that is destroyed or being destroyed.
Usable(c) == ~ chan[c].freed /\ \A y \in Actor : ~ (act[y].pc = "destroy" /\ act[y].ch = c)

Value(x) == <<x, sends[x] + 1>>

\* The threads asleep on a condition variable of c; one is signalled.
Sleepers(c, pc) == {t \in ThreadMt : act[t].pc = pc /\ act[t].ch = c}
Signal(f, c, pc) ==
    IF Sleepers(c, pc) = {} THEN {f}
    ELSE {[f EXCEPT ![t].pc = IF pc = "send_sleep" THEN "send_woken" ELSE "recv_woken"]
          : t \in Sleepers(c, pc)}

\* schedule_ready() of a coroutine that waited, with what its wait_node holds.
Wake(f, w, v) == [f EXCEPT ![w].pc = IF @ = "send_wait" THEN "send_ready" ELSE "recv_ready",
                           ![w].val = v]

\* x is done with its call, and has sent a value.
Done(f, x) == [f EXCEPT ![x] = Free]
Sent(x) == sends' = [sends EXCEPT ![x] = @ + 1] /\ accepted' = accepted \cup {Value(x)}

\* x hands its value to the first waiting receiver, and is done.
HandOver(x, c) ==
    /\ chan' = [chan EXCEPT ![c].recvq = Tail(@)]
    /\ act' = Wake(Done(act, x), Head(chan[c].recvq), Value(x))
    /\ taken' = [taken EXCEPT ![c] = Append(@, Value(x))]
    /\ Sent(x)

\* x puts its value into the ring, under the lock.
Store(x, c) ==
    /\ chan' = [chan EXCEPT ![c] = mpmc_ring_enqueue_locked(@, Value(x))]
    /\ act' \in Signal(Done(act, x), c, "recv_sleep")
    /\ Sent(x)
    /\ UNCHANGED taken

\* x takes the oldest value of the ring; the first waiting sender's goes in.
TakeOldest(x, c) ==
    LET k == mpmc_ring_dequeue_locked(chan[c])
        w == Head(k.sendq)
    IN
    /\ taken' = [taken EXCEPT ![c] = Append(@, Oldest(chan[c]))]
    /\ IF k.sendq = <<>>
       THEN chan' = [chan EXCEPT ![c] = k] /\ act' \in Signal(Done(act, x), c, "send_sleep")
       ELSE /\ chan' = [chan EXCEPT ![c] = mpmc_ring_enqueue_locked([k EXCEPT !.sendq = Tail(@)],
                                                                   act[w].val)]
            /\ act' = Wake(Done(act, x), w, act[w].val)
    /\ UNCHANGED <<sends, accepted>>

\* x takes the value of the first waiting sender.
TakeOver(x, c) ==
    LET w == Head(chan[c].sendq) IN
    /\ taken' = [taken EXCEPT ![c] = Append(@, act[w].val)]
    /\ chan' = [chan EXCEPT ![c].sendq = Tail(@)]
    /\ act' = Wake(Done(act, x), w, act[w].val)
    /\ UNCHANGED <<sends, accepted>>

\* coco_channel_mt_send() up to a wait, or to the exchange of the tail: the slot
\* is claimed and the lock still held.
coco_channel_mt_send(x, c) ==
    /\ At(x, "idle", "send") /\ Unlocked(c) /\ ~ chan[c].closed
    /\ sends[x] < use.sends
    /\ \/ chan[c].recvq # <<>> /\ HandOver(x, c)
       \/ /\ chan[c].recvq = <<>> /\ Room(chan[c])
          /\ chan' = [chan EXCEPT ![c].tail = (@ + 1) % Modulus, ![c].lock = x]
          /\ act' = [act EXCEPT ![x].pc = "store", ![x].ch = c, ![x].reg = chan[c].tail]
          /\ UNCHANGED <<sends, accepted, taken>>
       \/ /\ chan[c].recvq = <<>> /\ ~ Room(chan[c])
          /\ chan' = [chan EXCEPT ![c].sendq = Append(@, x)]
          /\ act' = [act EXCEPT ![x].pc = "send_wait", ![x].ch = c, ![x].val = Value(x)]
          /\ UNCHANGED <<sends, accepted, taken>>
    /\ UNCHANGED <<use, fault>>

\* mpmc_ring_enqueue() after the exchange: the slot, and what follows in send and
\* in try_send.
mpmc_ring_enqueue_store(x) ==
    LET c == act[x].ch IN
    /\ act[x].pc = "store"
    /\ chan' = [chan EXCEPT ![c].buffer[act[x].reg % Capacity2] = Value(x),
                            ![c].lock = IF @ = x THEN Null ELSE @]
    /\ act' \in Signal(Done(act, x), c, "recv_sleep")
    /\ Sent(x)
    /\ UNCHANGED <<use, taken, fault>>

\* coco_channel_mt_recv() up to a wait.
coco_channel_mt_recv(x, c) ==
    LET k == chan[c]
        broken == k.closed /\ Capacity2 = 0      \* mpmc_ring_count(NULL)
        over == k.closed /\ mpmc_ring_count(k) = 0 /\ k.sendq = <<>>
    IN
    /\ At(x, "idle", "recv") /\ Unlocked(c)
    /\ fault' = (fault \/ broken)
    /\ ~ over \/ broken
    /\ \/ mpmc_ring_count(k) > 0 /\ TakeOldest(x, c)
       \/ mpmc_ring_count(k) = 0 /\ k.sendq # <<>> /\ TakeOver(x, c)
       \/ /\ mpmc_ring_count(k) = 0 /\ k.sendq = <<>>
          /\ chan' = [chan EXCEPT ![c].recvq = Append(@, x)]
          /\ act' = [act EXCEPT ![x].pc = "recv_wait", ![x].ch = c]
          /\ UNCHANGED <<sends, accepted, taken>>
    /\ UNCHANGED use

\* Both after the wait: a sender is told that the channel is closed, even if its
\* value was taken.
Resume(x) ==
    LET c == act[x].ch IN
    /\ act[x].pc \in {"send_ready", "recv_ready"} /\ chan[c].lock = Null
    /\ fault' = (fault \/ chan[c].freed)
    /\ IF act[x].pc = "send_ready"
       THEN /\ sends' = [sends EXCEPT ![x] = @ + 1]
            /\ accepted' = IF chan[c].closed THEN accepted ELSE accepted \cup {Value(x)}
       ELSE UNCHANGED <<sends, accepted>>
    /\ act' = Done(act, x)
    /\ UNCHANGED <<use, chan, taken>>

\* coco_channel_mt_send_thread(): one turn of its loop.
coco_channel_mt_send_thread(x, c) ==
    LET first == act[x].pc = "idle" IN
    /\ At(x, "idle", "send_thread") \/ (act[x].pc = "send_woken" /\ act[x].ch = c)
    /\ Unlocked(c) /\ (first => ~ chan[c].closed /\ sends[x] < use.sends)
    /\ \/ chan[c].closed /\ act' = Done(act, x) /\ UNCHANGED <<chan, sends, accepted, taken>>
       \/ ~ chan[c].closed /\ chan[c].recvq # <<>> /\ HandOver(x, c)
       \/ ~ chan[c].closed /\ chan[c].recvq = <<>> /\ Room(chan[c]) /\ Store(x, c)
       \/ /\ ~ chan[c].closed /\ chan[c].recvq = <<>> /\ ~ Room(chan[c])
          /\ act' = [act EXCEPT ![x].pc = "send_sleep", ![x].ch = c]
          /\ UNCHANGED <<chan, sends, accepted, taken>>
    /\ UNCHANGED <<use, fault>>

\* coco_channel_mt_recv_thread(): one turn of its loop.
coco_channel_mt_recv_thread(x, c) ==
    LET k == chan[c]
        broken == k.closed /\ Capacity2 = 0
        over == k.closed /\ mpmc_ring_count(k) = 0 /\ k.sendq = <<>>
    IN
    /\ At(x, "idle", "recv_thread") \/ (act[x].pc = "recv_woken" /\ act[x].ch = c)
    /\ Unlocked(c) /\ (act[x].pc = "idle" => ~ over \/ broken)
    /\ fault' = (fault \/ broken)
    /\ \/ over /\ act' = Done(act, x) /\ UNCHANGED <<chan, sends, accepted, taken>>
       \/ mpmc_ring_count(k) > 0 /\ TakeOldest(x, c)
       \/ mpmc_ring_count(k) = 0 /\ k.sendq # <<>> /\ TakeOver(x, c)
       \/ /\ mpmc_ring_count(k) = 0 /\ k.sendq = <<>> /\ ~ k.closed
          /\ act' = [act EXCEPT ![x].pc = "recv_sleep", ![x].ch = c]
          /\ UNCHANGED <<chan, sends, accepted, taken>>
    /\ UNCHANGED use

-----------------------------------------------------------------------------
(* Calls that do not block.                                                *)

\* coco_channel_mt_try_send(): mpmc_ring_enqueue() loads the counters, ...
coco_channel_mt_try_send(x, c) ==
    /\ At(x, "idle", "try_send") /\ Usable(c)
    /\ sends[x] < use.sends
    /\ act' = [act EXCEPT ![x].pc = IF Room(chan[c]) THEN "send_cas" ELSE "send_locked",
                          ![x].ch = c, ![x].reg = chan[c].tail]
    /\ UNCHANGED <<use, chan, sends, accepted, taken, fault>>

\* ... exchanges the tail, and goes on to the slot or, when it has failed, ...
mpmc_ring_enqueue(x) ==
    LET c == act[x].ch IN
    /\ act[x].pc = "send_cas"
    /\ IF chan[c].tail = act[x].reg
       THEN /\ chan' = [chan EXCEPT ![c].tail = (@ + 1) % Modulus]
            /\ act' = [act EXCEPT ![x].pc = "store"]
       ELSE act' = [act EXCEPT ![x].pc = "send_locked"] /\ UNCHANGED chan
    /\ UNCHANGED <<use, sends, accepted, taken, fault>>

\* ... to the lock.
try_send_locked(x) ==
    LET c == act[x].ch IN
    /\ act[x].pc = "send_locked" /\ Unlocked(c)
    /\ IF chan[c].closed \/ (~ Room(chan[c]) /\ chan[c].recvq = <<>>)
       THEN act' = Done(act, x) /\ UNCHANGED <<chan, sends, accepted, taken>>
       ELSE IF Room(chan[c]) THEN Store(x, c) ELSE HandOver(x, c)
    /\ UNCHANGED <<use, fault>>

\* coco_channel_mt_try_recv(), likewise: the counters, ...
coco_channel_mt_try_recv(x, c) ==
    /\ At(x, "idle", "try_recv") /\ Usable(c)
    /\ act' = [act EXCEPT ![x].pc = IF mpmc_ring_count(chan[c]) > 0 THEN "recv_cas" ELSE "recv_locked",
                          ![x].ch = c, ![x].reg = chan[c].head]
    /\ UNCHANGED <<use, chan, sends, accepted, taken, fault>>

\* ... the exchange, ...
mpmc_ring_dequeue(x) ==
    LET c == act[x].ch IN
    /\ act[x].pc = "recv_cas"
    /\ IF chan[c].head = act[x].reg
       THEN /\ chan' = [chan EXCEPT ![c].head = (@ + 1) % Modulus]
            /\ act' = [act EXCEPT ![x].pc = "load"]
       ELSE act' = [act EXCEPT ![x].pc = "recv_locked"] /\ UNCHANGED chan
    /\ UNCHANGED <<use, sends, accepted, taken, fault>>

\* ... the slot, with whatever it holds by now, ...
mpmc_ring_dequeue_load(x) ==
    LET c == act[x].ch IN
    /\ act[x].pc = "load"
    /\ taken' = [taken EXCEPT ![c] = Append(@, chan[c].buffer[act[x].reg % Capacity2])]
    /\ act' \in Signal(Done(act, x), c, "send_sleep")
    /\ UNCHANGED <<use, chan, sends, accepted, fault>>

\* ... or the lock.
try_recv_locked(x) ==
    LET c == act[x].ch IN
    /\ act[x].pc = "recv_locked" /\ Unlocked(c)
    /\ \/ /\ mpmc_ring_count(chan[c]) > 0
          /\ taken' = [taken EXCEPT ![c] = Append(@, Oldest(chan[c]))]
          /\ chan' = [chan EXCEPT ![c] = mpmc_ring_dequeue_locked(@)]
          /\ act' \in Signal(Done(act, x), c, "send_sleep")
          /\ UNCHANGED <<sends, accepted>>
       \/ mpmc_ring_count(chan[c]) = 0 /\ chan[c].sendq # <<>> /\ TakeOver(x, c)
       \/ /\ mpmc_ring_count(chan[c]) = 0 /\ chan[c].sendq = <<>>
          /\ act' = Done(act, x) /\ UNCHANGED <<chan, sends, accepted, taken>>
    /\ UNCHANGED <<use, fault>>

-----------------------------------------------------------------------------
(* Close and destroy.                                                      *)

\* All who wait for c are woken, coroutines with no value.
WakeAll(f, c) ==
    [y \in Actor |->
        IF f[y].ch # c THEN f[y]
        ELSE CASE f[y].pc = "send_wait" -> [f[y] EXCEPT !.pc = "send_ready", !.val = Null]
               [] f[y].pc = "recv_wait" -> [f[y] EXCEPT !.pc = "recv_ready", !.val = Null]
               [] f[y].pc = "send_sleep" -> [f[y] EXCEPT !.pc = "send_woken"]
               [] f[y].pc = "recv_sleep" -> [f[y] EXCEPT !.pc = "recv_woken"]
               [] OTHER -> f[y]]

\* Mutant of coco_channel_mt_close: the threads are not woken.
coco_channel_mt_close_Quiet(x, c) ==
    /\ At(x, "idle", "close") /\ Unlocked(c) /\ ~ chan[c].closed
    /\ chan' = [chan EXCEPT ![c].closed = TRUE, ![c].sendq = <<>>, ![c].recvq = <<>>]
    /\ act' = [y \in Actor |-> IF y \in CoroMt THEN WakeAll(act, c)[y] ELSE act[y]]
    /\ UNCHANGED <<use, sends, accepted, taken, fault>>

\* coco_channel_mt_close(); those in a select are not looked at.
coco_channel_mt_close(x, c) ==
    /\ At(x, "idle", "close") /\ Unlocked(c) /\ ~ chan[c].closed
    /\ chan' = [chan EXCEPT ![c].closed = TRUE, ![c].sendq = <<>>, ![c].recvq = <<>>]
    /\ act' = WakeAll(act, c)
    /\ UNCHANGED <<use, sends, accepted, taken, fault>>

\* The channels coroutine y has a node in, and the channels without its nodes.
Registered(y) == {c \in ChanMt : \E n \in 1..Len(chan[c].selects) : chan[c].selects[n].coro = y}

\* Mutant of select_dequeue_all_mt: the other channels keep their nodes.
select_dequeue_all_mt_Here(f, y, c) ==
    [f EXCEPT ![c].selects = SelectSeq(@, LAMBDA n : n.coro # y)]

\* select_dequeue_all_mt(), called from channel c or, by a timer, from none.
select_dequeue_all_mt(f, y, c) ==
    [d \in ChanMt |-> [f[d] EXCEPT !.selects = SelectSeq(@, LAMBDA n : n.coro # y)]]

\* coco_channel_mt_destroy() of a channel that nobody uses, but for those who
\* wait for it: the lock, ...
coco_channel_mt_destroy(x, c) ==
    /\ At(x, "idle", "destroy") /\ Unlocked(c)
    /\ \A y \in Actor : /\ act[y].pc \notin {"check", "lock", "block"}
                        /\ act[y].ch = c => act[y].pc \in {"send_wait", "recv_wait"}
    /\ chan' = [chan EXCEPT ![c].lock = x]
    /\ act' = [act EXCEPT ![x].pc = "destroy", ![x].ch = c]
    /\ UNCHANGED <<use, sends, accepted, taken, fault>>

\* ... one coroutine in a select after the other, taken off its other channels
\* under their locks unless a timer does so already, ...
destroy_select(x) ==
    LET c == act[x].ch
        node == Head(chan[c].selects)
    IN
    /\ act[x].pc = "destroy" /\ chan[c].selects # <<>>
    /\ IF act[node.coro].ready = -1
       THEN /\ \A d \in Registered(node.coro) \ {c} : chan[d].lock = Null
            /\ chan' = select_dequeue_all_mt(chan, node.coro, c)
            /\ act' = [act EXCEPT ![node.coro].pc = "select_ready", ![node.coro].ready = node.case]
       ELSE chan' = [chan EXCEPT ![c].selects = Tail(@)] /\ UNCHANGED act
    /\ UNCHANGED <<use, sends, accepted, taken, fault>>

\* ... and the coroutines that wait, before the channel is freed.
destroy_free(x) ==
    LET c == act[x].ch
        woken == WakeAll(Done(act, x), c)
    IN
    /\ act[x].pc = "destroy" /\ chan[c].selects = <<>>
    /\ chan' = [chan EXCEPT ![c] = [coco_channel_mt_create EXCEPT !.freed = TRUE]]
    /\ act' = [y \in Actor |-> IF y \in CoroMt THEN woken[y] ELSE Done(act, x)[y]]
    /\ UNCHANGED <<use, sends, accepted, taken, fault>>

-----------------------------------------------------------------------------
(* Select.                                                                 *)

Cases(x) == use.cases[x]
Case(x) == Cases(x)[act[x].i]

\* Another actor may hold a lock for the moment that a trylock sees it.
Contended(x) ==
    \E y \in Actor \ {x} : use.ops[y] # {} /\ act[y].pc \notin {"send_wait", "recv_wait", "select_wait"}

coco_channel_mt_select(x) ==
    /\ At(x, "idle", "select")
    /\ \A n \in 1..Len(Cases(x)) : Usable(Cases(x)[n].ch) /\ (Cases(x)[n].send => sends[x] < use.sends)
    /\ act' = [act EXCEPT ![x].pc = "check", ![x].i = 1]
    /\ UNCHANGED <<use, chan, sends, accepted, taken, fault>>

\* A send case with room: the value goes in, and the oldest to a receiver that
\* waits.
SelectStore(x, c) ==
    LET k == mpmc_ring_enqueue_locked(chan[c], Value(x)) IN
    IF k.recvq = <<>> THEN Store(x, c)
    ELSE /\ chan' = [chan EXCEPT ![c] = mpmc_ring_dequeue_locked([k EXCEPT !.recvq = Tail(@)])]
         /\ act' = Wake(Done(act, x), Head(k.recvq), Oldest(k))
         /\ taken' = [taken EXCEPT ![c] = Append(@, Oldest(k))]
         /\ Sent(x)

\* Phase 1: what a case can do at once.
SelectNow(x, c) ==
    IF Case(x).send
    THEN \/ chan[c].closed /\ act' = Done(act, x) /\ UNCHANGED <<chan, sends, accepted, taken>>
         \/ ~ chan[c].closed /\ Room(chan[c]) /\ SelectStore(x, c)
         \/ ~ chan[c].closed /\ Capacity2 = 0 /\ chan[c].recvq # <<>> /\ HandOver(x, c)
    ELSE \/ mpmc_ring_count(chan[c]) > 0 /\ TakeOldest(x, c)
         \/ Capacity2 = 0 /\ chan[c].sendq # <<>> /\ TakeOver(x, c)

CanNow(x, c) ==
    IF Case(x).send THEN chan[c].closed \/ Room(chan[c]) \/ (Capacity2 = 0 /\ chan[c].recvq # <<>>)
    ELSE mpmc_ring_count(chan[c]) > 0 \/ (Capacity2 = 0 /\ chan[c].sendq # <<>>)

select_check(x) ==
    /\ act[x].pc = "check" /\ act[x].i <= Len(Cases(x))
    /\ LET c == Case(x).ch IN
        \/ Unlocked(c) /\ SelectNow(x, c)
        \/ /\ Contended(x) \/ ~ Unlocked(c) \/ ~ CanNow(x, c)
           /\ act' = [act EXCEPT ![x].i = @ + 1]
           /\ UNCHANGED <<chan, sends, accepted, taken>>
    /\ UNCHANGED <<use, fault>>

\* No case: the default, or phase 2.
select_none(x) ==
    /\ act[x].pc = "check" /\ act[x].i > Len(Cases(x))
    /\ act' = IF use.default THEN Done(act, x) ELSE [act EXCEPT ![x].pc = "lock", ![x].i = 1]
    /\ UNCHANGED <<use, chan, sends, accepted, taken, fault>>

\* The channels without the locks of x.
Released(x) == [c \in ChanMt |-> IF chan[c].lock = x THEN [chan[c] EXCEPT !.lock = Null] ELSE chan[c]]

\* Mutant of select_trylock: what is locked already stays locked.
select_trylock_Keep(x) ==
    /\ act[x].pc = "lock" /\ act[x].i <= Len(Cases(x))
    /\ \/ /\ Unlocked(Case(x).ch)
          /\ chan' = [chan EXCEPT ![Case(x).ch].lock = x]
          /\ act' = [act EXCEPT ![x].i = @ + 1]
       \/ /\ Contended(x) \/ ~ Unlocked(Case(x).ch)
          /\ act' = [act EXCEPT ![x].pc = IF act[x].tries + 1 >= MaxRetry THEN "block" ELSE "lock",
                                ![x].tries = @ + 1, ![x].i = 1]
          /\ UNCHANGED chan
    /\ UNCHANGED <<use, sends, accepted, taken, fault>>

\* All the locks, in the order of the cases, or none and another try.
select_trylock(x) ==
    /\ act[x].pc = "lock" /\ act[x].i <= Len(Cases(x))
    /\ \/ /\ Unlocked(Case(x).ch)
          /\ chan' = [chan EXCEPT ![Case(x).ch].lock = x]
          /\ act' = [act EXCEPT ![x].i = @ + 1]
       \/ /\ Contended(x) \/ ~ Unlocked(Case(x).ch)
          /\ chan' = Released(x)
          /\ act' = [act EXCEPT ![x].pc = IF act[x].tries + 1 >= MaxRetry THEN "block" ELSE "lock",
                                ![x].tries = @ + 1, ![x].i = 1]
    /\ UNCHANGED <<use, sends, accepted, taken, fault>>

\* After too many: the locks one by one, blocking.
select_block(x) ==
    /\ act[x].pc = "block" /\ act[x].i <= Len(Cases(x))
    /\ Unlocked(Case(x).ch)
    /\ chan' = [chan EXCEPT ![Case(x).ch].lock = x]
    /\ act' = [act EXCEPT ![x].i = @ + 1]
    /\ UNCHANGED <<use, sends, accepted, taken, fault>>

\* A node for every case, the locks released, and the wait.
select_register(x) ==
    /\ act[x].pc \in {"lock", "block"} /\ act[x].i > Len(Cases(x))
    /\ chan' = [c \in ChanMt |->
          LET mine == {n \in 1..Len(Cases(x)) : Cases(x)[n].ch = c
                                               /\ ~ (Cases(x)[n].send /\ chan[c].closed)}
          IN  [Released(x)[c] EXCEPT !.selects =
                 IF mine = {} THEN @
                 ELSE Append(@, [coro |-> x, case |-> CHOOSE n \in mine : TRUE])]]
    /\ act' = [act EXCEPT ![x] = [Free EXCEPT !.pc = "select_wait"]]
    /\ UNCHANGED <<use, sends, accepted, taken, fault>>

\* select_timeout_cb_mt(): COCO_SELECT_TIMEOUT (0 here, the cases being counted
\* from 1), and then the queues.
select_timeout_cb_mt(x) ==
    /\ act[x].pc = "select_wait"
    /\ \/ /\ act[x].ready = -1 /\ "timeout" \in use.ops[x]
          /\ act' = [act EXCEPT ![x].ready = 0]
          /\ UNCHANGED chan
       \/ /\ act[x].ready = 0
          /\ \A c \in Registered(x) : chan[c].lock = Null
          /\ chan' = select_dequeue_all_mt(chan, x, Null)
          /\ act' = [act EXCEPT ![x].pc = "select_ready"]
    /\ UNCHANGED <<use, sends, accepted, taken, fault>>

\* Phase 3: the result; the nodes are freed.
select_resume(x) ==
    /\ act[x].pc = "select_ready"
    /\ act' = Done(act, x)
    /\ UNCHANGED <<use, chan, sends, accepted, taken, fault>>

-----------------------------------------------------------------------------

MtInit ==
    /\ use \in Uses
    /\ chan = [c \in ChanMt |-> coco_channel_mt_create]
    /\ act = [x \in Actor |-> Free]
    /\ sends = [x \in Actor |-> 0]
    /\ accepted = {} /\ taken = [c \in ChanMt |-> <<>>] /\ fault = FALSE

MtNext ==
    \E x \in Actor :
        \/ \E c \in use.chans :
             \/ coco_channel_mt_send(x, c) \/ coco_channel_mt_recv(x, c)
             \/ coco_channel_mt_send_thread(x, c) \/ coco_channel_mt_recv_thread(x, c)
             \/ coco_channel_mt_try_send(x, c) \/ coco_channel_mt_try_recv(x, c)
             \/ coco_channel_mt_close(x, c) \/ coco_channel_mt_destroy(x, c)
        \/ mpmc_ring_enqueue(x) \/ mpmc_ring_enqueue_store(x) \/ try_send_locked(x)
        \/ mpmc_ring_dequeue(x) \/ mpmc_ring_dequeue_load(x) \/ try_recv_locked(x)
        \/ Resume(x) \/ destroy_select(x) \/ destroy_free(x)
        \/ coco_channel_mt_select(x) \/ select_check(x) \/ select_none(x)
        \/ select_trylock(x) \/ select_block(x) \/ select_register(x)
        \/ select_timeout_cb_mt(x) \/ select_resume(x)

MtSpec == MtInit /\ [][MtNext]_mtVars

-----------------------------------------------------------------------------
(* Properties.                                                             *)

\* What a receiver gets is a value that was sent, no value twice, and those of
\* one sender in the order they were sent.
TakenOnceInOrder ==
    \A c \in ChanMt :
        LET got == taken[c] IN
        /\ \A i \in 1..Len(got) : got[i] # Null
        /\ \A i, j \in 1..Len(got) : i < j /\ got[i][1] = got[j][1] => got[i][2] < got[j][2]

\* A value whose send has returned COCO_OK has been taken, is in a ring or in
\* the slot a receiver has claimed, unless the channel has been destroyed with it.
AcceptedIsKept ==
    \A v \in accepted :
        \/ \E c \in ChanMt : chan[c].freed
        \/ \E x \in Actor : act[x].pc = "load" /\ chan[act[x].ch].buffer[act[x].reg % Capacity2] = v
        \/ \E c \in ChanMt : \E i \in 1..Len(taken[c]) : taken[c][i] = v
        \/ \E c \in ChanMt : /\ mpmc_ring_count(chan[c]) > 0
                             /\ \E i \in 0..(mpmc_ring_count(chan[c]) - 1) :
                                    chan[c].buffer[((chan[c].head + i) % Modulus) % Capacity2] = v

\* What is sent arrives, once and in order, and what was accepted is not lost.
SentArrives == TakenOnceInOrder /\ AcceptedIsKept

\* Nobody waits for what is there: a coroutine queued to receive while there is a
\* value, or to send while there is room; on a buffered channel, a thread asleep for
\* the same, unless another is awake to take it; and nobody waits for a closed
\* channel (the queues and the condition variables in send, recv and close).
NobodyWaitsForNothing ==
    \A c \in ChanMt :
        LET k == chan[c] IN
        k.lock = Null /\ ~ k.freed =>
            /\ k.recvq # <<>> => mpmc_ring_count(k) = 0 /\ k.sendq = <<>> /\ ~ k.closed
            /\ k.sendq # <<>> => ~ Room(k) /\ ~ k.closed
            /\ Sleepers(c, "recv_sleep") # {} =>
                  ~ k.closed /\ (mpmc_ring_count(k) = 0 \/ Sleepers(c, "recv_woken") # {})
            /\ Sleepers(c, "send_sleep") # {} =>
                  ~ k.closed /\ (~ Room(k) \/ Sleepers(c, "send_woken") # {})

\* A node in the queue of a channel belongs to a coroutine that is in its select:
\* the nodes are freed when the select returns.
NodesAreLive ==
    \A c \in ChanMt : \A n \in 1..Len(chan[c].selects) :
        act[chan[c].selects[n].coro].pc = "select_wait" /\ ~ chan[c].freed

\* x waits for a lock that y holds.
WaitsOn(x, y) ==
    \/ /\ act[x].pc = "block" /\ act[x].i <= Len(Cases(x))
       /\ chan[Case(x).ch].lock = y
    \/ /\ act[x].pc = "destroy" /\ chan[act[x].ch].selects # <<>>
       /\ \E d \in Registered(Head(chan[act[x].ch].selects).coro) \ {act[x].ch} : chan[d].lock = y

\* No actors wait for the locks of one another.
NoLockCycle ==
    \A D \in SUBSET Actor \ {{}} : \E x \in D : \A y \in D : ~ WaitsOn(x, y)

\* No NULL ring and no freed channel is used.
NoMtFault == ~ fault

\* Nothing is used after it was freed: neither a channel nor the node of a
\* select that has returned.
NothingDangles == NodesAreLive /\ NoMtFault
=============================================================================
