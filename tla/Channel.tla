------------------------------ MODULE Channel ------------------------------
(***************************************************************************)
(* Channels of the single-threaded scheduler: channel/channel.c, with what *)
(* coco_cancel (core/cancel.c) does to a coroutine blocked on a channel.   *)
(*                                                                         *)
(* A call runs without interruption until it returns or blocks in          *)
(* coco_yield(); a blocked call goes on, in a step of its own, once        *)
(* enqueue_ready() has made its coroutine ready.  Priorities can put ready *)
(* coroutines in any order, so any ready coroutine may go next.  The loops *)
(* of the batch operations take one step per iteration, during which the   *)
(* coroutine keeps the processor (`running').                              *)
(*                                                                         *)
(* The ring buffer and the linked wait queues are sequences.  Values are   *)
(* numbers, so that no two sends offer the same one.                       *)
(***************************************************************************)
EXTENDS Integers, Sequences, FiniteSets, Functions

CONSTANTS
    Coro,          \* the coroutines
    Chan,          \* the channels
    None,          \* the NULL pointer
    Capacity,      \* capacity[h], 0 for an unbuffered channel
    MaxValues,     \* the most values sent
    MaxBatch,      \* the longest batch
    SelectCases,   \* the case lists passed to select: sequences of [on, send]
    Uses           \* the programs: see the variable program

ASSUME ChannelAssumption ==
    /\ None \notin Coro \cup Chan
    /\ Capacity \in [Chan -> Nat]
    /\ MaxValues \in Nat
    /\ MaxBatch \in Nat
    /\ \A u \in Uses : u.chans \subseteq Chan /\ u.values \in 0..MaxValues
    /\ SelectCases \subseteq Seq([on : Chan, send : BOOLEAN])

Value == 1..MaxValues

\* select_ready_index: no case yet, or the timeout; a case is its number.
PENDING == -1
TIMEOUT == -2

VARIABLES
    program,       \* the calls and channels the coroutines use (.ops, .chans),
                   \* and how many values they send (.values)
    chan,          \* per channel: struct coco_channel
    coro,          \* per coroutine: wait_node, select state, call in progress
    running,       \* the coroutine inside a batch loop, or None
    fault,         \* "none", or the memory error that ended the program
    made,          \* how many values have been offered
    taken,         \* per channel: the values handed out, oldest first
    deliveries,    \* how often each value was returned to a receiver
    confirmed      \* the values whose send was reported as successful

vars == <<program, chan, coro, running, fault, made, taken, deliveries, confirmed>>

NewChannel ==
    [buf |-> <<>>, sendQ |-> <<>>, recvQ |-> <<>>, sendSel |-> <<>>, recvSel |-> <<>>,
     closed |-> FALSE, destroying |-> FALSE, refcount |-> 1]

\* op, on, vals, cnt, n: the call in progress and its locals.
\* waits, value, freed: wait_node.channel (None unless in_use), .value and
\* .freed_by_destroy.  cases, ready, timer: the select state.
\* woken: how many times the coroutine is linked in the ready lists.
NewCoro ==
    [op |-> "none", on |-> None, vals |-> <<>>, cnt |-> 0, n |-> 0,
     waits |-> None, value |-> None, freed |-> FALSE,
     cases |-> <<>>, ready |-> PENDING, timer |-> FALSE,
     woken |-> 0, cancelled |-> FALSE]

Init ==
    /\ program \in Uses
    /\ chan = [h \in Chan |-> NewChannel]
    /\ coro = [c \in Coro |-> NewCoro]
    /\ running = None
    /\ fault = "none"
    /\ made = 0
    /\ taken = [h \in Chan |-> <<>>]
    /\ deliveries = [v \in Value |-> 0]
    /\ confirmed = {}

-----------------------------------------------------------------------------
(* Queues and wake-ups.                                                     *)

Freed(h) == chan[h].refcount <= 0

\* The queue q without the members in X.
Without(q, X) ==
    LET kept[i \in 0..Len(q)] ==
          IF i = 0 THEN <<>> ELSE IF q[i] \in X THEN kept[i - 1] ELSE Append(kept[i - 1], q[i])
    IN  kept[Len(q)]

\* Mutant: dequeue_wait_coro() leaves in_use set.
Woken_StillInUse(co, c) == [co EXCEPT ![c].woken = @ + 1]

\* enqueue_ready() of a coroutine dequeued from a plain wait queue.
Woken(co, c) == [co EXCEPT ![c].waits = None, ![c].woken = @ + 1]

\* A select coroutine is removed from every queue it is registered in ...
select_dequeue_all(chs, c) ==
    [h \in Chan |-> [chs[h] EXCEPT !.sendSel = Without(@, {c} \X Nat),
                                   !.recvSel = Without(@, {c} \X Nat)]]

\* Mutant: the select timer is not cancelled.
Resolved_KeepsTimer(co, c, i) ==
    [co EXCEPT ![c].ready = i, ![c].woken = @ + 1]

\* ... and made ready with the case (or TIMEOUT) that decided it.
Resolved(co, c, i) ==
    [co EXCEPT ![c].ready = i, ![c].timer = FALSE, ![c].woken = @ + 1]

\* The call of c returns: its locals are gone, its wait_node.value stays.
Returned(co, c) ==
    [co EXCEPT ![c].op = "none", ![c].on = None, ![c].vals = <<>>,
               ![c].cnt = 0, ![c].n = 0]

Deliver(vs) ==
    deliveries' = [v \in Value |->
                     IF v \in Range(vs) /\ deliveries[v] < 2 THEN deliveries[v] + 1
                                                              ELSE deliveries[v]]

\* The program touches freed or NULL memory: nothing is promised after this.
Crash(why) ==
    /\ fault' = why
    /\ UNCHANGED <<chan, coro, running, made, taken, deliveries, confirmed>>

\* A value goes straight to the first plain receiver, else to the first
\* select receiver.
to_receiver(h, v, chs, co) ==
    /\ \/ /\ chan[h].recvQ # <<>>
          /\ chan' = [chs EXCEPT ![h].recvQ = Tail(@)]
          /\ LET r == Head(chan[h].recvQ)
             IN  coro' = Woken([co EXCEPT ![r].value = v], r)
       \/ /\ chan[h].recvQ = <<>>
          /\ chan[h].recvSel # <<>>
          /\ LET s == Head(chan[h].recvSel)[1]
             IN  /\ chan' = select_dequeue_all(chs, s)
                 /\ coro' = Resolved([co EXCEPT ![s].value = v], s, Head(chan[h].recvSel)[2])
    /\ taken' = [taken EXCEPT ![h] = Append(@, v)]

NoReceiver(h) == chan[h].recvQ = <<>> /\ chan[h].recvSel = <<>>

\* k values leave the buffer and one waiting sender, plain before select,
\* puts its value in.
from_buffer(h, k, co) ==
    LET q == chan[h]
        got == SubSeq(q.buf, 1, k)
        rest == SubSeq(q.buf, k + 1, Len(q.buf))
    IN  /\ \/ /\ q.sendQ # <<>>
              /\ chan' = [chan EXCEPT ![h].buf = Append(rest, coro[Head(q.sendQ)].value),
                                      ![h].sendQ = Tail(@)]
              /\ coro' = Woken(co, Head(q.sendQ))
           \/ /\ q.sendQ = <<>>
              /\ q.sendSel # <<>>
              /\ LET s == Head(q.sendSel)[1]
                     i == Head(q.sendSel)[2]
                 IN  /\ chan' = select_dequeue_all(
                                  [chan EXCEPT ![h].buf = Append(rest, coro[s].cases[i].val)], s)
                     /\ coro' = Resolved(co, s, i)
           \/ /\ q.sendQ = <<>>
              /\ q.sendSel = <<>>
              /\ chan' = [chan EXCEPT ![h].buf = rest]
              /\ coro' = co
        /\ taken' = [taken EXCEPT ![h] = @ \o got]
        /\ Deliver(got)

\* A value comes straight from the first plain sender, else from the first
\* select sender.
from_sender(h, co) ==
    LET q == chan[h]
    IN  \/ /\ q.sendQ # <<>>
           /\ LET s == Head(q.sendQ)
              IN  /\ chan' = [chan EXCEPT ![h].sendQ = Tail(@)]
                  /\ coro' = Woken(co, s)
                  /\ taken' = [taken EXCEPT ![h] = Append(@, coro[s].value)]
                  /\ Deliver(<<coro[s].value>>)
        \/ /\ q.sendQ = <<>>
           /\ q.sendSel # <<>>
           /\ LET s == Head(q.sendSel)[1]
                  i == Head(q.sendSel)[2]
              IN  /\ chan' = select_dequeue_all(chan, s)
                  /\ coro' = Resolved(co, s, i)
                  /\ taken' = [taken EXCEPT ![h] = Append(@, coro[s].cases[i].val)]
                  /\ Deliver(<<coro[s].cases[i].val>>)

NoSender(h) == chan[h].sendQ = <<>> /\ chan[h].sendSel = <<>>

block_NoRef(c, h, side, v, chs, co) ==
    /\ chan' = [chs EXCEPT ![h][side] = Append(@, c)]
    /\ coro' = [co EXCEPT ![c].waits = h, ![c].value = v, ![c].freed = FALSE]

block_KeepsValue(c, h, side, v, chs, co) ==
    /\ chan' = [chs EXCEPT ![h][side] = Append(@, c), ![h].refcount = @ + 1]
    /\ coro' = [co EXCEPT ![c].waits = h, ![c].value = IF v = None THEN @ ELSE v,
                          ![c].freed = FALSE]

\* c takes a reference and joins a wait queue of h.
block(c, h, side, v, chs, co) ==
    /\ chan' = [chs EXCEPT ![h][side] = Append(@, c), ![h].refcount = @ + 1]
    /\ coro' = [co EXCEPT ![c].waits = h, ![c].value = v, ![c].freed = FALSE]

\* A call that would block is refused: its wait_node is in use, or the
\* channel is being destroyed.
Refused(c, h) == coro[c].waits # None \/ chan[h].destroying

-----------------------------------------------------------------------------
(* Calls.  The program does not use a channel it has destroyed.            *)

Calls(c, op) ==
    /\ fault = "none"
    /\ running = None
    /\ op \in program.ops
    /\ coro[c].op = "none"

Started(c, op, h) == [coro EXCEPT ![c].op = op, ![c].on = h]

\* The channel was freed, or the next select node was freed with its select.
Dangling(h) ==
    \/ Freed(h)
    \/ chan[h].sendSel # <<>> /\ coro[Head(chan[h].sendSel)[1]].cases = <<>>
    \/ chan[h].recvSel # <<>> /\ coro[Head(chan[h].recvSel)[1]].cases = <<>>

\* A buffered channel with a free slot.
HasRoom(h) == Len(chan[h].buf) < Capacity[h]

\* (On a closed channel coco_channel_send returns at once: no step.)
coco_channel_send(c, h) ==
    LET v == made + 1
    IN  /\ Calls(c, "send")
        /\ ~chan[h].destroying
        /\ ~chan[h].closed
        /\ made < program.values
        /\ IF Dangling(h) THEN Crash("use after free") ELSE
           /\ made' = made + 1
           /\ \/ /\ to_receiver(h, v, chan, coro)
                 /\ confirmed' = confirmed \cup {v}
              \/ /\ NoReceiver(h)
                 /\ HasRoom(h)
                 /\ chan' = [chan EXCEPT ![h].buf = Append(@, v)]
                 /\ confirmed' = confirmed \cup {v}
                 /\ UNCHANGED <<coro, taken>>
              \/ /\ NoReceiver(h)
                 /\ ~HasRoom(h)
                 /\ block(c, h, "sendQ", v, chan, [Started(c, "send", h) EXCEPT ![c].vals = <<v>>])
                 /\ UNCHANGED <<taken, confirmed>>
           /\ UNCHANGED <<running, fault, deliveries>>

\* A closed channel with nothing left to give.
Drained(h) == chan[h].closed /\ chan[h].buf = <<>> /\ NoSender(h)

\* Bound: a value can be taken again and again (see ReceivedOnce); receives stop
\* being called once more values were taken than are made.
MayReceive(h) == Len(taken[h]) <= program.values

coco_channel_recv(c, h) ==
    /\ Calls(c, "recv")
    /\ MayReceive(h)
    /\ ~chan[h].destroying
    /\ ~Drained(h)
    /\ IF Dangling(h) THEN Crash("use after free") ELSE
       /\ \/ /\ chan[h].buf # <<>>
             /\ from_buffer(h, 1, coro)
          \/ /\ chan[h].buf = <<>>
             /\ from_sender(h, coro)
          \/ /\ chan[h].buf = <<>>
             /\ NoSender(h)
             /\ block(c, h, "recvQ", None, chan, Started(c, "recv", h))
             /\ UNCHANGED <<taken, deliveries>>
       /\ UNCHANGED <<running, fault, made, confirmed>>

(* After coco_yield(): the reference is dropped, then `closed' is read     *)
(* unless the coroutine was cancelled or woken by coco_channel_destroy.    *)

Resumes(c, ops) ==
    /\ fault = "none"
    /\ running = None
    /\ coro[c].op \in ops
    /\ coro[c].woken > 0

Scheduled(c) == [coro EXCEPT ![c].woken = @ - 1]

\* Mutant: the reference is not dropped.
coco_channel_unref_Kept(h) == chan

coco_channel_unref(h) == [chan EXCEPT ![h].refcount = @ - 1]

\* The resumed call touches the channel after the last reference is gone.
UsesFreed(c, reads) ==
    LET h == coro[c].on
    IN  \/ Freed(h)
        \/ /\ chan[h].refcount = 1
           /\ reads
           /\ ~coro[c].cancelled
           /\ ~coro[c].freed

\* The call gives up without having passed its value on, or so it reports.
GivesUp(c) == coro[c].cancelled \/ coro[c].freed \/ chan[coro[c].on].closed

resume_send(c) ==
    /\ Resumes(c, {"send"})
    /\ IF UsesFreed(c, TRUE) THEN Crash("use after free") ELSE
       /\ chan' = coco_channel_unref(coro[c].on)
       /\ coro' = Returned(Scheduled(c), c)
       /\ confirmed' = IF GivesUp(c) THEN confirmed ELSE confirmed \cup Range(coro[c].vals)
       /\ UNCHANGED <<running, fault, made, taken, deliveries>>

\* A receiver woken without a value: cancelled, destroyed or closed.
EmptyHanded(c) ==
    \/ coro[c].cancelled
    \/ coro[c].freed
    \/ chan[coro[c].on].closed /\ coro[c].value = None

resume_recv(c) ==
    /\ Resumes(c, {"recv"})
    /\ IF UsesFreed(c, TRUE) THEN Crash("use after free") ELSE
       /\ chan' = coco_channel_unref(coro[c].on)
       /\ coro' = Returned(Scheduled(c), c)
       /\ Deliver(IF EmptyHanded(c) THEN <<>> ELSE <<coro[c].value>>)
       /\ UNCHANGED <<running, fault, made, taken, confirmed>>

-----------------------------------------------------------------------------
(* Batches.                                                                *)

coco_channel_send_batch(c, h) ==
    /\ Calls(c, "send_batch")
    /\ ~chan[h].destroying
    /\ ~chan[h].closed
    /\ IF Dangling(h) THEN Crash("use after free") ELSE
       /\ \E k \in 1..MaxBatch :
             /\ made + k <= program.values
             /\ made' = made + k
             /\ coro' = [Started(c, "send_batch", h) EXCEPT
                           ![c].vals = [i \in 1..k |-> made + i]]
       /\ running' = c
       /\ UNCHANGED <<chan, fault, taken, deliveries, confirmed>>

\* The batch of c returns with the first `sent' values counted as sent.
SentBatch(c, sent, co) ==
    /\ coro' = Returned(co, c)
    /\ running' = None
    /\ confirmed' = confirmed \cup Range(SubSeq(coro[c].vals, 1, sent))

Loops(c, op) == fault = "none" /\ running = c /\ coro[c].op = op

send_batch_loop(c) ==
    LET h == coro[c].on
        vals == coro[c].vals
        sent == coro[c].cnt
        space == Capacity[h] - Len(chan[h].buf)
        k == IF Len(vals) - sent < space THEN Len(vals) - sent ELSE space
        filled == [chan EXCEPT ![h].buf = @ \o SubSeq(vals, sent + 1, sent + k)]
        co == [coro EXCEPT ![c].cnt = sent + k]
    IN  /\ Loops(c, "send_batch")
        /\ \/ /\ sent = Len(vals)
              /\ SentBatch(c, sent, coro)
              /\ UNCHANGED <<chan, taken>>
           \/ /\ sent < Len(vals)
              /\ to_receiver(h, vals[sent + 1], chan, [coro EXCEPT ![c].cnt = @ + 1])
              /\ UNCHANGED <<running, confirmed>>
           \/ /\ sent < Len(vals)
              /\ NoReceiver(h)
              /\ IF sent + k = Len(vals)
                 THEN chan' = filled /\ coro' = co /\ UNCHANGED <<running, confirmed>>
                 ELSE IF Refused(c, h)
                 THEN chan' = filled /\ SentBatch(c, sent + k, co)
                 ELSE /\ block(c, h, "sendQ", vals[sent + k + 1], filled, co)
                      /\ running' = None
                      /\ UNCHANGED confirmed
              /\ UNCHANGED taken
        /\ UNCHANGED <<fault, made, deliveries>>

\* On an unbuffered channel the value it blocked with now counts as sent; on
\* a buffered one the loop goes on with the same value.
resume_send_batch(c) ==
    /\ Resumes(c, {"send_batch"})
    /\ IF UsesFreed(c, TRUE) THEN Crash("use after free") ELSE
       /\ chan' = coco_channel_unref(coro[c].on)
       /\ IF GivesUp(c)
          THEN SentBatch(c, coro[c].cnt, Scheduled(c))
          ELSE /\ coro' = [Scheduled(c) EXCEPT
                             ![c].cnt = IF Capacity[coro[c].on] = 0 THEN @ + 1 ELSE @]
               /\ running' = c
               /\ UNCHANGED confirmed
       /\ UNCHANGED <<fault, made, taken, deliveries>>

coco_channel_recv_batch(c, h) ==
    /\ Calls(c, "recv_batch")
    /\ MayReceive(h)
    /\ ~chan[h].destroying
    /\ IF Dangling(h) THEN Crash("use after free") ELSE
       /\ \E k \in 1..MaxBatch : coro' = [Started(c, "recv_batch", h) EXCEPT ![c].n = k]
       /\ running' = c
       /\ UNCHANGED <<chan, fault, made, taken, deliveries, confirmed>>

\* It blocks, or returns what it has when the channel has nothing more.
block_recv_batch(c) ==
    LET h == coro[c].on
    IN  /\ IF Drained(h) \/ Refused(c, h)
           THEN coro' = Returned(coro, c) /\ UNCHANGED chan
           ELSE block(c, h, "recvQ", None, chan, coro)
        /\ running' = None
        /\ UNCHANGED <<taken, deliveries>>

recv_batch_loop(c) ==
    LET h == coro[c].on
        need == coro[c].n - coro[c].cnt
        k == IF need < Len(chan[h].buf) THEN need ELSE Len(chan[h].buf)
    IN  /\ Loops(c, "recv_batch")
        /\ \/ /\ need = 0
              /\ coro' = Returned(coro, c)
              /\ running' = None
              /\ UNCHANGED <<chan, taken, deliveries>>
           \/ /\ need > 0
              /\ k > 0
              /\ from_buffer(h, k, [coro EXCEPT ![c].cnt = @ + k,
                                                ![c].op = IF k < need THEN "recv_batch_more" ELSE @])
              /\ UNCHANGED running
           \/ /\ need > 0
              /\ k = 0
              /\ from_sender(h, [coro EXCEPT ![c].cnt = @ + 1])
              /\ UNCHANGED running
           \/ /\ need > 0
              /\ k = 0
              /\ NoSender(h)
              /\ block_recv_batch(c)
        /\ UNCHANGED <<fault, made, confirmed>>

\* After taking from the buffer less than it wants, it blocks without looking
\* at the buffer again.
recv_batch_more(c) ==
    /\ Loops(c, "recv_batch_more")
    /\ block_recv_batch(c)
    /\ UNCHANGED <<fault, made, confirmed>>

resume_recv_batch(c) ==
    LET me == coro[c]
        more == me.op = "recv_batch_more"
        got == IF more /\ me.value = None THEN <<>> ELSE <<me.value>>
    IN  /\ Resumes(c, {"recv_batch", "recv_batch_more"})
        /\ IF UsesFreed(c, ~more \/ me.cnt + Len(got) < me.n) THEN Crash("use after free") ELSE
           /\ chan' = coco_channel_unref(me.on)
           /\ IF me.cancelled \/ me.freed \/ (~more /\ EmptyHanded(c))
              THEN coro' = Returned(Scheduled(c), c) /\ Deliver(<<>>) /\ UNCHANGED running
              ELSE /\ coro' = [Scheduled(c) EXCEPT ![c].op = "recv_batch",
                                                   ![c].cnt = @ + Len(got)]
                   /\ Deliver(got)
                   /\ running' = c
           /\ UNCHANGED <<fault, made, taken, confirmed>>

-----------------------------------------------------------------------------
(* Select.                                                                 *)

\* Mutant: plain waiters of an unbuffered channel are overlooked.
CaseReady_BufferOnly(cs, i) ==
    IF cs[i].send THEN chan[cs[i].on].closed \/ HasRoom(cs[i].on)
                  ELSE chan[cs[i].on].buf # <<>>

\* The first scan: what can be done without blocking.  A waiting select on
\* the other side is not looked at.
CaseReady(cs, i) ==
    LET h == cs[i].on
        q == chan[h]
    IN  IF cs[i].send
        THEN \/ q.closed
             \/ HasRoom(h)
             \/ Capacity[h] = 0 /\ q.recvQ # <<>>
        ELSE \/ q.buf # <<>>
             \/ Capacity[h] = 0 /\ q.sendQ # <<>>

FirstReady(cs, i) == CaseReady(cs, i) /\ \A j \in 1..(i - 1) : ~CaseReady(cs, j)

\* A select sends v on h: through the buffer if there is one.
select_send(h, v) ==
    LET b == Append(chan[h].buf, v)
        room == [chan EXCEPT ![h].buf = Tail(b)]
    IN  /\ \/ /\ chan[h].closed
              /\ UNCHANGED <<chan, coro, taken, confirmed>>
           \/ /\ ~chan[h].closed
              /\ NoReceiver(h)
              /\ chan' = [chan EXCEPT ![h].buf = b]
              /\ confirmed' = confirmed \cup {v}
              /\ UNCHANGED <<coro, taken>>
           \/ /\ ~chan[h].closed
              /\ to_receiver(h, Head(b), room, coro)
              /\ confirmed' = confirmed \cup {v}
        /\ UNCHANGED deliveries

select_recv(h) ==
    /\ \/ chan[h].buf # <<>> /\ from_buffer(h, 1, coro)
       \/ chan[h].buf = <<>> /\ from_sender(h, coro)
    /\ UNCHANGED confirmed

\* The nodes of c's cases cs that go to the given side of h, in case order.
Nodes(c, cs, h, side) ==
    Without([i \in 1..Len(cs) |-> <<c, i>>],
            {<<c, i>> : i \in {j \in 1..Len(cs) : cs[j].on # h \/ cs[j].send # side}})

\* No case is ready: register a node for each one and block.  A select without
\* a timeout is one whose timer never fires.
select_register(c, cs) ==
    /\ chan' = [h \in Chan |->
                  [chan[h] EXCEPT !.sendSel = @ \o Nodes(c, cs, h, TRUE),
                                  !.recvSel = @ \o Nodes(c, cs, h, FALSE)]]
    /\ coro' = [coro EXCEPT ![c].op = "select", ![c].cases = cs,
                            ![c].ready = PENDING, ![c].timer = TRUE]
    /\ UNCHANGED <<taken, deliveries, confirmed>>

\* (With a default case, or when memory for the nodes or the timer is missing,
\* select returns with everything as it was: no step.)
coco_channel_select(c) ==
    /\ Calls(c, "select")
    /\ \E list \in SelectCases :
         LET sends == {i \in DOMAIN list : list[i].send}
             cs == [i \in DOMAIN list |->
                      [on |-> list[i].on, send |-> list[i].send,
                       val |-> IF i \in sends
                               THEN made + Cardinality(sends \cap 1..i) ELSE None]]
         IN  /\ \A i \in DOMAIN list : ~chan[list[i].on].destroying
             /\ made + Cardinality(sends) <= program.values
             /\ IF \E i \in DOMAIN list : Dangling(list[i].on) THEN Crash("use after free") ELSE
                /\ made' = made + Cardinality(sends)
                /\ \/ \E i \in DOMAIN cs :
                         /\ FirstReady(cs, i)
                         /\ IF cs[i].send THEN select_send(cs[i].on, cs[i].val)
                                          ELSE select_recv(cs[i].on)
                   \/ /\ \A i \in DOMAIN cs : ~CaseReady(cs, i)
                      /\ select_register(c, cs)
                /\ UNCHANGED <<running, fault>>

\* The timer of a select that is still undecided.
select_timeout_cb(c) ==
    /\ fault = "none"
    /\ running = None
    /\ coro[c].timer
    /\ chan' = select_dequeue_all(chan, c)
    /\ coro' = Resolved(coro, c, TIMEOUT)
    /\ UNCHANGED <<running, fault, made, taken, deliveries, confirmed>>

\* A decided send reads `closed'; a decided receive only if it has no value.
resume_select(c) ==
    LET me == coro[c]
        decided == me.ready > 0
        case == me.cases[me.ready]
        reads == decided /\ (case.send \/ me.value = None)
        empty == me.value = None /\ chan[case.on].closed
    IN  /\ Resumes(c, {"select"})
        /\ IF reads /\ case.on = None THEN Crash("null pointer") ELSE
           IF reads /\ Freed(case.on) THEN Crash("use after free") ELSE
           /\ coro' = Returned([Scheduled(c) EXCEPT ![c].cases = <<>>, ![c].ready = PENDING,
                                                    ![c].timer = FALSE], c)
           /\ confirmed' = IF decided /\ case.send /\ ~chan[case.on].closed
                           THEN confirmed \cup {case.val} ELSE confirmed
           /\ Deliver(IF decided /\ ~case.send /\ ~empty THEN <<me.value>> ELSE <<>>)
           /\ UNCHANGED <<chan, running, fault, made, taken>>

-----------------------------------------------------------------------------
(* Close, destroy, cancel.                                                 *)

\* The case of the first node that c has in the list.
FirstCase(nodes, c) ==
    nodes[CHOOSE i \in DOMAIN nodes : nodes[i][1] = c /\ \A j \in 1..(i - 1) : nodes[j][1] # c][2]

\* What close and destroy make of c: a waiter of a queue is woken, and learns
\* whether its channel is freed; a select is decided by its case i, which loses
\* its channel to destroy.
Released(c, plain, sel, i, destroy) ==
    IF c \in plain THEN [Woken(coro, c)[c] EXCEPT !.freed = destroy]
    ELSE IF c \in sel THEN [Resolved(coro, c, i)[c] EXCEPT
                              !.cases[i].on = IF destroy THEN None ELSE @]
    ELSE coro[c]

\* Every coroutine waiting on h is made ready.  `nodes' is the order in which
\* its select nodes are dequeued: the first one decides its select.
wake_all(h, chs, nodes, destroy) ==
    LET plain == Range(chan[h].sendQ) \cup Range(chan[h].recvQ)
        sel == {x[1] : x \in Range(nodes)}
    IN  /\ chan' = [g \in Chan |->
                      [chs[g] EXCEPT !.sendSel = Without(@, sel \X Nat),
                                     !.recvSel = Without(@, sel \X Nat),
                                     !.sendQ = IF g = h THEN <<>> ELSE @,
                                     !.recvQ = IF g = h THEN <<>> ELSE @]]
        /\ coro' = [c \in Coro |-> Released(c, plain, sel, FirstCase(nodes, c), destroy)]

\* Mutant: the waiters are not woken.
coco_channel_close_NoWake(h) ==
    /\ fault = "none"
    /\ running = None
    /\ "close" \in program.ops
    /\ ~chan[h].closed
    /\ chan' = [chan EXCEPT ![h].closed = TRUE]
    /\ UNCHANGED <<coro, running, fault, made, taken, deliveries, confirmed>>

coco_channel_close(h) ==
    /\ fault = "none"
    /\ running = None
    /\ "close" \in program.ops
    /\ ~chan[h].destroying
    /\ ~chan[h].closed
    /\ IF Dangling(h) THEN Crash("use after free") ELSE
       /\ wake_all(h, [chan EXCEPT ![h].closed = TRUE], chan[h].recvSel \o chan[h].sendSel, FALSE)
       /\ UNCHANGED <<running, fault, made, taken, deliveries, confirmed>>

\* Some call on h has been woken and has not yet resumed.
HalfWay(h) ==
    \E c \in Coro : coro[c].woken > 0 /\ (coro[c].on = h \/ \E i \in DOMAIN coro[c].cases : coro[c].cases[i].on = h)

\* What the program observes before it destroys a channel: nothing
\* ("destroy_open"), that it is closed ("destroy"), or that no call on it is
\* half way ("destroy_quiet").
MayDestroy(h) ==
    \/ "destroy_open" \in program.ops
    \/ "destroy" \in program.ops /\ chan[h].closed
    \/ "destroy_quiet" \in program.ops /\ ~HalfWay(h)

coco_channel_destroy(h) ==
    /\ fault = "none"
    /\ running = None
    /\ MayDestroy(h)
    /\ ~chan[h].destroying
    /\ IF Dangling(h) THEN Crash("use after free") ELSE
       /\ wake_all(h, [coco_channel_unref(h) EXCEPT ![h].destroying = TRUE],
                   chan[h].sendSel \o chan[h].recvSel, TRUE)
       /\ UNCHANGED <<running, fault, made, taken, deliveries, confirmed>>

\* Mutant: the queue is cut off where the coroutine was.
coco_channel_remove_waiter_CutsOff(chs, h, c) ==
    LET upto(q) == SubSeq(q, 1, Cardinality({i \in DOMAIN q : \A j \in 1..i : q[j] # c}))
    IN  [chs EXCEPT ![h].sendQ = upto(@), ![h].recvQ = upto(@)]

coco_channel_remove_waiter(chs, h, c) ==
    [chs EXCEPT ![h].sendQ = Without(@, {c}), ![h].recvQ = Without(@, {c})]

\* coco_cancel: a coroutine in a plain wait queue is unlinked and its
\* reference dropped; any waiting coroutine is made ready.
coco_cancel(c) ==
    LET h == coro[c].waits
        co == [coro EXCEPT ![c].cancelled = TRUE]
    IN  /\ fault = "none"
        /\ running = None
        /\ "cancel" \in program.ops
        /\ IF coro[c].op = "none" \/ coro[c].woken > 0
           THEN coro' = co /\ UNCHANGED <<chan, fault>>
           ELSE IF h = None
           THEN coro' = Woken(co, c) /\ UNCHANGED <<chan, fault>>
           ELSE IF chan[h].refcount <= 1
           THEN fault' = "use after free" /\ UNCHANGED <<chan, coro>>
           ELSE /\ chan' = coco_channel_remove_waiter(coco_channel_unref(h), h, c)
                /\ coro' = Woken(co, c)
                /\ UNCHANGED fault
        /\ UNCHANGED <<running, made, taken, deliveries, confirmed>>

-----------------------------------------------------------------------------

Call(c) ==
    \/ \E h \in program.chans : coco_channel_send(c, h)
    \/ \E h \in program.chans : coco_channel_recv(c, h)
    \/ \E h \in program.chans : coco_channel_send_batch(c, h)
    \/ \E h \in program.chans : coco_channel_recv_batch(c, h)
    \/ coco_channel_select(c)

Resume(c) ==
    \/ resume_send(c)
    \/ resume_recv(c)
    \/ resume_send_batch(c)
    \/ resume_recv_batch(c)
    \/ resume_select(c)

Loop(c) ==
    \/ send_batch_loop(c)
    \/ recv_batch_loop(c)
    \/ recv_batch_more(c)

Next ==
    /\ \/ \E c \in Coro : Call(c) \/ Resume(c) \/ Loop(c)
       \/ \E c \in Coro : select_timeout_cb(c)
       \/ \E c \in Coro : coco_cancel(c)
       \/ \E h \in program.chans : coco_channel_close(h)
       \/ \E h \in program.chans : coco_channel_destroy(h)
    /\ UNCHANGED program

Spec == Init /\ [][Next]_vars

\* The scheduler runs every ready coroutine in the end, and a running one
\* gets on with its loop.
FairSpec ==
    Spec /\ \A c \in Coro : /\ WF_vars(Resume(c) /\ UNCHANGED program)
                            /\ WF_vars(Loop(c) /\ UNCHANGED program)

-----------------------------------------------------------------------------
(* Properties.                                                             *)

Blocked(c) == coro[c].op # "none" /\ running # c
Plain == {"send", "recv", "send_batch", "recv_batch", "recv_batch_more"}
Sending == {"send", "send_batch"}
Batches == {"send_batch", "recv_batch"}

\* Shape of the state; a buffer never holds more than its capacity (the ring
\* would overwrite its oldest value).
TypeOK ==
    /\ \A h \in Chan :
         /\ chan[h].buf \in Seq(Value)
         /\ Len(chan[h].buf) <= Capacity[h]
         /\ chan[h].sendQ \in Seq(Coro) /\ chan[h].recvQ \in Seq(Coro)
         /\ chan[h].sendSel \in Seq(Coro \X Nat) /\ chan[h].recvSel \in Seq(Coro \X Nat)
         /\ chan[h].closed \in BOOLEAN /\ chan[h].destroying \in BOOLEAN
         /\ chan[h].refcount \in Int
         /\ taken[h] \in Seq(Value)
    /\ \A c \in Coro :
         /\ coro[c].op \in {"none", "select"} \cup Plain
         /\ coro[c].on \in Chan \cup {None} /\ coro[c].waits \in Chan \cup {None}
         /\ coro[c].value \in Value \cup {None}
         /\ coro[c].woken \in Nat
    /\ running \in Coro \cup {None}
    /\ fault \in {"none", "use after free", "null pointer"}
    /\ made \in 0..program.values
    /\ confirmed \subseteq Value

\* A batch send into a buffer repeats values (see ReceivedOnce) and a batch
\* receive from one is overtaken: order is then only kept without a buffer.
Ordered(h) == Capacity[h] = 0 \/ program.ops \cap Batches = {}

Fifo == INSTANCE ChannelFifo WITH
    queue <- [h \in Chan |->
                IF Ordered(h)
                THEN chan[h].buf \o [i \in DOMAIN chan[h].sendQ |-> coro[chan[h].sendQ[i]].value]
                ELSE <<>>],
    taken <- [h \in Chan |-> IF Ordered(h) THEN taken[h] ELSE <<>>],
    shut <- [h \in Chan |-> chan[h].closed \/ chan[h].destroying]

\* Whatever mixture of plain, batch and select operations is used, values come
\* out in the order in which the sends were made, none twice and none skipped,
\* and a closed channel takes nothing more and keeps its buffered values
\* (coco_channel_send, _recv, _select, _close).
ImplementsFifo == Fifo!FifoSpec

\* Where c is linked in a plain queue.
LinksIn(c, h, side) ==
    {<<h, side, i>> : i \in {j \in DOMAIN chan[h][side] : chan[h][side][j] = c}}
Links(c) == UNION {LinksIn(c, h, "sendQ") \cup LinksIn(c, h, "recvQ") : h \in Chan}
Occurrences(c) == Cardinality(Links(c))

\* A coroutine blocked in a plain operation is either linked exactly once, in
\* the right queue of the channel its wait_node names, or has been made ready
\* exactly once: nobody is forgotten, and nobody is linked in a ready list
\* twice or woken while still queued (enqueue_wait_coro, dequeue_wait_coro,
\* coco_channel_remove_waiter).
QueuedXorReady ==
    \A c \in Coro :
        LET me == coro[c] IN
        /\ me.waits # None => ( /\ me.waits = me.on
                                /\ me.op \in Plain
                                /\ c \in Range(IF me.op \in Sending THEN chan[me.on].sendQ
                                                                    ELSE chan[me.on].recvQ))
        /\ Occurrences(c) = IF me.waits = None THEN 0 ELSE 1
        /\ (Blocked(c) /\ me.op \in Plain) => Occurrences(c) + me.woken = 1
        /\ ~Blocked(c) => me.woken = 0

\* Nobody waits for what is already there: no receiver waits while the buffer
\* holds a value or a plain sender waits, no plain receiver while a select
\* offers to send, no sender while the buffer has room, and no plain operation
\* on a closed channel.  (A batch receive forgets senders: programs without.)
NobodyWaitsInVain ==
    program.ops \cap Batches = {} => \A h \in Chan :
        LET q == chan[h] IN
        running = None =>
          /\ (q.recvQ # <<>> \/ q.recvSel # <<>>) => q.buf = <<>> /\ q.sendQ = <<>>
          /\ q.recvQ # <<>> => q.sendSel = <<>>
          /\ (q.sendQ # <<>> \/ q.sendSel # <<>>) => Len(q.buf) = Capacity[h]
          /\ q.closed => q.recvQ = <<>> /\ q.sendQ = <<>> /\ q.sendSel = <<>>

\* The references: one for the owner until it destroys the channel, and one for
\* each plain operation that has blocked and not yet resumed.  (One that is
\* cancelled drops its reference earlier: programs without coco_cancel.)
RefcountExact ==
    "cancel" \notin program.ops => \A h \in Chan :
        chan[h].refcount = (IF chan[h].destroying THEN 0 ELSE 1)
            + Cardinality({c \in Coro : Blocked(c) /\ coro[c].on = h})

\* A channel's memory is not touched after coco_channel_unref() freed it, and
\* no NULL channel is dereferenced: whoever can still use it holds a reference.
NoFault == fault = "none" /\ RefcountExact

\* c is about to return from a receive with wait_node.value.
Carries(c) ==
    LET me == coro[c]
    IN  /\ me.woken > 0
        /\ \/ me.op \in Plain \ Sending
           \/ me.op = "select" /\ me.ready > 0 /\ ~me.cases[me.ready].send

\* A value handed out by a channel has been returned by a receive, or is in the
\* wait_node of a receiver that is ready to return with it.  (A receiver that is
\* cancelled then drops it: programs without coco_cancel.)
NothingLost ==
    "cancel" \notin program.ops => \A h \in Chan : \A v \in Range(taken[h]) :
        deliveries[v] > 0 \/ \E c \in Coro : Carries(c) /\ coro[c].value = v

\* No value is returned by two receives: it is sent once, handed to one
\* receiver, and a receiver woken by coco_channel_close() gets
\* COCO_ERROR_CHANNEL_CLOSED, not an old value.  (A batch send repeats a value and
\* a select woken by a close returns an old one: programs without these.)
ReceivedOnce == program.ops \cap (Batches \cup {"select"}) = {} => \A v \in Value : deliveries[v] <= 1

Accepted == UNION {Range(taken[h]) \cup Range(chan[h].buf) : h \in Chan}

\* COCO_OK from a send means that a receiver has the value or that it is in
\* the buffer.
OkMeansAccepted == confirmed \subseteq Accepted

\* What is sent arrives, once: no value is lost between the channel and a
\* receive, none is returned twice, none is reported as sent that was not
\* accepted, and the ring never holds more than its capacity.
DeliveredOnce == TypeOK /\ NothingLost /\ ReceivedOnce /\ OkMeansAccepted

\* A select commits to one case.  Undecided, all its nodes are registered and
\* none of its values has been accepted; decided, no node is left anywhere, the
\* timer is off and no value but that of the chosen case has been accepted; a
\* timed-out select has sent nothing (select_dequeue_all, cancel_select_timer,
\* select_timeout_cb).
SelectCommitsOnce ==
    \A c \in Coro :
        LET me == coro[c]
            linked == {i \in DOMAIN me.cases : \E h \in Chan :
                         <<c, i>> \in Range(chan[h].sendSel) \cup Range(chan[h].recvSel)}
            passed == {i \in DOMAIN me.cases : me.cases[i].val \in Accepted}
        IN  me.op = "select" =>
              /\ me.woken <= 1
              /\ (me.ready = PENDING) <=> (me.woken = 0)
              /\ linked = IF me.ready = PENDING THEN DOMAIN me.cases ELSE {}
              /\ passed \subseteq {me.ready}
              /\ me.timer => me.ready = PENDING

\* Closing releases every coroutine blocked in a plain operation on the channel.
CloseReleases ==
    \A h \in Chan, c \in Coro :
        chan[h].closed ~> ~(Blocked(c) /\ coro[c].on = h)

=============================================================================
