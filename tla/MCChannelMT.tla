---------------------------- MODULE MCChannelMT -----------------------------
(***************************************************************************)
(* Programs over channels for several threads, for TLC.                    *)
(***************************************************************************)
EXTENDS ChannelMT, TLC

CONSTANTS c1, c2, g1, g2, g3, t1, t2, t3

NoCases == [x \in Actor |-> <<>>]
Recv(c) == [ch |-> c, send |-> FALSE]
Send(c) == [ch |-> c, send |-> TRUE]

Program(capacity, ops, sent) ==
    [chans |-> {c1}, capacity |-> capacity, ops |-> [x \in Actor |-> IF x \in DOMAIN ops THEN ops[x] ELSE {}],
     cases |-> NoCases, default |-> FALSE, sends |-> sent]

Selecting(p, first, second, default) ==
    [p EXCEPT !.chans = ChanMt, !.cases = [x \in Actor |-> IF x = g1 THEN first ELSE second], !.default = default]

\* An unbuffered channel, coroutines only.
Rendezvous ==
    Program(0, g1 :> {"send", "recv"} @@ g2 :> {"send", "try_recv"} @@ g3 :> {"recv", "try_send"}, 2)

\* One slot, coroutines on both ends and at most one thread on each, and a close.
Mixed ==
    {Program(1, g1 :> {"send"} @@ g2 :> {"recv", "close"} @@ t1 :> {"send_thread"} @@ t2 :> {"recv_thread"}, 2),
     Program(1, g1 :> {"send"} @@ g2 :> {"send"} @@ t1 :> {"recv_thread"} @@ t2 :> {"send_thread", "close"}, 2),
     Program(1, g1 :> {"recv"} @@ g2 :> {"recv"} @@ t1 :> {"send_thread"} @@ t2 :> {"recv_thread", "close"}, 2)}

\* The same, threads only.
Threads ==
    {Program(1, t1 :> {"send_thread"} @@ t2 :> {"send_thread"} @@ t3 :> {"recv_thread", "close"}, 2),
     Program(1, t1 :> {"send_thread"} @@ t2 :> {"recv_thread"} @@ t3 :> {"recv_thread", "close"}, 2)}

\* The fast paths, by one thread; the counters wrap around.
Alone == Program(2, t1 :> {"try_send", "try_recv", "close"}, 6)

\* What else is safe: a thread that takes what coroutines offer on an unbuffered
\* channel, and one thread on the fast path that receives what another sends.
Helpers ==
    {Program(0, g1 :> {"send"} @@ g2 :> {"try_send"} @@ t1 :> {"recv_thread"}, 2),
     Program(2, t1 :> {"send_thread"} @@ t2 :> {"try_recv"}, 2)}

\* Two coroutines that select over both channels in the same order.
InOrder(c, ops1, ops2, ops3, default) ==
    Selecting(Program(c, g1 :> (ops1 \cup {"select"}) @@ g2 :> (ops2 \cup {"select"}) @@ g3 :> ops3, 1),
              <<Recv(c1), Recv(c2)>>, <<Send(c1), Recv(c2)>>, default)

Selects ==
    {InOrder(1, {"timeout"}, {}, {"send", "recv"}, FALSE),
     InOrder(0, {}, {"timeout"}, {"send", "recv"}, FALSE),
     InOrder(1, {}, {}, {"close", "recv"}, TRUE),
     InOrder(1, {"timeout"}, {}, {"destroy"}, FALSE)}

Programs == {Rendezvous, Alone} \cup Mixed \cup Threads \cup Helpers \cup Selects

\* One thread sends on the fast path and another receives on it.
FastPath == {Program(1, t1 :> {"try_send"} @@ t2 :> {"try_recv"}, 1)}

\* A coroutine sends to two threads.
TwoSleepers == {Program(1, g1 :> {"send"} @@ t1 :> {"recv_thread"} @@ t2 :> {"recv_thread"}, 2)}

\* Two coroutines that select over both channels in opposite orders.
Crossed ==
    {Selecting(Program(1, g1 :> {"select"} @@ g2 :> {"select"}, 1),
               <<Recv(c1), Recv(c2)>>, <<Recv(c2), Recv(c1)>>, FALSE)}
=============================================================================
