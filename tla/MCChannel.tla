----------------------------- MODULE MCChannel -----------------------------
(* Instances of the channels for TLC.                                      *)
EXTENDS Channel, TLC

CONSTANTS c1, c2, c3, h1, h2

Symmetric == Permutations(Coro)

\* The capacities: h1 holds one value, h2 is unbuffered.
OneSlot == [h \in Chan |-> IF h = h1 THEN 1 ELSE 0]

Case(h, send) == [on |-> h, send |-> send]

\* Receive from either channel, or send to either channel.
Selects ==
    {<<Case(h1, FALSE), Case(h2, FALSE)>>, <<Case(h1, TRUE), Case(h2, TRUE)>>}

Use(ops, chans, values) == [ops |-> ops, chans |-> chans, values |-> values]

\* Plain operations; with selects, closing either channel or taking longer
\* over one of them; batches; with cancellation.
Programs ==
    {Use({"send", "recv", "close"}, Chan, 4),
     Use({"send", "recv", "select", "close"}, Chan, 2),
     Use({"send", "recv", "select"}, Chan, 3),
     Use({"send", "recv", "select", "close"}, {h1}, 3),
     Use({"send", "recv", "select", "close"}, {h2}, 3),
     Use({"send", "recv", "send_batch", "recv_batch", "close"}, {h1}, 3),
     Use({"send", "recv", "send_batch", "recv_batch", "close"}, {h2}, 3),
     Use({"send", "recv", "close", "cancel"}, {h1}, 3)}

\* A channel is destroyed when no call on it is half way through a wake-up.
Destroyers == {Use({"send", "recv", "close", "destroy_quiet"}, {h1}, 4)}
=============================================================================
