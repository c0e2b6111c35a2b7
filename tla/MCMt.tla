-------------------------------- MODULE MCMt --------------------------------
(***************************************************************************)
(* The multi-threaded scheduler, the stack pools of its processors and the *)
(* channels for several threads on small instances, each behaviour about   *)
(* one of them.                                                            *)
(***************************************************************************)
EXTENDS MTSched, StackPoolMulti, MCChannelMT

VARIABLE part          \* the component that takes the steps

\* The programs of the scheduler: workers, coroutines, and what these do.
World(n, m) ==
    [workers |-> n, max |-> m, on |-> FALSE, spawn |-> FALSE, yield |-> FALSE, block |-> FALSE,
     outside |-> FALSE]

\* Coroutines that run to their end on several workers; coroutines that do all
\* they can on one.
SmallWorlds == {[World(2, 4) EXCEPT !.on = TRUE], World(3, 2), [World(1, 5) EXCEPT !.yield = TRUE],
             [World(1, 3) EXCEPT !.spawn = TRUE, !.yield = TRUE, !.block = TRUE]}

\* A coroutine blocks and is woken by the netpoller.
WokenFromOutside == {[World(1, 1) EXCEPT !.block = TRUE, !.outside = TRUE]}

\* Coroutines start coroutines.
Spawners == {[World(2, 2) EXCEPT !.spawn = TRUE]}

\* Coroutines yield on two workers.
Yielders == {[World(2, 2) EXCEPT !.yield = TRUE]}

TwoClasses == <<2, 4>>

MCInit ==
    /\ Init /\ PoolInit /\ MtInit
    /\ part \in {"sched", "pool", "channel"}
    /\ part # "sched" => world = CHOOSE w \in Worlds : TRUE
    /\ part # "channel" => use = CHOOSE u \in Uses : TRUE

\* (A program over channels may come to its end.)
MCNext == \/ part = "sched" /\ Next /\ UNCHANGED <<poolVars, mtVars, part>>
          \/ part = "pool" /\ PoolNext /\ UNCHANGED <<vars, mtVars, part>>
          \/ part = "channel" /\ (MtNext \/ UNCHANGED mtVars) /\ UNCHANGED <<vars, poolVars, part>>

MCSpec == MCInit /\ [][MCNext]_<<vars, poolVars, mtVars, part>>
=============================================================================
