---------------------------- MODULE PriorityFifo ----------------------------
(***************************************************************************)
(* What include/coco.h promises of the ready queue: "Higher priority       *)
(* coroutines are scheduled before lower priority ones.  Within the same   *)
(* priority level, scheduling is FIFO."  There are only the waiting lines  *)
(* and the coroutine that is running: no bitmap, no counters, no time.     *)
(***************************************************************************)
EXTENDS Naturals, Sequences

CONSTANTS Coro, Prio

VARIABLES queue, running

pfVars == <<queue, running>>

Queued(c) == \E p \in Prio : \E i \in DOMAIN queue[p] : queue[p][i] = c

\* c, which is not in line, joins the line of level p; if it was running it
\* no longer is.
Arrive(c, p) ==
    /\ ~Queued(c)
    /\ queue' = [queue EXCEPT ![p] = Append(@, c)]
    /\ running' = running \ {c}

\* Nobody runs: the first of the most urgent line that is not empty does.
Dispatch(p) ==
    /\ running = {}
    /\ queue[p] # <<>>
    /\ \A q \in Prio : q < p => queue[q] = <<>>
    /\ running' = {Head(queue[p])}
    /\ queue' = [queue EXCEPT ![p] = Tail(@)]

\* The i-th in line of level p moves to the end of the line of level q.
Reassign(p, i, q) ==
    /\ p # q
    /\ i \in DOMAIN queue[p]
    /\ queue' = [queue EXCEPT
                   ![p] = [j \in 1..(Len(@) - 1) |-> IF j < i THEN @[j] ELSE @[j + 1]],
                   ![q] = Append(@, queue[p][i])]
    /\ UNCHANGED running

\* The running coroutine blocks or ends.
Leave ==
    /\ running # {}
    /\ running' = {}
    /\ UNCHANGED queue

\* The scheduler is destroyed.
Discard ==
    /\ running = {}
    /\ running' = {}
    /\ queue' = [p \in Prio |-> <<>>]

PFInit ==
    /\ queue = [p \in Prio |-> <<>>]
    /\ running = {}

PFNext ==
    \/ \E c \in Coro, p \in Prio : Arrive(c, p)
    \/ \E p \in Prio : Dispatch(p)
    \/ \E p \in Prio : \E i \in DOMAIN queue[p] : \E q \in Prio : Reassign(p, i, q)
    \/ Leave
    \/ Discard

PFSpec == PFInit /\ [][PFNext]_pfVars
=============================================================================
