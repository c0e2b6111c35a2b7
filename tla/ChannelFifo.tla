---------------------------- MODULE ChannelFifo ----------------------------
(***************************************************************************)
(* What a channel promises.  The values a channel has accepted form one    *)
(* sequence: those already taken, then those still queued.  A step of an   *)
(* open channel appends fresh values to that sequence and hands out values *)
(* in its order; closing it keeps what fits in the buffer and forgets the  *)
(* offers of the senders still blocked; a closed channel only drains.      *)
(***************************************************************************)
EXTENDS Integers, Sequences

CONSTANTS Chan, Capacity

VARIABLES
    queue,     \* per channel: values accepted or offered and not yet taken
    taken,     \* per channel: the values handed to receivers, oldest first
    shut       \* per channel: closed, or being destroyed

fifoVars == <<queue, taken, shut>>

FifoInit ==
    /\ queue = [h \in Chan |-> <<>>]
    /\ taken = [h \in Chan |-> <<>>]
    /\ shut = [h \in Chan |-> FALSE]

\* No value twice: neither among the new ones nor among those already seen.
NoRepeats(s) == \A i, j \in 1..Len(s) : i # j => s[i] # s[j]

\* t goes on from s.
Continues(s, t) == Len(s) <= Len(t) /\ \A i \in 1..Len(s) : t[i] = s[i]

\* Values enter at the tail and leave at the head.
Transfer(h) ==
    LET before == taken[h] \o queue[h]
        after == taken'[h] \o queue'[h]
    IN  /\ Continues(before, after)
        /\ Continues(taken[h], taken'[h])
        /\ NoRepeats(after)
        /\ shut[h] => after = before
        /\ UNCHANGED shut

\* Closing keeps the buffered prefix.
Shut(h) ==
    /\ ~shut[h]
    /\ shut' = [shut EXCEPT ![h] = TRUE]
    /\ queue' = [queue EXCEPT ![h] =
                    SubSeq(@, 1, IF Len(@) < Capacity[h] THEN Len(@) ELSE Capacity[h])]
    /\ UNCHANGED taken

\* A blocked sender, which is behind the buffer, gives up.
Withdraw(h) ==
    /\ \E i \in (Capacity[h] + 1)..Len(queue[h]) :
          queue' = [queue EXCEPT ![h] = [j \in 1..(Len(@) - 1) |-> @[IF j < i THEN j ELSE j + 1]]]
    /\ UNCHANGED <<taken, shut>>

FifoNext ==
    \E h \in Chan :
        /\ \/ Transfer(h)
           \/ Shut(h)
           \/ Withdraw(h)
        /\ \A g \in Chan \ {h} : queue'[g] = queue[g] /\ taken'[g] = taken[g]

FifoSpec == FifoInit /\ [][FifoNext]_fifoVars
=============================================================================
