------------------------------ MODULE IoProofs ------------------------------
(***************************************************************************)
(* Nobody waits for a descriptor in vain, for any number of coroutines and *)
(* descriptors: the netpoller of the multi-threaded scheduler, and the     *)
(* event loop of one thread.                                               *)
(***************************************************************************)
EXTENDS EventLoop, Netpoller, TLAPS

-----------------------------------------------------------------------------
(* The netpoller.                                                          *)

\* The two ways to wait for a descriptor.
Ways == {"read", "write"}

\* What the parts of the state hold.
CallSet == [at : {"idle", "register", "yield", "parked"}, fd : Fd, e : Ways]
EntrySet == [on : SUBSET Ways, ptr : Info \cup {None}]
BlockSet == [fd : Fd \cup {-1}, read : Coro \cup {None}, write : Coro \cup {None}]
EventSet == [ptr : Info \cup {None}, on : SUBSET {"read", "write", "HUP", "wakeup"}]
ThreadSet == [at : {"none", "top", "wait", "handle", "exit"}, ready : Coro \cup {None}, batch : SUBSET EventSet]

\* The types of the variables.
PollTypeOK ==
    /\ io \in [Coro -> CallSet] /\ cur \in Coro \cup {None} /\ runq \subseteq Coro
    /\ holds \in [Fd -> SUBSET {"read", "write", "HUP"}] /\ epoll \in [Fd -> EntrySet]
    /\ info \in [Info -> BlockSet] /\ fds \in [Fd -> Info \cup {None}] /\ thread \in ThreadSet
    /\ running \in BOOLEAN /\ wakeup \in BOOLEAN /\ main \in {"new", "up", "stop", "join", "down"}

\* The controlling thread, the worker and the netpoller thread are where they
\* should be: the worker has stopped before the netpoller does.
ControlOK ==
    /\ \A c \in Coro : cur = c <=> io[c].at \in {"register", "yield"}
    /\ \A c \in Coro : io[c].at = "idle" <=> io[c] = Away
    /\ cur # None => main = "up"
    /\ main = "new" => \A c \in Coro : io[c] = Away
    /\ main \in {"stop", "join", "down"} => ~running
    /\ thread.at # "handle" => thread.batch = {} /\ thread.ready = None
    /\ main \in {"new", "down"} => thread = NoThread
    /\ StopIsHeard

\* A hang-up makes a descriptor readable and writable; a descriptor has one user.
DescriptorsOK ==
    /\ \A fd \in Fd : "HUP" \in holds[fd] => Ways \subseteq holds[fd]
    /\ \A c, d \in Coro : io[c] # Away /\ io[d] # Away /\ io[c].fd = io[d].fd => c = d

\* c waits for an event of the descriptor that block i is about.
Waits(c, i) ==
    /\ Asleep(c) /\ c \notin runq /\ thread.ready # c /\ i # None
    /\ fds[io[c].fd] = i /\ info[i][io[c].e] = c

\* The blocks in use are those of the table, each for the one that sleeps on its
\* descriptor; an armed entry and an event to handle are for one that waits.
BlocksOK ==
    /\ \A fd \in Fd : /\ epoll[fd].ptr = fds[fd]
                      /\ fds[fd] # None => /\ info[fds[fd]].fd = fd
                                           /\ \E c \in Coro : Asleep(c) /\ io[c].fd = fd
                      /\ epoll[fd].on # {} => \E c \in Coro : /\ io[c].fd = fd /\ epoll[fd].on = {io[c].e}
                                                              /\ Waits(c, fds[fd])
    /\ \A i \in Info : info[i] # NoInfo => info[i].fd \in Fd /\ fds[info[i].fd] = i
    /\ \A i \in Info, e \in Ways : info[i][e] # None =>
         Waits(info[i][e], i) /\ io[info[i][e]].fd = info[i].fd /\ io[info[i][e]].e = e
    /\ \A c \in runq : Asleep(c) /\ thread.ready # c
    /\ thread.ready # None => Asleep(thread.ready)

\* The events to handle: one for a block, which is disarmed.
BatchOK ==
    /\ \A ev \in thread.batch : ev.ptr # None =>
         \E c \in Coro : Waits(c, ev.ptr) /\ io[c].e \in ev.on /\ epoll[io[c].fd].on = {}
    /\ \A a, b \in thread.batch : a.ptr = b.ptr => a = b

\* The inductive invariant.
PollInv ==
    /\ PollTypeOK /\ ControlOK /\ DescriptorsOK /\ BlocksOK /\ BatchOK
    /\ SleepersAreWatched

\* At first nobody waits.
LEMMA InitPollInv == PollInit => PollInv
  <1> SUFFICES ASSUME PollInit PROVE PollInv
    BY Zenon
  <1>0. 0 \in Fd /\ None \notin Coro /\ None \notin Info
    BY DescriptorsAssumption, NetpollerAssumption DEF Fd
  <1>1. PollTypeOK
    BY <1>0, Zenon DEF PollInit, PollTypeOK, Away, Absent, NoInfo, NoThread, Ways, CallSet,
       EntrySet,
       BlockSet, EventSet, ThreadSet
  <1>2. ControlOK
    BY <1>0, Zenon DEF PollInit, ControlOK, StopIsHeard, Away, NoThread
  <1>3. DescriptorsOK
    BY Zenon DEF PollInit, DescriptorsOK
  <1>4. BlocksOK
    BY DEF PollInit, BlocksOK, Ways, Absent, NoInfo, NoThread
  <1>5. BatchOK
    BY Zenon DEF PollInit, BatchOK, NoThread
  <1>6. SleepersAreWatched
    BY Zenon DEF PollInit, SleepersAreWatched
  <1> QED
    BY <1>1, <1>2, <1>3, <1>4, <1>5, <1>6, Zenon DEF PollInv

\* The types, field by field.
LEMMA Accessors ==
    ASSUME PollInv
    PROVE  /\ \A c \in Coro : /\ io[c].at \in {"idle", "register", "yield", "parked"}
                             /\ io[c].fd \in Fd /\ io[c].e \in Ways
           /\ \A fd \in Fd : epoll[fd].on \in SUBSET Ways
           /\ \A i \in Info, e \in Ways : info[i][e] \in Coro \cup {None}
           /\ thread.ready \in Coro \cup {None} /\ thread.batch \subseteq EventSet
           /\ \A ev \in thread.batch : ev.ptr \in Info \cup {None}
  <1>1. \A c \in Coro : /\ io[c].at \in {"idle", "register", "yield", "parked"}
                        /\ io[c].fd \in Fd /\ io[c].e \in Ways
    BY Zenon DEF PollInv, PollTypeOK, CallSet
  <1>2. \A fd \in Fd : epoll[fd].on \in SUBSET Ways
    BY Zenon DEF PollInv, PollTypeOK, EntrySet
  <1>3. \A i \in Info, e \in Ways : info[i][e] \in Coro \cup {None}
    BY Zenon DEF PollInv, PollTypeOK, BlockSet, Ways
  <1>4. thread.ready \in Coro \cup {None} /\ thread.batch \subseteq EventSet
    BY Zenon DEF PollInv, PollTypeOK, ThreadSet
  <1>5. \A ev \in EventSet : ev.ptr \in Info \cup {None}
    BY Zenon DEF EventSet
  <1> QED
    BY <1>1, <1>2, <1>3, <1>4, <1>5, Zenon

\* The coroutine that a block names waits for an event of the block's descriptor.
LEMMA Sleeper ==
    ASSUME PollInv, NEW i \in Info, NEW e \in Ways, info[i][e] # None
    PROVE  Waits(info[i][e], i) /\ io[info[i][e]].fd = info[i].fd /\ io[info[i][e]].e = e
  <1>1. \A j \in Info, w \in Ways : info[j][w] # None =>
             Waits(info[j][w], j) /\ io[info[j][w]].fd = info[j].fd /\ io[info[j][w]].e = w
    BY Zenon DEF PollInv, BlocksOK
  <1> QED
    BY <1>1, Zenon

\* A step that changes neither who sleeps, nor the blocks, nor what the thread
\* has in hand, keeps the sleepers watched.
LEMMA SameSleepers ==
    ASSUME PollInv,
           \A d \in Coro : Asleep(d) <=> io'[d].at \in {"yield", "parked"},
           \A d \in Coro : Asleep(d) => io'[d].fd = io[d].fd /\ io'[d].e = io[d].e,
           UNCHANGED <<runq, epoll, info, fds>>,
           thread'.batch = thread.batch, thread'.ready = thread.ready,
           main' \in {"up", "stop", "join"} => main \in {"up", "stop", "join"} \/ \A d \in Coro : io[d] = Away
    PROVE  BlocksOK' /\ BatchOK' /\ SleepersAreWatched'
  <1>0. /\ runq \subseteq Coro /\ thread.ready \in Coro \cup {None}
        /\ info \in [Info -> BlockSet]
        /\ None \notin Coro
    BY DescriptorsAssumption, Accessors, Zenon DEF PollInv, PollTypeOK
  <1>1. \A d \in Coro : \A i : Waits(d, i) => (/\ Asleep(d) /\ d \notin runq /\ thread.ready # d /\ i # None
                                               /\ fds[io[d].fd] = i /\ info[i][io[d].e] = d)'
    BY Zenon DEF Waits, Asleep
  <1>2. \A i \in Info, e \in Ways : info[i][e] \in Coro \cup {None}
    BY <1>0, Accessors, Zenon DEF Ways
  <1>3. BlocksOK'
    <2>1. ASSUME NEW fd \in Fd
          PROVE  /\ epoll'[fd].ptr = fds'[fd]
                 /\ fds'[fd] # None => /\ info'[fds'[fd]].fd = fd
                                       /\ \E c \in Coro : Asleep(c)' /\ io'[c].fd = fd
                 /\ epoll'[fd].on # {} => \E c \in Coro : /\ io'[c].fd = fd /\ epoll'[fd].on = {io'[c].e}
                                                          /\ Waits(c, fds[fd])'
      <3>1. ASSUME epoll[fd].on # {}
            PROVE  \E c \in Coro : io'[c].fd = fd /\ epoll'[fd].on = {io'[c].e} /\ Waits(c, fds[fd])'
        <4>1. PICK c \in Coro : io[c].fd = fd /\ epoll[fd].on = {io[c].e} /\ Waits(c, fds[fd])
          BY <3>1, Zenon DEF PollInv, BlocksOK
        <4>2. Waits(c, fds[fd])' /\ Asleep(c)
          BY <1>1, <4>1, Zenon DEF Waits
        <4> QED
          BY <4>1, <4>2, Zenon
      <3> QED
        BY <3>1 DEF PollInv, BlocksOK, Asleep
    <2>2. \A i \in Info, e \in Ways : info'[i][e] # None =>
            Waits(info[i][e], i)' /\ io'[info'[i][e]].fd = info'[i].fd /\ io'[info'[i][e]].e = e
      <3> SUFFICES ASSUME NEW i \in Info, NEW e \in Ways, info[i][e] # None
                   PROVE  Waits(info[i][e], i)' /\ io'[info[i][e]].fd = info[i].fd /\ io'[info[i][e]].e = e
        BY Zenon
      <3>1. PICK d \in Coro : d = info[i][e]
        BY <1>2, Zenon
      <3>2. Waits(d, i) /\ io[d].fd = info[i].fd /\ io[d].e = e
        BY <3>1 DEF PollInv, BlocksOK
      <3>3. Waits(d, i)' /\ Asleep(d)
        BY <1>1, <3>2 DEF Waits
      <3> QED
        BY <3>1, <3>2, <3>3, Zenon
    <2>3. \A c \in runq' : Asleep(c)' /\ thread'.ready # c
      BY <1>0, ZenonT(40) DEF PollInv, BlocksOK, Asleep
    <2>4. thread'.ready # None => Asleep(thread.ready)'
      BY <1>0, Zenon DEF PollInv, BlocksOK, Asleep
    <2>5. \A i \in Info : info'[i] # NoInfo => info'[i].fd \in Fd /\ fds'[info'[i].fd] = i
      BY Zenon DEF PollInv, BlocksOK
    <2> QED
      BY <2>1, <2>2, <2>3, <2>4, <2>5, Zenon DEF BlocksOK
  <1>4. BatchOK'
    <2>1. ASSUME NEW ev \in thread.batch, ev.ptr # None
          PROVE  \E c \in Coro : Waits(c, ev.ptr)' /\ io'[c].e \in ev.on /\ epoll'[io'[c].fd].on = {}
      <3>1. PICK c \in Coro : Waits(c, ev.ptr) /\ io[c].e \in ev.on /\ epoll[io[c].fd].on = {}
        BY <2>1, ZenonT(40) DEF PollInv, BatchOK
      <3> QED
        BY <1>1, <3>1 DEF Waits
    <2> QED
      BY <2>1, Zenon DEF PollInv, BatchOK
  <1>5. SleepersAreWatched'
    BY DEF PollInv, SleepersAreWatched, Asleep, Away
  <1> QED
    BY <1>3, <1>4, <1>5, Zenon

\* The calls of a coroutine up to the registration, and its yield.
LEMMA StartPollInv ==
    ASSUME PollInv, Shared = {}, NEW c \in Coro, NEW fd \in Fd, NEW e \in Ways, StartIo(c, fd, e)
    PROVE  PollInv'
  <1>0. /\ io \in [Coro -> CallSet]
        /\ main = "up" /\ cur = None /\ io[c] = Away /\ None \notin Coro
        /\ \A x \in Coro : io[x] # Away => io[x].fd # fd
        /\ UNCHANGED <<runq, epoll, info, fds, thread, running, wakeup, main>>
        /\ TryIo(c, fd, e)
    BY DescriptorsAssumption, Zenon DEF StartIo, PollInv, PollTypeOK
  <1>1. \/ io' = [io EXCEPT ![c] = Away] /\ cur' = None
        \/ io' = [io EXCEPT ![c] = [at |-> "register", fd |-> fd, e |-> e]] /\ cur' = c
    BY <1>0, Zenon DEF TryIo
  <1>2. PollTypeOK' /\ \A x \in Fd : "HUP" \in holds'[x] => Ways \subseteq holds'[x]
    <2>1. holds' \in [Fd -> SUBSET {"read", "write", "HUP"}] /\ \A x \in Fd : "HUP" \in holds'[x] => Ways \subseteq holds'[x]
      <3>1. /\ holds \in [Fd -> SUBSET {"read", "write", "HUP"}]
            /\ \A x \in Fd : "HUP" \in holds[x] => Ways \subseteq holds[x]
        BY Zenon DEF PollInv, PollTypeOK, DescriptorsOK
      <3>2. CASE holds' = holds
        BY <3>1, <3>2, Zenon
      <3>3. CASE holds' = [holds EXCEPT ![fd] = IF "HUP" \in @ THEN @ ELSE @ \ {e}]
        BY <3>1, <3>3, Zenon
      <3> QED
        BY <1>0, <3>2, <3>3, Zenon DEF TryIo
    <2> QED
      <3>1. io' \in [Coro -> CallSet] /\ cur' \in Coro \cup {None}
        <4>1. Away \in CallSet /\ [at |-> "register", fd |-> fd, e |-> e] \in CallSet
          BY DescriptorsAssumption DEF Away, CallSet, Ways, Fd
        <4> QED
          BY <1>0, <1>1, <4>1, Zenon
      <3> QED
        BY <1>0, <2>1, <3>1, Zenon DEF PollInv, PollTypeOK
  <1>3. ControlOK'
    BY <1>0, <1>1 DEF PollInv, ControlOK, StopIsHeard, Away
  <1>4. DescriptorsOK'
    BY <1>0, <1>1, <1>2 DEF PollInv, DescriptorsOK
  <1>5. BlocksOK' /\ BatchOK' /\ SleepersAreWatched'
    BY <1>0, <1>1, SameSleepers DEF Asleep, Away
  <1> QED
    BY <1>2, <1>3, <1>4, <1>5, Zenon DEF PollInv

\* The coroutine that has registered yields.
LEMMA YieldPollInv == ASSUME PollInv, NEW c \in Coro, YieldIo(c) PROVE PollInv'
  <1>0. /\ io \in [Coro -> CallSet]
        /\ io[c].at = "yield" /\ io' = [io EXCEPT ![c].at = "parked"] /\ cur' = None /\ None \notin Coro
        /\ UNCHANGED <<runq, holds, epoll, info, fds, thread, running, wakeup, main>>
    BY DescriptorsAssumption, Zenon DEF YieldIo, PollInv, PollTypeOK
  <1>1. /\ io'[c].at = "parked" /\ io'[c].fd = io[c].fd /\ io'[c].e = io[c].e /\ io'[c] # Away /\ io[c] # Away
        /\ \A d \in Coro : d # c => io'[d] = io[d]
    BY <1>0 DEF Away
  <1>2. PollTypeOK'
    <2>1. [io[c] EXCEPT !.at = "parked"] \in CallSet
      BY <1>0, Zenon DEF CallSet
    <2> QED
      BY <1>0, <2>1, Zenon DEF PollInv, PollTypeOK
  <1>3. ControlOK'
    BY <1>0, <1>1 DEF PollInv, ControlOK, StopIsHeard
  <1>4. DescriptorsOK'
    BY <1>0, <1>1 DEF PollInv, DescriptorsOK
  <1>5. BlocksOK' /\ BatchOK' /\ SleepersAreWatched'
    BY <1>0, <1>1, SameSleepers, Zenon DEF Asleep
  <1> QED
    BY <1>2, <1>3, <1>4, <1>5, Zenon DEF PollInv

\* What a registration finds: nobody else uses the descriptor, so it has no block.
LEMMA RegisterPollInv ==
    ASSUME PollInv, NEW c \in Coro, coco_netpoller_register(c)
    PROVE  PollInv'
  <1> DEFINE fd == io[c].fd
             e == io[c].e
  <1>0. /\ io \in [Coro -> CallSet]
        /\ info \in [Info -> BlockSet]
        /\ epoll \in [Fd -> EntrySet] /\ fds \in [Fd -> Info \cup {None}]
        /\ io[c].at = "register" /\ None \notin Coro /\ None \notin Info
        /\ io' = [io EXCEPT ![c].at = "yield"]
        /\ UNCHANGED <<cur, runq, holds, thread, running, wakeup, main>>
    BY DescriptorsAssumption, NetpollerAssumption, Zenon DEF coco_netpoller_register, PollInv,
       PollTypeOK
  <1>1. /\ fd \in Fd /\ e \in Ways /\ io[c] # Away /\ ~Asleep(c)
        /\ \A d \in Coro : Asleep(d) => d # c /\ io[d].fd # fd
        /\ c \notin runq /\ thread.ready # c
    BY <1>0, Accessors, SMTT(40) DEF Asleep, PollInv, DescriptorsOK, BlocksOK, Away
  <1>2. fds[fd] = None
    BY <1>1 DEF PollInv, BlocksOK
  <1>3. PICK i \in Info :
          /\ info[i] = NoInfo
          /\ info' = [info EXCEPT ![i].fd = fd, ![i][e] = c]
          /\ fds' = [fds EXCEPT ![fd] = i]
          /\ epoll' = [epoll EXCEPT ![fd] = [on |-> {e}, ptr |-> i]]
    BY <1>2, Zenon DEF coco_netpoller_register, fd_info_table_get, fd_info_table_set
  <1> HIDE DEF fd, e
  <1>4. /\ io'[c].at = "yield" /\ io'[c].fd = fd /\ io'[c].e = e /\ io'[c] # Away
        /\ \A d \in Coro : d # c => io'[d] = io[d]
    BY <1>0, <1>1 DEF Away, fd, e
  <1>5. /\ info'[i].fd = fd /\ info'[i][e] = c /\ \A w \in Ways : w # e => info'[i][w] = None
        /\ \A j \in Info : j # i => info'[j] = info[j]
        /\ fds'[fd] = i /\ epoll'[fd].on = {e} /\ epoll'[fd].ptr = i
        /\ \A x \in Fd : x # fd => fds'[x] = fds[x] /\ epoll'[x] = epoll[x]
    BY <1>0, <1>1, <1>3, SMTT(40) DEF NoInfo, Ways
  <1>6. \A x \in Fd : fds[x] # i
    BY <1>0, <1>1, <1>3 DEF PollInv, BlocksOK, NoInfo, Fd
  <1>7. ASSUME NEW d \in Coro, NEW j \in Info, Waits(d, j) PROVE Waits(d, j)' /\ d # c /\ j # i /\ io[d].fd # fd
    BY <1>0, <1>1, <1>4, <1>5, <1>6, <1>7, Accessors DEF Waits, Asleep
  <1>8. Waits(c, i)'
    BY <1>0, <1>1, <1>4, <1>5, Zenon DEF Waits, Asleep
  <1>9. PollTypeOK'
    <2>1. io' \in [Coro -> CallSet]
      BY <1>0 DEF CallSet
    <2>2. info' \in [Info -> BlockSet]
      BY <1>0, <1>1, <1>3, ZenonT(40) DEF BlockSet, Ways
    <2>3. epoll' \in [Fd -> EntrySet] /\ fds' \in [Fd -> Info \cup {None}]
      BY <1>0, <1>1, <1>3, Zenon DEF EntrySet
    <2> QED
      BY <1>0, <2>1, <2>2, <2>3, Zenon DEF PollInv, PollTypeOK
  <1>10. ControlOK'
    BY <1>0, <1>1, <1>4, Zenon DEF PollInv, ControlOK, StopIsHeard
  <1>11. DescriptorsOK'
    BY <1>0, <1>1, <1>4 DEF PollInv, DescriptorsOK, fd
  <1>12. BlocksOK'
    <2>1. ASSUME NEW x \in Fd
          PROVE  /\ epoll'[x].ptr = fds'[x]
                 /\ fds'[x] # None => /\ info'[fds'[x]].fd = x
                                      /\ \E d \in Coro : Asleep(d)' /\ io'[d].fd = x
                 /\ epoll'[x].on # {} => \E d \in Coro : /\ io'[d].fd = x /\ epoll'[x].on = {io'[d].e}
                                                         /\ Waits(d, fds[x])'
      <3>1. CASE x = fd
        BY <1>4, <1>5, <1>8, <3>1, Zenon DEF Asleep
      <3>2. CASE x # fd
        <4>1. fds'[x] = fds[x] /\ epoll'[x] = epoll[x] /\ fds[x] # i
          BY <1>5, <1>6, <3>2, Zenon
        <4>2. fds[x] # None => /\ info[fds[x]].fd = x
                               /\ \E d \in Coro : Asleep(d) /\ io[d].fd = x
          BY Zenon DEF PollInv, BlocksOK
        <4>3. ASSUME epoll[x].on # {}
              PROVE  \E d \in Coro : io'[d].fd = x /\ epoll[x].on = {io'[d].e} /\ Waits(d, fds[x])'
          <5>1. PICK d \in Coro : io[d].fd = x /\ epoll[x].on = {io[d].e} /\ Waits(d, fds[x])
            BY <4>3, Zenon DEF PollInv, BlocksOK
          <5>2. fds[x] \in Info
            BY <1>0, <5>1, Zenon DEF Waits
          <5>3. Waits(d, fds[x])' /\ io'[d] = io[d]
            BY <1>4, <1>7, <4>1, <5>1, <5>2, Zenon
          <5> QED
            BY <5>1, <5>3, Zenon
        <4> QED
          BY <1>0, <1>1, <1>4, <1>5, <4>1, <4>2, <4>3 DEF PollInv, BlocksOK, Asleep
      <3> QED
        BY <3>1, <3>2, Zenon
    <2>2. ASSUME NEW j \in Info, NEW w \in Ways, info'[j][w] # None
          PROVE  Waits(info[j][w], j)' /\ io'[info'[j][w]].fd = info'[j].fd /\ io'[info'[j][w]].e = w
      <3>1. CASE j = i
        BY <1>4, <1>5, <1>8, <2>2, <3>1
      <3>2. CASE j # i
        <4>1. info'[j] = info[j]
          BY <1>5, <3>2, Zenon
        <4>2. PICK d \in Coro : d = info[j][w]
          BY <1>0, <2>2, <4>1, Accessors, Zenon DEF Ways
        <4>3. Waits(d, j) /\ io[d].fd = info[j].fd /\ io[d].e = w
          BY <1>0, <4>2 DEF PollInv, BlocksOK
        <4>4. Waits(d, j)' /\ io'[d] = io[d]
          BY <1>4, <1>7, <4>3, Zenon
        <4> QED
          BY <4>1, <4>2, <4>3, <4>4, Zenon
      <3> QED
        BY <3>1, <3>2, Zenon
    <2>3. \A d \in runq' : Asleep(d)' /\ thread'.ready # d
      BY <1>0, <1>4, SMTT(40) DEF PollInv, PollTypeOK, BlocksOK, Asleep
    <2>4. thread'.ready # None => Asleep(thread.ready)'
      BY <1>0, <1>4, SMTT(40) DEF PollInv, PollTypeOK, BlocksOK, Asleep
    <2>5. \A j \in Info : info'[j] # NoInfo => info'[j].fd \in Fd /\ fds'[info'[j].fd] = j
      BY <1>0, <1>1, <1>2, <1>5 DEF PollInv, BlocksOK
    <2> QED
      BY <2>1, <2>2, <2>3, <2>4, <2>5, Zenon DEF BlocksOK
  <1>13. BatchOK'
    <2>1. ASSUME NEW ev \in thread.batch, ev.ptr # None
          PROVE  \E d \in Coro : Waits(d, ev.ptr)' /\ io'[d].e \in ev.on /\ epoll'[io'[d].fd].on = {}
      <3>1. PICK d \in Coro : Waits(d, ev.ptr) /\ io[d].e \in ev.on /\ epoll[io[d].fd].on = {}
        BY <2>1, Zenon DEF PollInv, BatchOK
      <3>2. ev.ptr \in Info
        BY <2>1, Accessors, Zenon DEF PollInv, PollTypeOK
      <3>3. Waits(d, ev.ptr)' /\ io'[d] = io[d] /\ io[d].fd # fd /\ io[d].fd \in Fd
        BY <1>0, <1>4, <1>7, <3>1, <3>2, Accessors, Zenon
      <3> QED
        BY <1>5, <3>1, <3>3
    <2> QED
      BY <1>0, <2>1, Zenon DEF PollInv, BatchOK
  <1>14. SleepersAreWatched'
    <2> SUFFICES ASSUME main \in {"up", "stop", "join"}, NEW d \in Coro, Asleep(d)'
                 PROVE  LET j == fds'[io'[d].fd] IN
                        \/ d \in runq \/ thread.ready = d
                        \/ /\ j # None /\ info'[j][io'[d].e] = d
                           /\ \/ io'[d].e \in epoll'[io'[d].fd].on /\ epoll'[io'[d].fd].ptr = j
                              \/ \E ev \in thread.batch : ev.ptr = j /\ io'[d].e \in ev.on
      BY <1>0, Zenon DEF SleepersAreWatched
    <2>1. CASE d = c
      BY <1>0, <1>4, <1>5, <2>1, SMTT(40)
    <2>2. CASE d # c
      <3>1. io'[d] = io[d] /\ Asleep(d) /\ io[d].fd \in Fd /\ io[d].fd # fd
        BY <1>0, <1>1, <1>4, <2>2, Accessors, Zenon DEF Asleep
      <3>2. fds'[io[d].fd] = fds[io[d].fd] /\ epoll'[io[d].fd] = epoll[io[d].fd] /\ fds[io[d].fd] # i
        BY <1>5, <1>6, <3>1, Zenon
      <3>3. fds[io[d].fd] # None => info'[fds[io[d].fd]] = info[fds[io[d].fd]]
        BY <1>0, <1>5, <3>1, <3>2
      <3> QED
        BY <3>1, <3>2, <3>3 DEF PollInv, SleepersAreWatched
    <2> QED
      BY <2>1, <2>2, Zenon
  <1> QED
    BY <1>9, <1>10, <1>11, <1>12, <1>13, <1>14, Zenon DEF PollInv

\* One that is made ready unregisters: nothing names it any more, and its
\* descriptor has no block afterwards.
LEMMA ResumeFacts ==
    ASSUME PollInv, NEW c \in Coro, ResumeIo(c)
    PROVE  /\ Asleep(c) /\ thread.ready # c /\ io[c] # Away
           /\ \A d \in Coro : d # c /\ io[d] # Away => io[d].fd # io[c].fd
           /\ fds' = [fds EXCEPT ![io[c].fd] = None]
           /\ epoll' = [epoll EXCEPT ![io[c].fd] = Absent]
           /\ info' \in [Info -> BlockSet]
           /\ \A i \in Info : info'[i] = IF i = fds[io[c].fd] THEN NoInfo ELSE info[i]
           /\ \A i \in Info, w \in Ways : info[i][w] # c
  <1> DEFINE fd == io[c].fd
             e == io[c].e
             i == fds[fd]
  <1>0. /\ info \in [Info -> BlockSet] /\ epoll \in [Fd -> EntrySet] /\ fds \in [Fd -> Info \cup {None}]
        /\ None \notin Coro /\ None \notin Info /\ c \in runq
    BY DescriptorsAssumption, NetpollerAssumption, Zenon DEF PollInv, PollTypeOK, ResumeIo
  <1>1. Asleep(c) /\ thread.ready # c /\ io[c] # Away
    BY <1>0 DEF PollInv, BlocksOK, Asleep, Away
  <1>2. \A d \in Coro : d # c /\ io[d] # Away => io[d].fd # fd
    BY <1>1, Zenon DEF PollInv, DescriptorsOK
  <1>3. \A j \in Info, w \in Ways : info[j][w] # c
    BY <1>0 DEF PollInv, BlocksOK, Waits
  <1>4. fd \in Fd /\ e \in Ways
    BY Accessors, Zenon
  <1>5. CASE i = None
    <2>1. UNCHANGED <<info, fds, epoll>>
      BY <1>5, Zenon DEF ResumeIo, coco_netpoller_unregister, fd_info_table_get
    <2>2. epoll[fd].on = {} /\ epoll[fd].ptr = None
      BY <1>4, <1>5 DEF PollInv, BlocksOK, Waits
    <2>3. epoll[fd] = Absent
      BY <1>0, <1>4, <2>2, Zenon DEF EntrySet, Absent
    <2>4. epoll = [epoll EXCEPT ![fd] = Absent] /\ fds = [fds EXCEPT ![fd] = None]
      BY <1>0, <1>4, <1>5, <2>3, Zenon
    <2>5. \A j \in Info : j # i
      BY <1>0, <1>5, Zenon
    <2> QED
      BY <1>0, <1>1, <1>2, <1>3, <2>1, <2>4, <2>5, Zenon
  <1>6. CASE i # None
    <2>1. i \in Info /\ info[i].fd = fd
      BY <1>0, <1>4, <1>6 DEF PollInv, BlocksOK
    <2>2. ASSUME NEW w \in Ways, info[i][w] # None PROVE FALSE
      <3>1. PICK d \in Coro : d = info[i][w]
        BY <2>1, <2>2, Accessors, ZenonT(40)
      <3>2. Asleep(d) /\ io[d].fd = fd
        BY <2>1, <2>2, <3>1 DEF PollInv, BlocksOK, Waits
      <3>3. io[d] # Away
        BY <3>2 DEF Asleep, Away
      <3> QED
        BY <1>2, <1>3, <2>1, <3>1, <3>2, <3>3, Zenon
    <2>3. [info[i] EXCEPT ![e] = None].read = None /\ [info[i] EXCEPT ![e] = None].write = None
      <3>1. info[i]["read"] = None /\ info[i]["write"] = None
        BY <2>2, Zenon DEF Ways
      <3>2. info[i] \in BlockSet
        BY <1>0, <2>1, Zenon
      <3> QED
        BY <1>4, <3>1, <3>2, Zenon DEF BlockSet, Ways
    <2>4. /\ epoll' = [epoll EXCEPT ![fd] = Absent] /\ fds' = [fds EXCEPT ![fd] = None]
          /\ info' = [info EXCEPT ![i] = NoInfo]
      BY <1>6, <2>3, Zenon DEF ResumeIo, coco_netpoller_unregister, fd_info_table_get,
         fd_info_table_set
    <2>5. NoInfo \in BlockSet
      BY Zenon DEF NoInfo, BlockSet
    <2> QED
      BY <1>0, <1>1, <1>2, <1>3, <2>1, <2>4, <2>5, Zenon
  <1> QED
    BY <1>5, <1>6, Zenon

\* It tries again, and returns or will register anew.
LEMMA ResumePollInv == ASSUME PollInv, NEW c \in Coro, ResumeIo(c) PROVE PollInv'
  <1>0. /\ io \in [Coro -> CallSet] /\ info \in [Info -> BlockSet] /\ epoll \in [Fd -> EntrySet]
        /\ fds \in [Fd -> Info \cup {None}] /\ runq \subseteq Coro
        /\ None \notin Coro /\ None \notin Info /\ c \in runq /\ main = "up" /\ cur = None
        /\ runq' = runq \ {c} /\ UNCHANGED <<thread, running, wakeup, main>>
        /\ TryIo(c, io[c].fd, io[c].e)
    BY DescriptorsAssumption, NetpollerAssumption, Zenon DEF PollInv, PollTypeOK, ResumeIo
  <1>1. PICK fd \in Fd, e \in Ways : fd = io[c].fd /\ e = io[c].e
    BY Accessors, Zenon
  <1>2. /\ Asleep(c) /\ thread.ready # c /\ io[c] # Away
        /\ \A d \in Coro : d # c /\ io[d] # Away => io[d].fd # fd
        /\ fds' = [fds EXCEPT ![fd] = None] /\ epoll' = [epoll EXCEPT ![fd] = Absent]
        /\ info' \in [Info -> BlockSet]
        /\ \A i \in Info : info'[i] = IF i = fds[fd] THEN NoInfo ELSE info[i]
        /\ \A i \in Info, w \in Ways : info[i][w] # c
    BY <1>1, ResumeFacts
  <1>3. \/ io' = [io EXCEPT ![c] = Away] /\ cur' = None
        \/ io' = [io EXCEPT ![c] = [at |-> "register", fd |-> fd, e |-> e]] /\ cur' = c
    BY <1>0, <1>1, Zenon DEF TryIo
  <1>4. /\ ~Asleep(c)' /\ \A d \in Coro : d # c => io'[d] = io[d]
        /\ io'[c].at \in {"idle", "register"} /\ (cur' = c <=> io'[c].at = "register") /\ cur' \in {c, None}
        /\ (io'[c].at = "idle" <=> io'[c] = Away) /\ (io'[c] # Away => io'[c].fd = fd)
    BY <1>0, <1>3 DEF Asleep, Away
  <1>5. /\ fds'[fd] = None /\ epoll'[fd].on = {} /\ epoll'[fd].ptr = None
        /\ \A x \in Fd : x # fd => fds'[x] = fds[x] /\ epoll'[x] = epoll[x]
    BY <1>0, <1>2, Zenon DEF Absent
  <1>6. \A x \in Fd : fds[x] # None /\ x # fd => fds[x] # fds[fd]
    BY SMTT(40) DEF PollInv, BlocksOK
  <1>7. ASSUME NEW d \in Coro, NEW j \in Info, Waits(d, j)
        PROVE  Waits(d, j)' /\ d # c /\ j # fds[fd] /\ io[d].fd # fd /\ io'[d] = io[d]
    <2>1. d # c /\ Asleep(d) /\ fds[io[d].fd] = j /\ info[j][io[d].e] = d /\ d \notin runq /\ thread.ready # d
      BY <1>0, <1>7, ZenonT(40) DEF Waits
    <2>2. io[d].fd # fd /\ io[d].fd \in Fd
      BY <1>2, <2>1, Accessors DEF Asleep, Away
    <2>3. j # fds[fd]
      BY <1>0, <1>6, <2>1, <2>2, Zenon
    <2> QED
      BY <1>0, <1>2, <1>4, <1>5, <2>1, <2>2, <2>3 DEF Waits, Asleep
  <1>8. PollTypeOK' /\ \A x \in Fd : "HUP" \in holds'[x] => Ways \subseteq holds'[x]
    <2>1. /\ holds' \in [Fd -> SUBSET {"read", "write", "HUP"}]
          /\ \A x \in Fd : "HUP" \in holds'[x] => Ways \subseteq holds'[x]
      <3>1. /\ holds \in [Fd -> SUBSET {"read", "write", "HUP"}]
            /\ \A x \in Fd : "HUP" \in holds[x] => Ways \subseteq holds[x]
        BY Zenon DEF PollInv, PollTypeOK, DescriptorsOK
      <3>2. CASE holds' = holds
        BY <3>1, <3>2, Zenon
      <3>3. CASE holds' = [holds EXCEPT ![fd] = IF "HUP" \in @ THEN @ ELSE @ \ {e}]
        BY <3>1, <3>3, Zenon
      <3> QED
        BY <1>0, <1>1, <3>2, <3>3, Zenon DEF TryIo
    <2>2. io' \in [Coro -> CallSet] /\ cur' \in Coro \cup {None}
      <3>1. Away \in CallSet /\ [at |-> "register", fd |-> fd, e |-> e] \in CallSet
        BY DescriptorsAssumption DEF Away, CallSet, Ways, Fd
      <3> QED
        BY <1>0, <1>3, <3>1
    <2>3. epoll' \in [Fd -> EntrySet] /\ fds' \in [Fd -> Info \cup {None}]
      BY <1>0, <1>2, Zenon DEF EntrySet, Absent
    <2> QED
      BY <1>0, <1>2, <2>1, <2>2, <2>3, Zenon DEF PollInv, PollTypeOK
  <1>9. ControlOK'
    BY <1>0, <1>2, <1>4, SMTT(40) DEF PollInv, ControlOK, StopIsHeard, Asleep
  <1>10. DescriptorsOK'
    BY <1>2, <1>4, <1>8 DEF PollInv, DescriptorsOK
  <1>11. BlocksOK'
    <2>1. ASSUME NEW x \in Fd
          PROVE  /\ epoll'[x].ptr = fds'[x]
                 /\ fds'[x] # None => /\ info'[fds'[x]].fd = x
                                      /\ \E d \in Coro : Asleep(d)' /\ io'[d].fd = x
                 /\ epoll'[x].on # {} => \E d \in Coro : /\ io'[d].fd = x /\ epoll'[x].on = {io'[d].e}
                                                         /\ Waits(d, fds[x])'
      <3>1. CASE x = fd
        BY <1>5, <3>1, Zenon
      <3>2. CASE x # fd
        <4>1. fds'[x] = fds[x] /\ epoll'[x] = epoll[x] /\ epoll[x].ptr = fds[x]
          BY <1>5, <3>2, Zenon DEF PollInv, BlocksOK
        <4>2. ASSUME fds[x] # None
              PROVE  info'[fds[x]].fd = x /\ \E d \in Coro : Asleep(d)' /\ io'[d].fd = x
          <5>1. PICK d \in Coro : Asleep(d) /\ io[d].fd = x
            BY <4>2, Zenon DEF PollInv, BlocksOK
          <5>2. d # c
            BY <1>1, <3>2, <5>1, Zenon
          <5>3. fds[x] \in Info /\ info[fds[x]].fd = x /\ fds[x] # fds[fd]
            BY <1>0, <1>6, <3>2, <4>2 DEF PollInv, BlocksOK
          <5> QED
            BY <1>2, <1>4, <5>1, <5>2, <5>3, Zenon DEF Asleep
        <4>3. ASSUME epoll[x].on # {}
              PROVE  \E d \in Coro : io'[d].fd = x /\ epoll[x].on = {io'[d].e} /\ Waits(d, fds[x])'
          <5>1. PICK d \in Coro : io[d].fd = x /\ epoll[x].on = {io[d].e} /\ Waits(d, fds[x])
            BY <4>3, Zenon DEF PollInv, BlocksOK
          <5>2. fds[x] \in Info
            BY <1>0, <5>1, Zenon DEF Waits
          <5>3. Waits(d, fds[x])' /\ io'[d] = io[d]
            BY <1>7, <4>1, <5>1, <5>2, Zenon
          <5> QED
            BY <5>1, <5>3, Zenon
        <4> QED
          BY <4>1, <4>2, <4>3, Zenon
      <3> QED
        BY <3>1, <3>2, Zenon
    <2>2. ASSUME NEW j \in Info, NEW w \in Ways, info'[j][w] # None
          PROVE  Waits(info[j][w], j)' /\ io'[info'[j][w]].fd = info'[j].fd /\ io'[info'[j][w]].e = w
      <3>1. info'[j] = info[j]
        BY <1>2, <2>2 DEF NoInfo, Ways
      <3>2. PICK d \in Coro : d = info[j][w]
        BY <2>2, <3>1, Accessors, Zenon
      <3>3. Waits(d, j) /\ io[d].fd = info[j].fd /\ io[d].e = w
        BY <1>0, <3>2 DEF PollInv, BlocksOK
      <3>4. Waits(d, j)' /\ io'[d] = io[d]
        BY <1>7, <3>3, Zenon
      <3> QED
        BY <3>1, <3>2, <3>3, <3>4, Zenon
    <2>3. \A d \in runq' : Asleep(d)' /\ thread'.ready # d
      BY <1>0, <1>4 DEF PollInv, BlocksOK, Asleep
    <2>4. thread'.ready # None => Asleep(thread.ready)'
      <3>1. thread.ready # None => thread.ready \in Coro /\ Asleep(thread.ready)
        BY Accessors, Zenon DEF PollInv, BlocksOK
      <3>2. thread' = thread /\ thread.ready # c
        BY <1>0, <1>2, Zenon
      <3> QED
        BY <1>4, <3>1, <3>2, Zenon DEF Asleep
    <2>5. \A j \in Info : info'[j] # NoInfo => info'[j].fd \in Fd /\ fds'[info'[j].fd] = j
      <3>1. \A j \in Info : info[j] # NoInfo => info[j].fd \in Fd /\ fds[info[j].fd] = j
        BY Zenon DEF PollInv, BlocksOK
      <3> QED
        <4>1. ASSUME NEW j \in Info, info'[j] # NoInfo PROVE info'[j].fd \in Fd /\ fds'[info'[j].fd] = j
          <5>1. j # fds[fd] /\ info'[j] = info[j]
            BY <1>2, <4>1, Zenon
          <5>2. info[j].fd \in Fd /\ fds[info[j].fd] = j /\ info[j].fd # fd
            BY <3>1, <4>1, <5>1, Zenon
          <5> QED
            BY <1>5, <5>1, <5>2, Zenon
        <4> QED
          BY <4>1, Zenon
    <2> QED
      BY <2>1, <2>2, <2>3, <2>4, <2>5, Zenon DEF BlocksOK
  <1>12. BatchOK'
    <2>1. ASSUME NEW ev \in thread.batch, ev.ptr # None
          PROVE  \E d \in Coro : Waits(d, ev.ptr)' /\ io'[d].e \in ev.on /\ epoll'[io'[d].fd].on = {}
      <3>1. PICK d \in Coro : Waits(d, ev.ptr) /\ io[d].e \in ev.on /\ epoll[io[d].fd].on = {}
        BY <2>1, Zenon DEF PollInv, BatchOK
      <3>2. ev.ptr \in Info /\ io[d].fd \in Fd
        BY <2>1, Accessors, Zenon
      <3>3. Waits(d, ev.ptr)' /\ io'[d] = io[d] /\ io[d].fd # fd
        BY <1>7, <3>1, <3>2, Zenon
      <3> QED
        BY <1>5, <3>1, <3>2, <3>3, ZenonT(40)
    <2> QED
      BY <1>0, <2>1, Zenon DEF PollInv, BatchOK
  <1>13. SleepersAreWatched'
    <2> SUFFICES ASSUME NEW d \in Coro, Asleep(d)'
                 PROVE  LET j == fds'[io'[d].fd] IN
                        \/ d \in runq' \/ thread.ready = d
                        \/ /\ j # None /\ info'[j][io'[d].e] = d
                           /\ \/ io'[d].e \in epoll'[io'[d].fd].on /\ epoll'[io'[d].fd].ptr = j
                              \/ \E ev \in thread.batch : ev.ptr = j /\ io'[d].e \in ev.on
      BY <1>0, Zenon DEF SleepersAreWatched
    <2>1. d # c /\ io'[d] = io[d] /\ Asleep(d) /\ io[d].fd \in Fd /\ io[d].fd # fd
      <3>1. d # c /\ io'[d] = io[d] /\ Asleep(d)
        BY <1>4, Zenon DEF Asleep
      <3>2. io[d] # Away
        BY <3>1 DEF Asleep, Away
      <3> QED
        BY <1>2, <3>1, <3>2, Accessors, Zenon
    <2>2. fds'[io[d].fd] = fds[io[d].fd] /\ epoll'[io[d].fd] = epoll[io[d].fd]
      BY <1>5, <2>1, Zenon
    <2>3. fds[io[d].fd] # None => info'[fds[io[d].fd]] = info[fds[io[d].fd]]
      BY <1>0, <1>2, <1>6, <2>1
    <2> QED
      BY <1>0, <2>1, <2>2, <2>3 DEF PollInv, SleepersAreWatched
  <1> QED
    BY <1>8, <1>9, <1>10, <1>11, <1>12, <1>13, Zenon DEF PollInv

\* epoll_wait() reports every event to one that waits for it: a hang-up too.
LEMMA WaitPollInv == ASSUME PollInv, netpoller_wait PROVE PollInv'
  <1>0. /\ epoll \in [Fd -> EntrySet] /\ fds \in [Fd -> Info \cup {None}] /\ thread \in ThreadSet
        /\ holds \in [Fd -> SUBSET {"read", "write", "HUP"}]
        /\ None \notin Coro /\ None \notin Info /\ thread.at = "wait" /\ thread.batch = {} /\ thread.ready = None
        /\ UNCHANGED <<io, cur, runq, holds, info, fds, running, wakeup, main>>
    BY DescriptorsAssumption, NetpollerAssumption, Zenon DEF PollInv, PollTypeOK, ControlOK,
       netpoller_wait
  <1>1. PICK evs \in SUBSET {fd \in Fd : Report(fd) # {}}, w \in {{}, {"wakeup"}} :
        /\ thread' = [at |-> "handle", ready |-> None,
                      batch |-> {[ptr |-> epoll[fd].ptr, on |-> Report(fd)] : fd \in evs}
                                \cup {[ptr |-> None, on |-> x] : x \in IF w = {} THEN {} ELSE {w}}]
        /\ epoll' = [fd \in Fd |-> IF fd \in evs THEN [epoll[fd] EXCEPT !.on = {}] ELSE epoll[fd]]
    BY Zenon DEF netpoller_wait
  <1>2. ASSUME NEW fd \in evs
        PROVE  /\ fd \in Fd /\ epoll[fd].ptr = fds[fd] /\ fds[fd] \in Info
               /\ Report(fd) \in SUBSET {"read", "write", "HUP", "wakeup"}
               /\ \E c \in Coro : io[c].fd = fd /\ Waits(c, fds[fd]) /\ io[c].e \in Report(fd)
    <2>1. fd \in Fd /\ Report(fd) # {}
      BY <1>1, Zenon
    <2>2. epoll[fd].on # {} /\ Report(fd) = holds[fd] \cap (epoll[fd].on \cup {"HUP"})
      BY <2>1, Zenon DEF Report
    <2>3. PICK c \in Coro : io[c].fd = fd /\ epoll[fd].on = {io[c].e} /\ Waits(c, fds[fd])
      BY <2>1, <2>2, Zenon DEF PollInv, BlocksOK
    <2>4. io[c].e \in Ways /\ ("HUP" \in holds[fd] => Ways \subseteq holds[fd])
      BY <2>1, Accessors, Zenon DEF PollInv, DescriptorsOK
    <2>5. io[c].e \in Report(fd)
      BY <2>1, <2>2, <2>3, <2>4, SMTT(40)
    <2>6. epoll[fd].ptr = fds[fd] /\ fds[fd] \in Info
      BY <1>0, <2>1, <2>3 DEF PollInv, BlocksOK, Waits
    <2>7. Report(fd) \in SUBSET {"read", "write", "HUP", "wakeup"}
      BY <1>0, <2>1, <2>2, Zenon
    <2> QED
      BY <2>1, <2>3, <2>5, <2>6, <2>7, Zenon
  <1>3. thread'.at = "handle" /\ thread'.ready = None
    BY <1>1, Zenon
  <1>4. \A ev \in thread'.batch : \/ \E fd \in evs : ev = [ptr |-> fds[fd], on |-> Report(fd)]
                                 \/ ev = [ptr |-> None, on |-> {"wakeup"}]
    BY <1>1, <1>2
  <1>5. ASSUME NEW fd \in evs PROVE [ptr |-> fds[fd], on |-> Report(fd)] \in thread'.batch
    <2>1. [ptr |-> epoll[fd].ptr, on |-> Report(fd)] \in thread'.batch
      BY <1>1, Zenon
    <2>2. epoll[fd].ptr = fds[fd]
      BY <1>2, Zenon
    <2> QED
      BY <2>1, <2>2, Zenon
  <1>6. /\ \A fd \in Fd : epoll'[fd].ptr = epoll[fd].ptr
        /\ \A fd \in Fd : epoll'[fd].on = IF fd \in evs THEN {} ELSE epoll[fd].on
    BY <1>0, <1>1 DEF EntrySet
  <1>7. \A d \in Coro : \A i : Waits(d, i) <=> Waits(d, i)'
    BY <1>0, <1>3, ZenonT(40) DEF Waits, Asleep
  <1>8. PollTypeOK'
    <2>1. \A ev \in thread'.batch : ev \in EventSet
      BY <1>0, <1>2, <1>4, SMTT(40) DEF EventSet
    <2>2. thread' \in ThreadSet
      <3>1. PICK b : b = thread'.batch /\ b \subseteq EventSet /\ thread' = [at |-> "handle", ready |-> None, batch |-> b]
        BY <1>1, <2>1, Zenon
      <3> QED
        BY <3>1 DEF ThreadSet
    <2>3. epoll' \in [Fd -> EntrySet]
      BY <1>0, <1>1 DEF EntrySet
    <2> QED
      BY <1>0, <2>2, <2>3, Zenon DEF PollInv, PollTypeOK
  <1>9. ControlOK'
    <2>1. main \notin {"new", "down"}
      BY <1>0 DEF PollInv, ControlOK, NoThread
    <2> QED
      BY <1>0, <1>3, <2>1, Zenon DEF PollInv, ControlOK, StopIsHeard
  <1>10. DescriptorsOK'
    BY <1>0, ZenonT(40) DEF PollInv, DescriptorsOK
  <1>11. BlocksOK'
    <2>1. ASSUME NEW x \in Fd
          PROVE  /\ epoll'[x].ptr = fds'[x]
                 /\ fds'[x] # None => /\ info'[fds'[x]].fd = x
                                      /\ \E d \in Coro : Asleep(d)' /\ io'[d].fd = x
                 /\ epoll'[x].on # {} => \E d \in Coro : /\ io'[d].fd = x /\ epoll'[x].on = {io'[d].e}
                                                         /\ Waits(d, fds[x])'
      <3>1. epoll'[x].ptr = fds[x] /\ (epoll'[x].on # {} => epoll'[x].on = epoll[x].on)
        BY <1>6, Zenon DEF PollInv, BlocksOK
      <3>2. epoll[x].on # {} => \E d \in Coro : io[d].fd = x /\ epoll[x].on = {io[d].e} /\ Waits(d, fds[x])
        BY Zenon DEF PollInv, BlocksOK
      <3>3. fds[x] # None => info[fds[x]].fd = x /\ \E d \in Coro : Asleep(d) /\ io[d].fd = x
        BY Zenon DEF PollInv, BlocksOK
      <3>4. epoll'[x].on # {} => \E d \in Coro : io[d].fd = x /\ epoll'[x].on = {io[d].e} /\ Waits(d, fds[x])'
        BY <1>0, <1>7, <3>1, <3>2, Zenon
      <3> QED
        BY <1>0, <3>1, <3>3, <3>4, Zenon DEF Asleep
    <2>2. ASSUME NEW j \in Info, NEW v \in Ways, info[j][v] # None
          PROVE  Waits(info[j][v], j)' /\ io[info[j][v]].fd = info[j].fd /\ io[info[j][v]].e = v
      <3>1. PICK d \in Coro : d = info[j][v]
        BY <2>2, Accessors, ZenonT(40)
      <3>2. Waits(d, j) /\ io[d].fd = info[j].fd /\ io[d].e = v
        BY <2>2, <3>1 DEF PollInv, BlocksOK
      <3>3. Waits(d, j)' /\ info' = info
        BY <1>0, <1>7, <3>2, Zenon
      <3> QED
        BY <3>1, <3>2, <3>3, Zenon
    <2>3. \A d \in runq : Asleep(d)' /\ d # None
      BY <1>0, Zenon DEF PollInv, PollTypeOK, BlocksOK, Asleep
    <2>4. \A j \in Info : info[j] # NoInfo => info[j].fd \in Fd /\ fds[info[j].fd] = j
      BY Zenon DEF PollInv, BlocksOK
    <2> QED
      BY <1>0, <1>3, <2>1, <2>2, <2>3, <2>4 DEF BlocksOK
  <1>12. BatchOK'
    <2>1. ASSUME NEW ev \in thread'.batch, ev.ptr # None
          PROVE  \E d \in Coro : Waits(d, ev.ptr)' /\ io[d].e \in ev.on /\ epoll'[io[d].fd].on = {}
      <3>1. PICK fd \in evs : ev = [ptr |-> fds[fd], on |-> Report(fd)]
        BY <1>4, <2>1
      <3>2. PICK d \in Coro : io[d].fd = fd /\ Waits(d, fds[fd]) /\ io[d].e \in Report(fd)
        BY <1>2, Zenon
      <3>3. Waits(d, ev.ptr) /\ io[d].e \in ev.on /\ epoll'[io[d].fd].on = {}
        BY <1>2, <1>6, <3>1, <3>2
      <3> QED
        BY <1>7, <3>3, Zenon
    <2>2. ASSUME NEW a \in thread'.batch, NEW b \in thread'.batch, a.ptr = b.ptr PROVE a = b
      <3>1. \A x, y \in evs : fds[x] = fds[y] => x = y
        BY <1>0, <1>2 DEF PollInv, BlocksOK
      <3>2. \A x \in evs : fds[x] # None
        BY <1>0, <1>2, Zenon
      <3>3. CASE \E x \in evs : a = [ptr |-> fds[x], on |-> Report(x)]
        <4>1. PICK x \in evs : a = [ptr |-> fds[x], on |-> Report(x)]
          BY <3>3, Zenon
        <4>2. b.ptr = fds[x]
          BY <2>2, <4>1, Zenon
        <4>3. PICK y \in evs : b = [ptr |-> fds[y], on |-> Report(y)]
          BY <1>4, <3>2, <4>2
        <4> QED
          BY <3>1, <4>1, <4>2, <4>3, Zenon
      <3>4. CASE a = [ptr |-> None, on |-> {"wakeup"}]
        BY <1>4, <2>2, <3>2, <3>4
      <3> QED
        BY <1>4, <3>3, <3>4, ZenonT(40)
    <2> QED
      BY <1>0, <2>1, <2>2, Zenon DEF BatchOK
  <1>13. SleepersAreWatched'
    <2> SUFFICES ASSUME main \in {"up", "stop", "join"}, NEW d \in Coro, Asleep(d)
                 PROVE  LET j == fds[io[d].fd] IN
                        \/ d \in runq \/ thread'.ready = d
                        \/ /\ j # None /\ info[j][io[d].e] = d
                           /\ \/ io[d].e \in epoll'[io[d].fd].on /\ epoll'[io[d].fd].ptr = j
                              \/ \E ev \in thread'.batch : ev.ptr = j /\ io[d].e \in ev.on
      BY <1>0, Zenon DEF SleepersAreWatched, Asleep
    <2> DEFINE fd == io[d].fd
               j == fds[fd]
    <2>1. CASE d \in runq
      BY <2>1, Zenon
    <2>2. CASE d \notin runq
      <3>1. /\ j # None /\ info[j][io[d].e] = d /\ io[d].e \in epoll[fd].on /\ epoll[fd].ptr = j /\ fd \in Fd
        BY <1>0, <2>2, Accessors, Zenon DEF PollInv, SleepersAreWatched
      <3>2. CASE fd \notin evs
        BY <1>6, <3>1, <3>2, Zenon
      <3>3. CASE fd \in evs
        <4>1. PICK c \in Coro : io[c].fd = fd /\ Waits(c, j) /\ io[c].e \in Report(fd)
          BY <1>2, <3>3, ZenonT(40)
        <4>2. c = d
          BY <4>1 DEF PollInv, DescriptorsOK, Waits, Asleep, Away
        <4>3. [ptr |-> j, on |-> Report(fd)] \in thread'.batch
          BY <1>5, <3>3, Zenon
        <4> QED
          BY <3>1, <4>1, <4>2, <4>3, Zenon
      <3> QED
        BY <3>2, <3>3, Zenon
    <2> QED
      BY <2>1, <2>2, Zenon
  <1> QED
    BY <1>8, <1>9, <1>10, <1>11, <1>12, <1>13, Zenon DEF PollInv

\* What the handling of an event finds: the block names the one that waits, in
\* the direction it waits for, and no other.
LEMMA DispatchFacts ==
    ASSUME PollInv, NEW ev \in thread.batch, netpoller_dispatch(ev)
    PROVE  \E c \in Coro :
             /\ Waits(c, ev.ptr) /\ ev.ptr \in Info /\ epoll[io[c].fd].on = {}
             /\ \A w \in Ways : info[ev.ptr][w] # None => w = io[c].e
             /\ thread' = [thread EXCEPT !.batch = @ \ {ev}, !.ready = c]
             /\ info' = [info EXCEPT ![ev.ptr][io[c].e] = None]
  <1>0. ev.ptr # None /\ ev.ptr \in Info /\ None \notin Coro /\ info \in [Info -> BlockSet]
    BY Accessors, DescriptorsAssumption, Zenon DEF netpoller_dispatch, PollInv, PollTypeOK
  <1>1. PICK c \in Coro : Waits(c, ev.ptr) /\ io[c].e \in ev.on /\ epoll[io[c].fd].on = {}
    BY <1>0, Zenon DEF PollInv, BatchOK
  <1>2. info[ev.ptr].fd = io[c].fd /\ io[c].e \in Ways /\ info[ev.ptr][io[c].e] = c
    <2>1. info[ev.ptr][io[c].e] = c /\ io[c].e \in Ways
      BY <1>1, Accessors, Zenon DEF Waits
    <2>2. info[ev.ptr][io[c].e] # None
      BY <1>0, <2>1, Zenon
    <2>3. io[info[ev.ptr][io[c].e]].fd = info[ev.ptr].fd
      BY <1>0, <2>1, <2>2, Sleeper, Zenon
    <2> QED
      BY <2>1, <2>3, Zenon
  <1>3. ASSUME NEW w \in Ways, info[ev.ptr][w] # None PROVE w = io[c].e
    <2>1. PICK d \in Coro : d = info[ev.ptr][w]
      BY <1>0, <1>3, Accessors, Zenon
    <2>2. Asleep(d) /\ io[d].fd = io[c].fd /\ io[d].e = w
      <3>1. Waits(info[ev.ptr][w], ev.ptr) /\ io[info[ev.ptr][w]].fd = info[ev.ptr].fd /\ io[info[ev.ptr][w]].e = w
        BY <1>0, <1>3, Sleeper, Zenon
      <3> QED
        BY <1>2, <2>1, <3>1, Zenon DEF Waits
    <2>3. c = d
      BY <1>1, <2>2 DEF PollInv, DescriptorsOK, Waits, Asleep, Away
    <2> QED
      BY <2>2, <2>3, Zenon
  <1>4. /\ thread' = [thread EXCEPT !.batch = @ \ {ev}, !.ready = c]
        /\ info' = [info EXCEPT ![ev.ptr][io[c].e] = None]
    <2>1. info[ev.ptr].read = info[ev.ptr]["read"] /\ info[ev.ptr].write = info[ev.ptr]["write"]
      BY Zenon
    <2>2. CASE io[c].e = "read"
      BY <1>0, <1>1, <1>2, <2>1, <2>2, ZenonT(40) DEF netpoller_dispatch
    <2>3. CASE io[c].e = "write"
      <3>1. info[ev.ptr]["read"] = None
        BY <1>3, <2>3, Zenon DEF Ways
      <3> QED
        BY <1>0, <1>1, <1>2, <2>1, <2>3, <3>1, Zenon DEF netpoller_dispatch
    <2> QED
      BY <1>2, <2>2, <2>3, Zenon DEF Ways
  <1> QED
    BY <1>0, <1>1, <1>3, <1>4, Zenon

\* The netpoller handles an event of a descriptor.
LEMMA DispatchPollInv == ASSUME PollInv, NEW ev \in thread.batch, netpoller_dispatch(ev) PROVE PollInv'
  <1>0. /\ info \in [Info -> BlockSet] /\ thread \in ThreadSet /\ runq \subseteq Coro /\ fds \in [Fd -> Info \cup {None}]
        /\ None \notin Coro /\ None \notin Info /\ thread.at = "handle" /\ thread.ready = None
        /\ UNCHANGED <<io, cur, runq, holds, epoll, fds, running, wakeup, main>>
    BY DescriptorsAssumption, NetpollerAssumption, Zenon DEF PollInv, PollTypeOK,
       netpoller_dispatch
  <1>1. PICK c \in Coro :
             /\ Waits(c, ev.ptr) /\ ev.ptr \in Info /\ epoll[io[c].fd].on = {}
             /\ \A w \in Ways : info[ev.ptr][w] # None => w = io[c].e
             /\ thread' = [thread EXCEPT !.batch = @ \ {ev}, !.ready = c]
             /\ info' = [info EXCEPT ![ev.ptr][io[c].e] = None]
    BY DispatchFacts, Zenon
  <1>2. /\ thread'.at = "handle" /\ thread'.ready = c /\ thread'.batch = thread.batch \ {ev}
    BY <1>0, <1>1, Zenon DEF ThreadSet
  <1>3. /\ Asleep(c) /\ c \notin runq /\ fds[io[c].fd] = ev.ptr /\ info[ev.ptr][io[c].e] = c
        /\ io[c].fd \in Fd /\ io[c].e \in Ways
    BY <1>1, Accessors, Zenon DEF Waits
  <1>4. /\ \A w \in Ways : info'[ev.ptr][w] = None
        /\ info'[ev.ptr].fd = info[ev.ptr].fd
        /\ \A j \in Info : j # ev.ptr => info'[j] = info[j]
    BY <1>0, <1>1, <1>3 DEF BlockSet, Ways
  <1>5. ASSUME NEW d \in Coro, NEW j \in Info, Waits(d, j), d # c PROVE Waits(d, j)' /\ j # ev.ptr
    <2>1. info[j][io[d].e] = d /\ io[d].e \in Ways
      BY <1>5, Accessors, Zenon DEF Waits
    <2>2. j # ev.ptr
      BY <1>0, <1>1, <1>3, <1>5, <2>1, Zenon
    <2> QED
      BY <1>0, <1>2, <1>4, <1>5, <2>2, Zenon DEF Waits, Asleep
  <1>6. PollTypeOK'
    <2>1. info' \in [Info -> BlockSet]
      BY <1>0, <1>1, <1>3 DEF BlockSet, Ways
    <2>2. thread' \in ThreadSet
      BY <1>0, <1>1, Zenon DEF ThreadSet
    <2> QED
      BY <1>0, <2>1, <2>2, Zenon DEF PollInv, PollTypeOK
  <1>7. ControlOK'
    <2>1. main \notin {"new", "down"}
      BY <1>0 DEF PollInv, ControlOK, NoThread
    <2> QED
      BY <1>0, <1>2, <2>1, Zenon DEF PollInv, ControlOK, StopIsHeard
  <1>8. DescriptorsOK'
    BY <1>0, ZenonT(40) DEF PollInv, DescriptorsOK
  <1>9. BlocksOK'
    <2>1. ASSUME NEW x \in Fd
          PROVE  /\ epoll[x].ptr = fds[x]
                 /\ fds[x] # None => /\ info'[fds[x]].fd = x
                                     /\ \E d \in Coro : Asleep(d) /\ io[d].fd = x
                 /\ epoll[x].on # {} => \E d \in Coro : /\ io[d].fd = x /\ epoll[x].on = {io[d].e}
                                                        /\ Waits(d, fds[x])'
      <3>1. epoll[x].ptr = fds[x] /\ (fds[x] # None => info[fds[x]].fd = x /\ \E d \in Coro : Asleep(d) /\ io[d].fd = x)
        BY Zenon DEF PollInv, BlocksOK
      <3>2. fds[x] # None => info'[fds[x]].fd = info[fds[x]].fd
        BY <1>0, <1>4, Zenon
      <3>3. ASSUME epoll[x].on # {}
            PROVE  \E d \in Coro : io[d].fd = x /\ epoll[x].on = {io[d].e} /\ Waits(d, fds[x])'
        <4>1. PICK d \in Coro : io[d].fd = x /\ epoll[x].on = {io[d].e} /\ Waits(d, fds[x])
          BY <3>3, Zenon DEF PollInv, BlocksOK
        <4>2. d # c /\ fds[x] \in Info
          BY <1>0, <1>1, <3>3, <4>1, Zenon DEF Waits
        <4>3. Waits(d, fds[x])'
          BY <1>0, <1>5, <4>1, <4>2, Zenon
        <4> QED
          BY <4>1, <4>3, Zenon
      <3> QED
        BY <3>1, <3>2, <3>3, Zenon
    <2>2. ASSUME NEW j \in Info, NEW w \in Ways, info'[j][w] # None
          PROVE  Waits(info[j][w], j)' /\ io[info'[j][w]].fd = info'[j].fd /\ io[info'[j][w]].e = w
      <3>1. j # ev.ptr /\ info'[j] = info[j]
        BY <1>4, <2>2, Zenon
      <3>2. PICK d \in Coro : d = info[j][w]
        BY <2>2, <3>1, Accessors, ZenonT(40)
      <3>3. Waits(d, j) /\ io[d].fd = info[j].fd /\ io[d].e = w
        BY <1>0, <3>2 DEF PollInv, BlocksOK
      <3>4. d # c
        BY <1>3, <3>1, <3>3, Zenon DEF Waits
      <3>5. Waits(d, j)'
        BY <1>5, <3>3, <3>4, Zenon
      <3> QED
        BY <3>1, <3>2, <3>3, <3>5, Zenon
    <2>3. \A d \in runq : Asleep(d) /\ d # c
      BY <1>3, ZenonT(40) DEF PollInv, BlocksOK
    <2>4. \A j \in Info : info'[j] # NoInfo => info'[j].fd \in Fd /\ fds[info'[j].fd] = j
      <3>1. info[ev.ptr] # NoInfo
        BY <1>0, <1>3 DEF NoInfo, Ways
      <3> QED
        BY <1>4, <3>1, SMTT(40) DEF PollInv, BlocksOK
    <2> QED
      BY <1>0, <1>2, <1>3, <2>1, <2>2, <2>3, <2>4 DEF BlocksOK, Asleep
  <1>10. BatchOK'
    <2>1. ASSUME NEW x \in thread'.batch, x.ptr # None
          PROVE  \E d \in Coro : Waits(d, x.ptr)' /\ io[d].e \in x.on /\ epoll[io[d].fd].on = {}
      <3>1. x \in thread.batch /\ x # ev
        BY <1>2, <2>1, Zenon
      <3>2. x.ptr # ev.ptr /\ x.ptr \in Info
        BY <2>1, <3>1, Accessors, Zenon DEF PollInv, BatchOK
      <3>3. PICK d \in Coro : Waits(d, x.ptr) /\ io[d].e \in x.on /\ epoll[io[d].fd].on = {}
        BY <2>1, <3>1, Zenon DEF PollInv, BatchOK
      <3>4. d # c
        BY <1>3, <3>2, <3>3, Zenon DEF Waits
      <3>5. Waits(d, x.ptr)'
        BY <1>5, <3>2, <3>3, <3>4, Zenon
      <3> QED
        BY <3>3, <3>5, Zenon
    <2>2. \A a, b \in thread'.batch : a.ptr = b.ptr => a = b
      BY <1>2, Zenon DEF PollInv, BatchOK
    <2> QED
      BY <1>0, <2>1, <2>2, Zenon DEF BatchOK
  <1>11. SleepersAreWatched'
    <2> SUFFICES ASSUME main \in {"up", "stop", "join"}, NEW d \in Coro, Asleep(d)
                 PROVE  LET j == fds[io[d].fd] IN
                        \/ d \in runq \/ thread'.ready = d
                        \/ /\ j # None /\ info'[j][io[d].e] = d
                           /\ \/ io[d].e \in epoll[io[d].fd].on /\ epoll[io[d].fd].ptr = j
                              \/ \E x \in thread'.batch : x.ptr = j /\ io[d].e \in x.on
      BY <1>0, Zenon DEF SleepersAreWatched, Asleep
    <2>1. CASE d = c \/ d \in runq
      BY <1>2, <2>1, Zenon
    <2>2. CASE d # c /\ d \notin runq
      <3>1. PICK j \in Info : j = fds[io[d].fd]
        BY <1>0, <2>2, Accessors, SMTT(40) DEF PollInv, SleepersAreWatched
      <3>2. /\ info[j][io[d].e] = d
            /\ \/ io[d].e \in epoll[io[d].fd].on /\ epoll[io[d].fd].ptr = j
               \/ \E x \in thread.batch : x.ptr = j /\ io[d].e \in x.on
        BY <1>0, <2>2, <3>1, SMTT(40) DEF PollInv, SleepersAreWatched
      <3>3. j # ev.ptr
        BY <1>0, <1>1, <1>3, <2>2, <3>2, Accessors
      <3>4. info'[j] = info[j] /\ j # None
        BY <1>0, <1>4, <3>3, Zenon
      <3>5. \A x \in thread.batch : x.ptr = j => x \in thread'.batch
        BY <1>2, <3>3, Zenon
      <3> QED
        BY <3>1, <3>2, <3>4, <3>5, ZenonT(40)
    <2> QED
      BY <2>1, <2>2, Zenon
  <1> QED
    BY <1>6, <1>7, <1>8, <1>9, <1>10, <1>11, Zenon DEF PollInv

\* schedule_ready() after the dispatch: what the thread has in hand goes to the
\* run queue.
LEMMA ReadyPollInv == ASSUME PollInv, netpoller_ready PROVE PollInv'
  <1>0. /\ thread \in ThreadSet /\ runq \subseteq Coro /\ None \notin Coro /\ thread.at = "handle" /\ thread.ready \in Coro
        /\ runq' = runq \cup {thread.ready} /\ thread' = [thread EXCEPT !.ready = None]
        /\ UNCHANGED <<io, cur, holds, epoll, info, fds, running, wakeup, main>>
    BY Accessors, DescriptorsAssumption, Zenon DEF PollInv, PollTypeOK, netpoller_ready
  <1>1. thread'.at = "handle" /\ thread'.ready = None /\ thread'.batch = thread.batch /\ thread' \in ThreadSet
    BY <1>0, Zenon DEF ThreadSet
  <1>2. \A d \in Coro : \A i : Waits(d, i) => Waits(d, i)'
    BY <1>0, <1>1 DEF Waits, Asleep
  <1>3. PollTypeOK'
    BY <1>0, <1>1, Zenon DEF PollInv, PollTypeOK
  <1>4. ControlOK'
    <2>1. main \notin {"new", "down"}
      BY <1>0 DEF PollInv, ControlOK, NoThread
    <2> QED
      BY <1>0, <1>1, <2>1, Zenon DEF PollInv, ControlOK, StopIsHeard
  <1>5. DescriptorsOK'
    BY <1>0, Zenon DEF PollInv, DescriptorsOK
  <1>6. BlocksOK'
    <2>1. ASSUME NEW x \in Fd, epoll[x].on # {}
          PROVE  \E d \in Coro : io[d].fd = x /\ epoll[x].on = {io[d].e} /\ Waits(d, fds[x])'
      <3>1. PICK d \in Coro : io[d].fd = x /\ epoll[x].on = {io[d].e} /\ Waits(d, fds[x])
        BY <2>1, Zenon DEF PollInv, BlocksOK
      <3>2. Waits(d, fds[x])'
        BY <1>0, <1>2, <3>1, Zenon
      <3> QED
        BY <3>1, <3>2, Zenon
    <2>2. ASSUME NEW j \in Info, NEW w \in Ways, info[j][w] # None
          PROVE  Waits(info[j][w], j)' /\ io[info[j][w]].fd = info[j].fd /\ io[info[j][w]].e = w
      <3>1. PICK d \in Coro : d = info[j][w]
        BY <2>2, Accessors, ZenonT(40)
      <3>2. Waits(d, j) /\ io[d].fd = info[j].fd /\ io[d].e = w
        BY <2>2, <3>1 DEF PollInv, BlocksOK
      <3>3. Waits(d, j)' /\ info' = info
        BY <1>0, <1>2, <3>2, Zenon
      <3> QED
        BY <3>1, <3>2, <3>3, Zenon
    <2>3. \A d \in runq' : Asleep(d) /\ d # None
      BY <1>0 DEF PollInv, BlocksOK
    <2>4. \A x \in Fd : /\ epoll[x].ptr = fds[x]
                        /\ fds[x] # None => info[fds[x]].fd = x /\ \E d \in Coro : Asleep(d) /\ io[d].fd = x
      BY Zenon DEF PollInv, BlocksOK
    <2>5. \A j \in Info : info[j] # NoInfo => info[j].fd \in Fd /\ fds[info[j].fd] = j
      BY Zenon DEF PollInv, BlocksOK
    <2> QED
      BY <1>0, <1>1, <2>1, <2>2, <2>3, <2>4, <2>5 DEF BlocksOK, Asleep
  <1>7. BatchOK'
    <2>1. ASSUME NEW x \in thread.batch, x.ptr # None
          PROVE  \E d \in Coro : Waits(d, x.ptr)' /\ io[d].e \in x.on /\ epoll[io[d].fd].on = {}
      BY <1>2, <2>1, Zenon DEF PollInv, BatchOK
    <2> QED
      BY <1>0, <1>1, <2>1, Zenon DEF PollInv, BatchOK
  <1>8. SleepersAreWatched'
    BY <1>0, <1>1, Zenon DEF PollInv, SleepersAreWatched, Asleep
  <1> QED
    BY <1>3, <1>4, <1>5, <1>6, <1>7, <1>8, Zenon DEF PollInv

\* The wake-up event is for nobody.
LEMMA WakeupPollInv == ASSUME PollInv, NEW ev \in thread.batch, netpoller_wakeup_event(ev) PROVE PollInv'
  <1>0. /\ thread \in ThreadSet /\ thread.at = "handle" /\ thread.ready = None /\ ev.ptr = None
        /\ wakeup' = FALSE /\ thread' = [thread EXCEPT !.batch = @ \ {ev}]
        /\ UNCHANGED <<io, cur, runq, holds, epoll, info, fds, running, main>>
    BY Zenon DEF PollInv, PollTypeOK, netpoller_wakeup_event
  <1>1. thread'.at = "handle" /\ thread'.ready = None /\ thread'.batch = thread.batch \ {ev} /\ thread' \in ThreadSet
    BY <1>0, Zenon DEF ThreadSet
  <1>2. \A d, i : Waits(d, i)' <=> Waits(d, i)
    BY <1>0, <1>1, Zenon DEF Waits, Asleep
  <1>3. PollTypeOK'
    BY <1>0, <1>1, Zenon DEF PollInv, PollTypeOK
  <1>4. ControlOK'
    <2>1. main \notin {"new", "down"}
      BY <1>0 DEF PollInv, ControlOK, NoThread
    <2> QED
      BY <1>0, <1>1, <2>1, Zenon DEF PollInv, ControlOK, StopIsHeard
  <1>5. DescriptorsOK'
    BY <1>0, ZenonT(40) DEF PollInv, DescriptorsOK
  <1>6. BlocksOK'
    BY <1>0, <1>1 DEF PollInv, BlocksOK, Waits, Asleep
  <1>7. BatchOK'
    <2>1. ASSUME NEW x \in thread'.batch, x.ptr # None
          PROVE  \E d \in Coro : Waits(d, x.ptr)' /\ io[d].e \in x.on /\ epoll[io[d].fd].on = {}
      BY <1>1, <1>2, <2>1, Zenon DEF PollInv, BatchOK
    <2> QED
      BY <1>0, <1>1, <2>1, ZenonT(40) DEF PollInv, BatchOK
  <1>8. SleepersAreWatched'
    <2>1. ASSUME NEW d \in Coro, NEW x \in thread.batch, x.ptr # None PROVE x \in thread'.batch
      BY <1>0, <1>1, <2>1, Zenon
    <2> QED
      BY <1>0, <1>1, <2>1 DEF PollInv, SleepersAreWatched, Asleep
  <1> QED
    BY <1>3, <1>4, <1>5, <1>6, <1>7, <1>8, Zenon DEF PollInv

\* A hang-up as epoll reports it for a socket: readable and writable too.
HangUpsWake == \A h \in HangUps : Ways \subseteq h

\* The steps of the kernel, of the thread's loop and of the controlling thread.
LEMMA ControlPollInv ==
    ASSUME PollInv, HangUpsWake,
           \/ \E fd \in Fd : NewEvent(fd)
           \/ netpoller_top \/ netpoller_next \/ coco_netpoller_start \/ coco_netpoller_stop
           \/ UNCHANGED pollVars
    PROVE  PollInv'
  <1>0. /\ thread \in ThreadSet /\ holds \in [Fd -> SUBSET {"read", "write", "HUP"}] /\ running \in BOOLEAN
        /\ None \notin Coro /\ \A x \in Fd : "HUP" \in holds[x] => Ways \subseteq holds[x]
    BY DescriptorsAssumption, Zenon DEF PollInv, PollTypeOK, DescriptorsOK
  <1>1. UNCHANGED <<io, cur, runq, epoll, info, fds>>
    BY Zenon DEF NewEvent, netpoller_top, netpoller_next, coco_netpoller_start,
       coco_netpoller_stop,
       pollVars
  <1>2. /\ thread' \in ThreadSet /\ thread'.batch = thread.batch /\ thread'.ready = thread.ready
    BY <1>0 DEF NewEvent, netpoller_top, netpoller_next, coco_netpoller_start,
       coco_netpoller_stop, pollVars, ThreadSet
  <1>3. main' \in {"up", "stop", "join"} => main \in {"up", "stop", "join"} \/ \A d \in Coro : io[d] = Away
    BY Zenon DEF PollInv, ControlOK, NewEvent, netpoller_top, netpoller_next, coco_netpoller_start,
       coco_netpoller_stop, pollVars
  <1>4. BlocksOK' /\ BatchOK' /\ SleepersAreWatched'
    BY <1>1, <1>2, <1>3, SameSleepers, Zenon DEF Asleep
  <1>5. holds' \in [Fd -> SUBSET {"read", "write", "HUP"}] /\ \A x \in Fd : "HUP" \in holds'[x] => Ways \subseteq holds'[x]
    <2>1. CASE holds' = holds
      BY <1>0, <2>1, Zenon
    <2>2. ASSUME NEW fd \in Fd, NewEvent(fd)
          PROVE  holds' \in [Fd -> SUBSET {"read", "write", "HUP"}] /\ \A x \in Fd : "HUP" \in holds'[x] => Ways \subseteq holds'[x]
      <3>1. PICK evs \in {{"read"}, {"write"}} \cup HangUps : holds' = [holds EXCEPT ![fd] = @ \cup evs]
        BY <2>2, Zenon DEF NewEvent
      <3>2. evs \in SUBSET {"read", "write", "HUP"} /\ ("HUP" \in evs => Ways \subseteq evs)
        BY NetpollerAssumption, Zenon DEF HangUpsWake
      <3> QED
        BY <1>0, <3>1, <3>2, Zenon
    <2>3. (\E fd \in Fd : NewEvent(fd)) \/ holds' = holds
      BY Zenon DEF netpoller_top, netpoller_next, coco_netpoller_start, coco_netpoller_stop,
         pollVars
    <2> QED
      BY <2>1, <2>2, <2>3, Zenon
  <1>6. PollTypeOK'
    <2>1. main' \in {"new", "up", "stop", "join", "down"} /\ running' \in BOOLEAN /\ wakeup' \in BOOLEAN
      BY ZenonT(40) DEF PollInv, PollTypeOK, NewEvent, netpoller_top, netpoller_next,
         coco_netpoller_start,
         coco_netpoller_stop, pollVars
    <2> QED
      BY <1>1, <1>2, <1>5, <2>1, Zenon DEF PollInv, PollTypeOK
  <1>7. ControlOK'
    <2>1. CASE \E fd \in Fd : NewEvent(fd)
      BY <2>1 DEF PollInv, ControlOK, StopIsHeard, NewEvent
    <2>2. CASE netpoller_top
      BY <1>0, <1>2, <2>2 DEF PollInv, ControlOK, StopIsHeard, netpoller_top, NoThread, ThreadSet
    <2>3. CASE netpoller_next
      BY <1>0, <1>2, <2>3 DEF PollInv, ControlOK, StopIsHeard, netpoller_next, NoThread, ThreadSet
    <2>4. CASE coco_netpoller_start
      BY <1>0, <1>2, <2>4, SMTT(40) DEF PollInv, ControlOK, StopIsHeard, coco_netpoller_start,
         NoThread,
         ThreadSet
    <2>5. CASE coco_netpoller_stop
      BY <2>5 DEF PollInv, ControlOK, StopIsHeard, coco_netpoller_stop
    <2>6. CASE UNCHANGED pollVars
      BY <2>6, Zenon DEF PollInv, ControlOK, StopIsHeard, pollVars
    <2> QED
      BY <2>1, <2>2, <2>3, <2>4, <2>5, <2>6, Zenon
  <1>8. DescriptorsOK'
    BY <1>1, <1>5, Zenon DEF PollInv, DescriptorsOK
  <1> QED
    BY <1>4, <1>6, <1>7, <1>8, Zenon DEF PollInv

\* The destruction leaves no pointer.
LEMMA DestroyPollInv == ASSUME PollInv, coco_netpoller_destroy PROVE PollInv'
  <1>0. /\ main = "join" /\ main' = "down" /\ epoll' = [fd \in Fd |-> Absent] /\ thread' = NoThread /\ wakeup' = FALSE
        /\ fds' = [fd \in Fd |-> None] /\ info' = [i \in Info |-> NoInfo]
        /\ UNCHANGED <<io, cur, runq, holds, running>> /\ None \notin Coro
    BY DescriptorsAssumption, Zenon DEF coco_netpoller_destroy, fd_info_table_destroy
  <1>1. PollTypeOK'
    <2>1. NoInfo \in BlockSet /\ Absent \in EntrySet /\ NoThread \in ThreadSet
      BY Zenon DEF NoInfo, BlockSet, Absent, EntrySet, NoThread, ThreadSet
    <2> QED
      BY <1>0, <2>1, Zenon DEF PollInv, PollTypeOK
  <1>2. ControlOK'
    BY <1>0, Zenon DEF PollInv, ControlOK, StopIsHeard, NoThread
  <1>3. DescriptorsOK'
    BY <1>0, Zenon DEF PollInv, DescriptorsOK
  <1>4. BlocksOK'
    <2>1. \A d \in runq : Asleep(d)' /\ d # None
      BY <1>0 DEF PollInv, PollTypeOK, BlocksOK, Asleep
    <2>2. \A i \in Info, w \in Ways : info'[i] = NoInfo /\ info'[i][w] = None
      BY <1>0 DEF NoInfo, Ways
    <2> QED
      BY <1>0, <2>1, <2>2, ZenonT(40) DEF BlocksOK, Absent, NoThread
  <1>5. BatchOK'
    BY <1>0, Zenon DEF BatchOK, NoThread
  <1>6. SleepersAreWatched'
    BY <1>0, Zenon DEF SleepersAreWatched
  <1> QED
    BY <1>1, <1>2, <1>3, <1>4, <1>5, <1>6, Zenon DEF PollInv

\* Every step keeps the invariant.
LEMMA NextPollInv == ASSUME Shared = {}, HangUpsWake, PollInv, [PollNext]_pollVars PROVE PollInv'
  <1>1. ASSUME NEW c \in Coro, NEW fd \in Fd, NEW e \in {"read", "write"}, StartIo(c, fd, e) PROVE PollInv'
    BY <1>1, StartPollInv, Zenon DEF Ways
  <1>2. ASSUME NEW c \in Coro, coco_netpoller_register(c) \/ YieldIo(c) \/ ResumeIo(c) PROVE PollInv'
    BY <1>2, RegisterPollInv, YieldPollInv, ResumePollInv, Zenon
  <1>3. ASSUME NEW ev \in thread.batch, netpoller_wakeup_event(ev) \/ netpoller_dispatch(ev) PROVE PollInv'
    BY <1>3, WakeupPollInv, DispatchPollInv, Zenon
  <1> QED
    BY <1>1, <1>2, <1>3, WaitPollInv, ReadyPollInv, ControlPollInv, DestroyPollInv, Zenon
       DEF PollNext

\* The invariant gives the property.
LEMMA PollInvKeeps == PollInv => PollerKeepsAll
  <1> SUFFICES ASSUME PollInv PROVE PollerKeepsAll
    BY Zenon
  <1>1. \A ev \in thread.batch : ev.ptr # None => info[ev.ptr] # NoInfo
    <2> SUFFICES ASSUME NEW ev \in thread.batch, ev.ptr # None PROVE info[ev.ptr] # NoInfo
      BY Zenon
    <2>1. PICK c \in Coro : Waits(c, ev.ptr)
      BY Zenon DEF PollInv, BatchOK
    <2>2. info[ev.ptr][io[c].e] = c /\ io[c].e \in Ways /\ c # None
      BY <2>1, Accessors, DescriptorsAssumption, ZenonT(40) DEF Waits
    <2> QED
      BY <2>2 DEF NoInfo, Ways
  <1>2. BlocksAreLive
    BY <1>1 DEF PollInv, BlocksOK, BlocksAreLive, Waits, Ways
  <1> QED
    BY <1>2, Zenon DEF PollInv, ControlOK, PollerKeepsAll

\* The netpoller (netpoller_mt.c) loses nobody and never follows a pointer to a
\* freed block, whatever the number of coroutines, descriptors and blocks: when a
\* descriptor has one user at a time and a hang-up is reported as it is for a
\* socket, together with readiness.
THEOREM PollerCorrect == Shared = {} /\ HangUpsWake => (PollSpec => []PollerKeepsAll)
  <1> SUFFICES ASSUME Shared = {}, HangUpsWake PROVE PollSpec => []PollerKeepsAll
    BY Zenon
  <1>1. PollInv /\ [PollNext]_pollVars => PollInv'
    BY NextPollInv, Zenon
  <1> QED
    BY InitPollInv, <1>1, PollInvKeeps, PTL DEF PollSpec

-----------------------------------------------------------------------------
(* The capacity of the table of the event loop.                            *)

INSTANCE WellFoundedInduction

\* A set of numbers that is not empty has a least element.
LEMMA LeastExists ==
    ASSUME NEW T, T \subseteq Nat, T # {}
    PROVE  \E m \in T : \A k \in T : m <= k
  <1>1. PICK m \in T : \A k \in T : <<k, m>> \notin OpToRel(<, Nat)
    BY WFMin, NatLessThanWellFounded, Zenon
  <1>2. \A k \in T : ~(k < m)
    BY <1>1, Zenon DEF OpToRel
  <1> QED
    BY <1>2

\* One round of the loop of fd_table_ensure_capacity().
Doubled(n, fd) == IF n <= fd THEN 2 * n ELSE n

\* The rounds, as a function of their number, up to any number.
LEMMA RoundsExist ==
    ASSUME NEW cap \in Nat, NEW fd \in Nat, NEW n \in Nat
    PROVE  \E g \in [0..n -> Nat] : g[0] = cap /\ \A i \in 1..n : g[i] = Doubled(g[i - 1], fd)
  <1> DEFINE Has(k) == \E g \in [0..k -> Nat] :
                          g[0] = cap /\ \A i \in 1..k : g[i] = Doubled(g[i - 1], fd)
             Bad == {k \in Nat : ~Has(k)}
  <1> SUFFICES ASSUME Bad # {} PROVE FALSE
    BY Zenon
  <1>1. PICK m \in Bad : \A k \in Bad : m <= k
    BY LeastExists, Zenon
  <1>2. CASE m = 0
    <2> DEFINE g == [i \in 0..0 |-> cap]
    <2>1. g \in [0..0 -> Nat] /\ g[0] = cap /\ \A i \in 1..0 : g[i] = Doubled(g[i - 1], fd)
      OBVIOUS
    <2>2. Has(0)
      BY <2>1, Zenon
    <2> QED
      BY <1>2, <2>2, Zenon
  <1>3. CASE m # 0
    <2>1. m - 1 \in Nat /\ m - 1 \notin Bad
      <3> HIDE DEF Has
      <3>1. m \in Nat /\ m - 1 \in Nat /\ ~(m <= m - 1)
        BY <1>3
      <3> QED
        BY <1>1, <3>1, Zenon
    <2>2. PICK g \in [0..(m - 1) -> Nat] :
             g[0] = cap /\ \A i \in 1..(m - 1) : g[i] = Doubled(g[i - 1], fd)
      BY <2>1, Zenon
    <2> DEFINE h == [i \in 0..m |-> IF i = m THEN Doubled(g[m - 1], fd) ELSE g[i]]
    <2>3. \A k \in Nat : Doubled(k, fd) \in Nat
      BY DEF Doubled
    <2>4. m - 1 \in 0..(m - 1) /\ \A i \in 0..m : i # m => i \in 0..(m - 1)
      BY <1>3
    <2>5. h \in [0..m -> Nat] /\ h[0] = cap
      <3>1. 0 \in 0..m
        BY <1>3
      <3>2. g[m - 1] \in Nat /\ \A i \in 0..m : i # m => g[i] \in Nat
        BY <2>2, <2>4, Zenon
      <3> QED
        BY <1>3, <2>2, <2>3, <3>1, <3>2, Zenon
    <2>6. ASSUME NEW i \in 1..m PROVE h[i] = Doubled(h[i - 1], fd)
      <3>1. i \in 0..m /\ i - 1 \in 0..m /\ i - 1 # m
        OBVIOUS
      <3>2. CASE i = m
        BY <3>1, <3>2, Zenon
      <3>3. CASE i # m
        <4>1. i \in 1..(m - 1)
          BY <3>3
        <4> QED
          BY <2>2, <3>1, <3>3, <4>1, Zenon
      <3> QED
        BY <3>2, <3>3, Zenon
    <2>7. Has(m)
      BY <2>5, <2>6, Zenon
    <2> QED
      BY <2>7, Zenon
  <1> QED
    BY <1>2, <1>3, Zenon

\* fd_table_ensure_capacity() makes room for the descriptor, and takes none away.
LEMMA CapacityFacts ==
    ASSUME NEW cap \in Nat \ {0}, NEW fd \in Fd
    PROVE  /\ fd_table_ensure_capacity(cap, fd) \in Nat
           /\ fd_table_ensure_capacity(cap, fd) >= cap
           /\ fd_table_ensure_capacity(cap, fd) > fd
  <1> DEFINE G(g) == [n \in 0..NFd |-> IF n = 0 THEN cap
                         ELSE IF g[n - 1] <= fd THEN 2 * g[n - 1] ELSE g[n - 1]]
             grow == CHOOSE g : g = G(g)
  <1>0. NFd \in Nat \ {0} /\ fd \in Nat /\ fd < NFd
    BY DescriptorsAssumption DEF Fd
  <1>1. \E g : g = G(g)
    <2>1. PICK g \in [0..NFd -> Nat] : g[0] = cap /\ \A i \in 1..NFd : g[i] = Doubled(g[i - 1], fd)
      BY <1>0, RoundsExist, ZenonT(40)
    <2>2. \A i \in 0..NFd : i # 0 => i \in 1..NFd
      BY <1>0
    <2>3. g = G(g)
      BY <2>1, <2>2, Zenon DEF Doubled
    <2> QED
      BY <2>3, Zenon
  <1>2. grow = G(grow)
    BY <1>1, Zenon
  <1>3. fd_table_ensure_capacity(cap, fd) = grow[NFd]
    BY Zenon DEF fd_table_ensure_capacity
  <1> HIDE DEF grow
  <1>4. /\ grow[0] = cap
        /\ \A i \in 1..NFd : grow[i] = Doubled(grow[i - 1], fd)
    <2>1. \A i \in 0..NFd : grow[i] = G(grow)[i]
      BY <1>2, Zenon
    <2> QED
      BY <1>0, <2>1 DEF Doubled
  <1> DEFINE OK(n) == grow[n] \in Nat /\ grow[n] >= cap /\ (grow[n] > fd \/ grow[n] > n)
             Bad == {n \in 0..NFd : ~OK(n)}
  <1>5. Bad = {}
    <2> SUFFICES ASSUME Bad # {} PROVE FALSE
      BY Zenon
    <2>0. Bad \subseteq Nat
      BY <1>0
    <2>1. PICK m \in Bad : \A k \in Bad : m <= k
      BY <2>0, LeastExists, Zenon
    <2>2. m # 0
      BY <1>4, <2>1
    <2>3. m \in 1..NFd /\ m - 1 \in 0..NFd /\ m - 1 \notin Bad
      <3> HIDE DEF OK
      <3>1. m \in 1..NFd /\ m - 1 \in 0..NFd /\ ~(m <= m - 1)
        BY <1>0, <2>2
      <3> QED
        BY <2>1, <3>1, Zenon
    <2>4. OK(m - 1)
      BY <2>3, Zenon
    <2>5. grow[m] = Doubled(grow[m - 1], fd)
      BY <1>4, <2>3, Zenon
    <2>6. OK(m)
      BY <1>0, <2>3, <2>4, <2>5, SMTT(40) DEF Doubled
    <2> QED
      BY <2>6, Zenon
  <1>6. OK(NFd)
    BY <1>0, <1>5, SMTT(40)
  <1> QED
    BY <1>0, <1>3, <1>6, SMTT(40)

-----------------------------------------------------------------------------
(* The event loop.                                                         *)

Calls == [kind : {"read", "write", "connect"}, fd : Fd, left : 1..MaxLeft]

\* A descriptor has at most one caller, who has room for it in the table.
CallsOK ==
    /\ \A c \in Coro : state[c] = "RUNNING" <=> call[c] = NoCall
    /\ \A c \in Coro : call[c] # NoCall => call[c].fd < capacity
    /\ \A c, d \in Coro : call[c] # NoCall /\ call[d] # NoCall /\ call[c].fd = call[d].fd => c = d

\* One that waits is in the table and armed, and the table and the epoll set
\* have no other.
ArmedOK ==
    /\ \A c \in Coro : state[c] = "WAITING" =>
          /\ wait_fd[c] = call[c].fd /\ table[call[c].fd] = c
          /\ interest[call[c].fd] = Event(call[c].kind)
    /\ \A fd \in Fd : table[fd] # None => state[table[fd]] = "WAITING" /\ call[table[fd]].fd = fd
    /\ \A fd \in Fd : interest[fd] # "ABSENT" => \E c \in Coro : call[c] # NoCall /\ call[c].fd = fd

\* The inductive invariant.
LoopInv ==
    /\ LoopTypeOK /\ capacity # 0 /\ \A fd \in marked : fd < capacity
    /\ CallsOK /\ ArmedOK

\* At first nothing is called or waited for.
LEMMA InitLoopInv == LoopInit => LoopInv
  BY EventLoopAssumption, DescriptorsAssumption
  DEF LoopInit, LoopInv, LoopTypeOK, CallsOK, ArmedOK, Fd

\* A coroutine whose descriptor nobody else uses, and that is out of the epoll
\* set and the table, returns or waits for it ...
Settles(c, fd, ints, tab) ==
    /\ call[c] # NoCall => call[c].fd = fd
    /\ \A d \in Coro : d # c /\ call[d] # NoCall => call[d].fd # fd
    /\ ints = [interest EXCEPT ![fd] = "ABSENT"] /\ tab = [table EXCEPT ![fd] = None]
    /\ capacity' \in Nat /\ capacity' >= capacity /\ fd < capacity'
    /\ marked' \subseteq Fd /\ \A x \in marked' : x < capacity'
    /\ nonblock' \subseteq Fd /\ ready' \in [Fd -> SUBSET {"IN", "OUT"}] /\ cancelled' \subseteq Coro
    /\ \/ Return(c) /\ interest' = ints /\ table' = tab
       \/ \E k \in Calls : k.fd = fd /\ WaitFor(c, k, ints, tab)

\* ... both as they should be.
LEMMA Settle ==
    ASSUME LoopInv, NEW c \in Coro, NEW fd \in Fd, NEW ints, NEW tab, Settles(c, fd, ints, tab)
    PROVE  LoopInv'
  <1>s. /\ call[c] # NoCall => call[c].fd = fd
        /\ \A d \in Coro : d # c /\ call[d] # NoCall => call[d].fd # fd
        /\ ints = [interest EXCEPT ![fd] = "ABSENT"] /\ tab = [table EXCEPT ![fd] = None]
        /\ capacity' \in Nat /\ capacity' >= capacity /\ fd < capacity'
        /\ marked' \subseteq Fd /\ \A x \in marked' : x < capacity'
        /\ nonblock' \subseteq Fd /\ ready' \in [Fd -> SUBSET {"IN", "OUT"}] /\ cancelled' \subseteq Coro
        /\ \/ Return(c) /\ interest' = ints /\ table' = tab
           \/ \E k \in Calls : k.fd = fd /\ WaitFor(c, k, ints, tab)
    BY Zenon DEF Settles
  <1> USE <1>s
  <1>0. /\ call \in [Coro -> Calls \cup {NoCall}] /\ state \in [Coro -> {"RUNNING", "READY", "WAITING"}]
        /\ wait_fd \in [Coro -> Fd \cup {-1}] /\ table \in [Fd -> Coro \cup {None}]
        /\ interest \in [Fd -> {"IN", "OUT", "OFF", "ABSENT"}]
        /\ capacity \in Nat /\ capacity # 0 /\ CallsOK /\ ArmedOK
    BY Zenon DEF LoopInv, LoopTypeOK, Calls
  <1>1. /\ ints \in [Fd -> {"IN", "OUT", "OFF", "ABSENT"}] /\ ints[fd] = "ABSENT"
        /\ \A x \in Fd : x # fd => ints[x] = interest[x]
        /\ tab \in [Fd -> Coro \cup {None}] /\ tab[fd] = None
        /\ \A x \in Fd : x # fd => tab[x] = table[x]
    BY <1>0, ZenonT(40)
  <1>2. NoCall \notin Calls /\ None \notin Coro /\ Fd \subseteq Nat
    BY DescriptorsAssumption, SMTT(40) DEF NoCall, Calls, Fd
  <1>3. ASSUME NEW x \in Fd, tab[x] # None PROVE tab[x] \in Coro /\ tab[x] # c /\ x # fd
    BY <1>0, <1>1, <1>2, <1>3, SMTT(40) DEF ArmedOK, CallsOK
  <1>4. CASE Return(c) /\ interest' = ints /\ table' = tab
    <2>1. /\ call' = [call EXCEPT ![c] = NoCall] /\ state' = [state EXCEPT ![c] = "RUNNING"]
          /\ wait_fd' = wait_fd
      BY <1>4, Zenon DEF Return
    <2>2. LoopTypeOK'
      BY <1>0, <1>1, <1>4, <2>1, Zenon DEF LoopTypeOK, Calls
    <2>3. /\ call'[c] = NoCall /\ state'[c] = "RUNNING"
          /\ \A d \in Coro : d # c => call'[d] = call[d] /\ state'[d] = state[d]
      BY <1>0, <2>1, Zenon
    <2>4. CallsOK'
      <3>1. \A d \in Coro : state'[d] = "RUNNING" <=> call'[d] = NoCall
        BY <1>0, <1>2, <2>3, Zenon DEF CallsOK
      <3>2. ASSUME NEW d \in Coro, call'[d] # NoCall PROVE call'[d].fd < capacity'
        <4>1. CASE d = c
          BY <1>0, <1>2, <2>3, <3>2, <4>1, ZenonT(40)
        <4>2. CASE d # c
          <5>1. call'[d] = call[d] /\ call[d].fd \in Nat /\ call[d].fd < capacity
            BY <1>0, <1>2, <2>3, <3>2, <4>2, ZenonT(40) DEF CallsOK, Calls
          <5> QED
            BY <1>0, <5>1
        <4> QED
          BY <4>1, <4>2, Zenon
      <3>3. \A a, b \in Coro : call'[a] # NoCall /\ call'[b] # NoCall /\ call'[a].fd = call'[b].fd => a = b
        BY <1>0, <1>2, <2>3 DEF CallsOK
      <3> QED
        BY <3>1, <3>2, <3>3, Zenon DEF CallsOK
    <2>5. ASSUME NEW d \in Coro, state'[d] = "WAITING"
          PROVE  /\ wait_fd'[d] = call'[d].fd /\ table'[call'[d].fd] = d
                 /\ interest'[call'[d].fd] = Event(call'[d].kind)
      <3>1. d # c /\ call'[d] = call[d] /\ state[d] = "WAITING" /\ call[d] # NoCall
        BY <1>0, <2>3, <2>5, Zenon DEF CallsOK
      <3>2. call[d].fd \in Fd /\ call[d].fd # fd
        BY <1>0, <1>2, <3>1, ZenonT(40) DEF Calls
      <3> QED
        BY <1>0, <1>1, <1>4, <2>1, <3>1, <3>2, SMTT(40) DEF ArmedOK
    <2>6. \A x \in Fd : table'[x] # None => state'[table'[x]] = "WAITING" /\ call'[table'[x]].fd = x
      BY <1>0, <1>1, <1>3, <1>4, <2>3, SMTT(40) DEF ArmedOK
    <2>7. \A x \in Fd : interest'[x] # "ABSENT" => \E d \in Coro : call'[d] # NoCall /\ call'[d].fd = x
      BY <1>0, <1>1, <1>4, <2>3, SMTT(40) DEF ArmedOK
    <2> QED
      BY <1>0, <2>2, <2>4, <2>5, <2>6, <2>7, SMTT(40) DEF LoopInv, ArmedOK
  <1>5. ASSUME NEW k \in Calls, k.fd = fd, WaitFor(c, k, ints, tab) PROVE LoopInv'
    <2>1. /\ call' = [call EXCEPT ![c] = k] /\ state' = [state EXCEPT ![c] = "WAITING"]
          /\ wait_fd' = [wait_fd EXCEPT ![c] = fd]
          /\ interest' = [ints EXCEPT ![fd] = Event(k.kind)]
          /\ table' = [tab EXCEPT ![fd] = c]
      BY <1>1, <1>5, Zenon DEF WaitFor, fd_table_set
    <2>2. LoopTypeOK'
      BY <1>0, <1>1, <2>1, ZenonT(40) DEF LoopTypeOK, Calls, Event
    <2>3. /\ call'[c] = k /\ state'[c] = "WAITING" /\ wait_fd'[c] = fd
          /\ \A d \in Coro : d # c => call'[d] = call[d] /\ state'[d] = state[d] /\ wait_fd'[d] = wait_fd[d]
          /\ interest'[fd] = Event(k.kind) /\ table'[fd] = c
          /\ \A x \in Fd : x # fd => interest'[x] = interest[x] /\ table'[x] = table[x]
      BY <1>0, <1>1, <2>1, SMTT(40)
    <2>4. CallsOK'
      <3>1. \A d \in Coro : state'[d] = "RUNNING" <=> call'[d] = NoCall
        BY <1>0, <1>2, <1>5, <2>3, SMTT(40) DEF CallsOK
      <3>2. ASSUME NEW d \in Coro, call'[d] # NoCall PROVE call'[d].fd < capacity'
        <4>1. CASE d = c
          BY <1>0, <1>2, <1>5, <2>3, <3>2, <4>1, ZenonT(40)
        <4>2. CASE d # c
          <5>1. call'[d] = call[d] /\ call[d] # NoCall
            BY <2>3, <3>2, <4>2, ZenonT(40)
          <5>2. call[d] \in Calls /\ call[d].fd < capacity
            BY <1>0, <5>1, SMTT(40) DEF CallsOK
          <5>3. call[d].fd \in Nat
            BY <1>2, <5>2, ZenonT(40) DEF Calls
          <5> QED
            BY <1>0, <5>1, <5>2, <5>3, SMTT(40)
        <4> QED
          BY <4>1, <4>2, Zenon
      <3>3. \A a, b \in Coro : call'[a] # NoCall /\ call'[b] # NoCall /\ call'[a].fd = call'[b].fd => a = b
        BY <1>0, <1>2, <1>5, <2>3, SMTT(40) DEF CallsOK
      <3> QED
        BY <3>1, <3>2, <3>3, ZenonT(40) DEF CallsOK
    <2>5. ASSUME NEW d \in Coro, state'[d] = "WAITING"
          PROVE  /\ wait_fd'[d] = call'[d].fd /\ table'[call'[d].fd] = d
                 /\ interest'[call'[d].fd] = Event(call'[d].kind)
      <3>1. CASE d = c
        BY <1>5, <2>3, <3>1, ZenonT(40)
      <3>2. CASE d # c
        <4>1. call'[d] = call[d] /\ state[d] = "WAITING" /\ call[d] # NoCall
          BY <1>0, <2>3, <2>5, <3>2, Zenon DEF CallsOK
        <4>2. call[d].fd \in Fd /\ call[d].fd # fd
          BY <1>0, <1>2, <3>2, <4>1, Zenon DEF Calls
        <4> QED
          BY <1>0, <2>3, <3>2, <4>1, <4>2, SMTT(40) DEF ArmedOK
      <3> QED
        BY <3>1, <3>2, Zenon
    <2>6. ASSUME NEW x \in Fd, table'[x] # None
          PROVE  state'[table'[x]] = "WAITING" /\ call'[table'[x]].fd = x
      <3>1. CASE x = fd
        BY <1>5, <2>3, <3>1, ZenonT(40)
      <3>2. CASE x # fd
        <4>1. table'[x] = tab[x] /\ tab[x] = table[x]
          BY <1>1, <2>3, <3>2, SMTT(40)
        <4> QED
          BY <1>0, <1>3, <2>3, <2>6, <4>1, SMTT(40) DEF ArmedOK
      <3> QED
        BY <3>1, <3>2, Zenon
    <2>7. ASSUME NEW x \in Fd, interest'[x] # "ABSENT"
          PROVE  \E d \in Coro : call'[d] # NoCall /\ call'[d].fd = x
      <3>1. CASE x = fd
        BY <1>2, <1>5, <2>3, <3>1, Zenon
      <3>2. CASE x # fd
        <4>1. PICK d \in Coro : call[d] # NoCall /\ call[d].fd = x
          BY <1>0, <2>3, <2>7, <3>2, SMTT(40) DEF ArmedOK
        <4>2. d # c
          BY <3>2, <4>1, Zenon
        <4> QED
          BY <2>3, <4>1, <4>2, ZenonT(40)
      <3> QED
        BY <3>1, <3>2, Zenon
    <2> QED
      BY <1>0, <2>2, <2>4, <2>5, <2>6, <2>7, SMTT(40) DEF LoopInv, ArmedOK
  <1> QED
    BY <1>4, <1>5, Zenon

\* A call starts: its descriptor is in nobody's use.
LEMMA StartFacts ==
    ASSUME LoopInv, Shared = {}, NEW c \in Coro, NEW fd \in Fd, Start(c, fd)
    PROVE  /\ call[c] = NoCall /\ \A d \in Coro : d # c /\ call[d] # NoCall => call[d].fd # fd
           /\ interest = [interest EXCEPT ![fd] = "ABSENT"] /\ table = [table EXCEPT ![fd] = None]
           /\ capacity' \in Nat /\ capacity' >= capacity /\ fd < capacity'
           /\ marked' \subseteq Fd /\ \A x \in marked' : x < capacity'
           /\ nonblock' \subseteq Fd
  <1>0. /\ call \in [Coro -> Calls \cup {NoCall}] /\ table \in [Fd -> Coro \cup {None}]
        /\ interest \in [Fd -> {"IN", "OUT", "OFF", "ABSENT"}] /\ capacity \in Nat \ {0}
        /\ marked \subseteq Fd /\ nonblock \subseteq Fd /\ \A x \in marked : x < capacity
        /\ CallsOK /\ ArmedOK
    BY Zenon DEF LoopInv, LoopTypeOK, Calls
  <1>1. call[c] = NoCall /\ \A d \in Coro : call[d] # NoCall => call[d].fd # fd
    BY ZenonT(40) DEF Start
  <1>2. interest[fd] = "ABSENT" /\ table[fd] = None
    BY <1>0, <1>1 DEF ArmedOK, CallsOK
  <1>3. interest = [interest EXCEPT ![fd] = "ABSENT"] /\ table = [table EXCEPT ![fd] = None]
    BY <1>0, <1>2, ZenonT(40)
  <1>4. CASE fd_table_is_nonblock(fd)
    BY <1>0, <1>1, <1>3, <1>4, SMTT(40) DEF Start, coco_poll_set_nonblock, fd_table_is_nonblock
  <1>5. CASE ~fd_table_is_nonblock(fd)
    <2>1. /\ nonblock' = nonblock \cup {fd} /\ marked' = marked \cup {fd}
          /\ capacity' = fd_table_ensure_capacity(capacity, fd)
      BY <1>5, Zenon DEF Start, coco_poll_set_nonblock
    <2>2. capacity' \in Nat /\ capacity' >= capacity /\ capacity' > fd
      BY <1>0, <2>1, CapacityFacts, Zenon
    <2>3. Fd \subseteq Nat
      BY DEF Fd
    <2> QED
      BY <1>0, <1>1, <1>3, <2>1, <2>2, <2>3, SMTT(40)
  <1> QED
    BY <1>4, <1>5, Zenon

\* What an attempt leaves: the call has returned, or waits for its descriptor.
LEMMA AttemptFacts ==
    ASSUME NEW c \in Coro, NEW k \in Calls, NEW ints, NEW tab, Attempt(c, k, ints, tab),
           ready \in [Fd -> SUBSET {"IN", "OUT"}]
    PROVE  /\ \/ Return(c) /\ interest' = ints /\ table' = tab
              \/ \E j \in Calls : j.fd = k.fd /\ WaitFor(c, j, ints, tab)
           /\ ready' \in [Fd -> SUBSET {"IN", "OUT"}]
  <1>0. k.fd \in Fd
    BY Zenon DEF Calls
  <1>1. ASSUME NEW n \in Partial(k) PROVE [k EXCEPT !.left = @ - n] \in Calls /\ [k EXCEPT !.left = @ - n].fd = k.fd
    BY EventLoopAssumption DEF Partial, Calls
  <1>2. ready' \in [Fd -> SUBSET {"IN", "OUT"}]
    BY <1>0, Zenon DEF Attempt
  <1> QED
    BY <1>1, <1>2, Zenon DEF Attempt

\* A call starts and makes its first attempt.
LEMMA CallLoopInv ==
    ASSUME LoopInv, Shared = {}, NEW c \in Coro, NEW fd \in Fd, Start(c, fd), cancelled' = cancelled,
           \/ \E k \in Calls : k.fd = fd /\ Attempt(c, k, interest, table)
           \/ coco_connect(c, fd)
    PROVE  LoopInv'
  <1>1. ready \in [Fd -> SUBSET {"IN", "OUT"}] /\ cancelled' \subseteq Coro
    BY Zenon DEF LoopInv, LoopTypeOK
  <1>2. /\ \/ Return(c) /\ interest' = interest /\ table' = table
           \/ \E k \in Calls : k.fd = fd /\ WaitFor(c, k, interest, table)
        /\ ready' \in [Fd -> SUBSET {"IN", "OUT"}]
    <2>1. ASSUME NEW k \in Calls, k.fd = fd, Attempt(c, k, interest, table)
          PROVE  /\ \/ Return(c) /\ interest' = interest /\ table' = table
                    \/ \E j \in Calls : j.fd = fd /\ WaitFor(c, j, interest, table)
                 /\ ready' \in [Fd -> SUBSET {"IN", "OUT"}]
      BY ONLY <1>1, <2>1, c \in Coro, k \in Calls, AttemptFacts, Zenon
    <2>2. CASE coco_connect(c, fd)
      <3> DEFINE k == [kind |-> "connect", fd |-> fd, left |-> 1]
      <3>1. k \in Calls /\ k.fd = fd
        BY EventLoopAssumption DEF Calls
      <3>2. \/ Return(c) /\ interest' = interest /\ table' = table
            \/ WaitFor(c, k, interest, table)
        BY <2>2, Zenon DEF coco_connect
      <3>3. ready' = ready
        BY <2>2, Zenon DEF coco_connect
      <3> HIDE DEF k
      <3> QED
        BY <1>1, <3>1, <3>2, <3>3, ZenonT(40)
    <2> QED
      BY <2>1, <2>2, Zenon
  <1>3. Settles(c, fd, interest, table)
    BY <1>1, <1>2, StartFacts, Zenon DEF Settles
  <1> QED
    BY <1>3, Settle, Zenon

\* A ready coroutine runs: it leaves the epoll set and the table first.
LEMMA ResumeLoopInv == ASSUME LoopInv, NEW c \in Coro, Resume(c) PROVE LoopInv'
  <1> DEFINE fd == call[c].fd
             ints == [interest EXCEPT ![fd] = "ABSENT"]
             tab == [table EXCEPT ![fd] = None]
  <1>1. /\ state[c] = "READY" /\ ready \in [Fd -> SUBSET {"IN", "OUT"}]
        /\ UNCHANGED <<cancelled, marked, capacity, nonblock>>
        /\ call \in [Coro -> Calls \cup {NoCall}] /\ capacity \in Nat
        /\ marked \subseteq Fd /\ (\A x \in marked : x < capacity) /\ nonblock \subseteq Fd
        /\ cancelled \subseteq Coro /\ CallsOK
    BY Zenon DEF Resume, LoopInv, LoopTypeOK, Calls
  <1>2. call[c] # NoCall /\ call[c] \in Calls /\ fd < capacity
    BY <1>1, Zenon DEF CallsOK
  <1>3. fd \in Fd
    BY <1>2, Zenon DEF Calls
  <1>4. coco_poll_unregister(fd) = <<ints, tab>>
    BY <1>2, ZenonT(40) DEF coco_poll_unregister, fd_table_clear
  <1>5. \/ Attempt(c, call[c], ints, tab)
        \/ Return(c) /\ interest' = ints /\ table' = tab /\ ready' = ready
    BY <1>4 DEF Resume
  <1>6. \A d \in Coro : d # c /\ call[d] # NoCall => call[d].fd # fd
    BY <1>1, <1>2, Zenon DEF CallsOK
  <1>7. PICK i, t : i = ints /\ t = tab
    BY Zenon
  <1>8. /\ \/ Return(c) /\ interest' = i /\ table' = t
           \/ \E k \in Calls : k.fd = fd /\ WaitFor(c, k, i, t)
        /\ ready' \in [Fd -> SUBSET {"IN", "OUT"}]
    <2>1. PICK k \in Calls : k = call[c]
      BY <1>2, Zenon
    <2>2. CASE Attempt(c, k, i, t)
      BY ONLY <1>1, <2>1, <2>2, c \in Coro, AttemptFacts, Zenon
    <2>3. CASE Return(c) /\ interest' = i /\ table' = t /\ ready' = ready
      BY <1>1, <2>3, Zenon
    <2> QED
      BY <1>5, <1>7, <2>1, <2>2, <2>3, Zenon
  <1>9. PICK f \in Fd : f = fd
    BY <1>3, Zenon
  <1>10. /\ i = [interest EXCEPT ![f] = "ABSENT"] /\ t = [table EXCEPT ![f] = None]
         /\ call[c].fd = f /\ (\A d \in Coro : d # c /\ call[d] # NoCall => call[d].fd # f)
         /\ (\/ Return(c) /\ interest' = i /\ table' = t
             \/ \E k \in Calls : k.fd = f /\ WaitFor(c, k, i, t))
         /\ f < capacity'
    BY <1>1, <1>2, <1>6, <1>7, <1>8, <1>9, ZenonT(40)
  <1>11. /\ capacity' \in Nat /\ capacity' >= capacity
         /\ marked' \subseteq Fd /\ (\A x \in marked' : x < capacity')
         /\ nonblock' \subseteq Fd /\ ready' \in [Fd -> SUBSET {"IN", "OUT"}] /\ cancelled' \subseteq Coro
    BY <1>1, <1>8
  <1>12. (call[c] # NoCall => call[c].fd = f) /\ ready' \in [Fd -> SUBSET {"IN", "OUT"}]
    BY <1>10, <1>11, Zenon
  <1> HIDE DEF fd, ints, tab
  <1>13. Settles(c, f, i, t)
    BY ONLY <1>10, <1>11, <1>12, Zenon DEF Settles
  <1> QED
    BY ONLY LoopInv, c \in Coro, f \in Fd, <1>13, Settle, Zenon

\* coco_cancel() takes one that waits out of the epoll set and the table.
LEMMA CancelLoopInv == ASSUME LoopInv, NEW c \in Coro, coco_cancel(c) PROVE LoopInv'
  <1>0. /\ call \in [Coro -> Calls \cup {NoCall}] /\ state \in [Coro -> {"RUNNING", "READY", "WAITING"}]
        /\ wait_fd \in [Coro -> Fd \cup {-1}] /\ table \in [Fd -> Coro \cup {None}]
        /\ interest \in [Fd -> {"IN", "OUT", "OFF", "ABSENT"}]
        /\ capacity \in Nat /\ capacity # 0 /\ CallsOK /\ ArmedOK
    BY Zenon DEF LoopInv, LoopTypeOK, Calls
  <1>1. /\ UNCHANGED <<call, marked, capacity, nonblock, ready>> /\ cancelled' = cancelled \cup {c}
        /\ call[c] # NoCall
    BY ZenonT(40) DEF coco_cancel
  <1>2. CASE state[c] # "WAITING"
    <2>1. UNCHANGED <<interest, table, wait_fd, state>>
      BY <1>2, Zenon DEF coco_cancel
    <2> QED
      BY <1>1, <2>1 DEF LoopInv, LoopTypeOK, CallsOK, ArmedOK
  <1>3. CASE state[c] = "WAITING"
    <2>1. PICK fd \in Fd : fd = call[c].fd
      BY <1>0, <1>1, Zenon DEF Calls
    <2>2. wait_fd[c] = fd /\ fd < capacity /\ table[fd] = c
      BY <1>0, <1>1, <1>3, <2>1, Zenon DEF CallsOK, ArmedOK
    <2>3. /\ interest' = [interest EXCEPT ![fd] = "ABSENT"] /\ table' = [table EXCEPT ![fd] = None]
          /\ wait_fd' = [wait_fd EXCEPT ![c] = -1] /\ state' = [state EXCEPT ![c] = "READY"]
      BY <1>3, <2>2, Zenon DEF coco_cancel, coco_poll_unregister, fd_table_clear
    <2>4. LoopTypeOK'
      BY <1>1, <2>3, Zenon DEF LoopInv, LoopTypeOK
    <2>5. CallsOK'
      BY <1>0, <1>1, <1>3, <2>3, ZenonT(40) DEF CallsOK
    <2>6. ASSUME NEW d \in Coro, state'[d] = "WAITING"
          PROVE  /\ wait_fd'[d] = call[d].fd /\ table'[call[d].fd] = d
                 /\ interest'[call[d].fd] = Event(call[d].kind)
      <3>1. d # c /\ state[d] = "WAITING" /\ call[d] # NoCall
        BY <1>0, <2>3, <2>6, Zenon DEF CallsOK
      <3>2. call[d].fd # fd /\ call[d].fd \in Fd
        BY <1>0, <1>1, <2>1, <3>1, ZenonT(40) DEF CallsOK, Calls
      <3> QED
        BY <1>0, <2>3, <3>1, <3>2, SMTT(40) DEF ArmedOK
    <2>7. \A x \in Fd : table'[x] # None => state'[table'[x]] = "WAITING" /\ call[table'[x]].fd = x
      BY <1>0, <2>1, <2>3, SMTT(40) DEF ArmedOK
    <2>8. \A x \in Fd : interest'[x] # "ABSENT" => \E d \in Coro : call[d] # NoCall /\ call[d].fd = x
      BY <1>0, <2>3, SMTT(40) DEF ArmedOK
    <2> QED
      BY <1>1, <2>4, <2>5, <2>6, <2>7, <2>8, Zenon DEF LoopInv, ArmedOK
  <1> QED
    BY <1>2, <1>3, Zenon

\* coco_poll_wait() wakes whoever the table has for a reported descriptor: it
\* disarms nobody else.
LEMMA PollLoopInv == ASSUME LoopInv, coco_poll_wait PROVE LoopInv'
  <1>0. /\ call \in [Coro -> Calls \cup {NoCall}] /\ state \in [Coro -> {"RUNNING", "READY", "WAITING"}]
        /\ wait_fd \in [Coro -> Fd \cup {-1}] /\ table \in [Fd -> Coro \cup {None}]
        /\ interest \in [Fd -> {"IN", "OUT", "OFF", "ABSENT"}] /\ ready \in [Fd -> SUBSET {"IN", "OUT"}]
        /\ capacity \in Nat /\ capacity # 0 /\ CallsOK /\ ArmedOK
    BY Zenon DEF LoopInv, LoopTypeOK, Calls
  <1>1. PICK evs \in SUBSET Reportable \ {{}} :
        LET woken == {fd \in evs : /\ fd_table_get(fd) # None
                                   /\ state[fd_table_get(fd)] = "WAITING"}
            who == {table[fd] : fd \in woken}
        IN  /\ interest' = [fd \in Fd |-> IF fd \in evs THEN "OFF" ELSE interest[fd]]
            /\ table' = [fd \in Fd |-> IF fd \in woken THEN None ELSE table[fd]]
            /\ state' = [c \in Coro |-> IF c \in who THEN "READY" ELSE state[c]]
            /\ wait_fd' = [c \in Coro |-> IF c \in who THEN -1 ELSE wait_fd[c]]
            /\ UNCHANGED <<call, cancelled, marked, capacity, nonblock, ready>>
    BY Zenon DEF coco_poll_wait
  <1>2. PICK woken, who : /\ woken = {fd \in evs : fd_table_get(fd) # None /\ state[fd_table_get(fd)] = "WAITING"}
                          /\ who = {table[fd] : fd \in woken}
    BY Zenon
  <1>3. /\ interest' = [fd \in Fd |-> IF fd \in evs THEN "OFF" ELSE interest[fd]]
        /\ table' = [fd \in Fd |-> IF fd \in woken THEN None ELSE table[fd]]
        /\ state' = [c \in Coro |-> IF c \in who THEN "READY" ELSE state[c]]
        /\ wait_fd' = [c \in Coro |-> IF c \in who THEN -1 ELSE wait_fd[c]]
        /\ UNCHANGED <<call, cancelled, marked, capacity, nonblock, ready>>
    BY <1>1, <1>2, Zenon
  <1>4. evs \subseteq Fd /\ \A fd \in evs : interest[fd] # "ABSENT"
    BY <1>0, Zenon DEF Reportable
  <1>5. ASSUME NEW fd \in woken PROVE fd \in evs /\ table[fd] # None /\ state[table[fd]] = "WAITING"
    BY <1>2, Zenon DEF fd_table_get
  <1>6. ASSUME NEW c \in Coro, state[c] = "WAITING"
        PROVE  /\ call[c] # NoCall /\ call[c] \in Calls /\ call[c].fd \in Fd
               /\ c \in who <=> call[c].fd \in evs
               /\ call[c].fd \in woken <=> call[c].fd \in evs
    <2>1. call[c] # NoCall /\ call[c] \in Calls /\ call[c].fd < capacity /\ table[call[c].fd] = c
      BY <1>0, <1>6 DEF CallsOK, ArmedOK
    <2>2. call[c].fd \in Fd /\ c # None
      BY <2>1, DescriptorsAssumption, Zenon DEF Calls
    <2>3. fd_table_get(call[c].fd) = c
      BY <2>1, Zenon DEF fd_table_get
    <2>4. call[c].fd \in woken <=> call[c].fd \in evs
      BY <1>2, <1>6, <2>2, <2>3, ZenonT(40)
    <2>5. ASSUME c \in who PROVE call[c].fd \in evs
      BY <1>0, <1>2, <1>4, <1>5, <2>5, SMTT(40) DEF ArmedOK
    <2> QED
      BY <1>2, <2>1, <2>2, <2>4, <2>5, ZenonT(40)
  <1>7. who \subseteq Coro /\ \A c \in who : state[c] = "WAITING"
    BY <1>0, <1>2, <1>4, <1>5, SMTT(40)
  <1>8. LoopTypeOK'
    BY <1>3, Zenon DEF LoopInv, LoopTypeOK
  <1>9. CallsOK'
    BY <1>0, <1>3, <1>7, Zenon DEF CallsOK
  <1>10. ASSUME NEW c \in Coro, state'[c] = "WAITING"
         PROVE  /\ wait_fd'[c] = call[c].fd /\ table'[call[c].fd] = c
                /\ interest'[call[c].fd] = Event(call[c].kind)
    <2>1. state[c] = "WAITING" /\ c \notin who
      BY <1>3, <1>10, Zenon
    <2>2. call[c].fd \in Fd /\ call[c].fd \notin evs /\ call[c].fd \notin woken
      BY <1>6, <2>1, Zenon
    <2> QED
      BY <1>0, <1>3, <2>1, <2>2, Zenon DEF ArmedOK
  <1>11. ASSUME NEW x \in Fd, table'[x] # None
         PROVE  state'[table'[x]] = "WAITING" /\ call[table'[x]].fd = x
    <2>1. x \notin woken /\ table'[x] = table[x] /\ table[x] \in Coro
      BY <1>0, <1>3, <1>11, Zenon
    <2>2. state[table[x]] = "WAITING" /\ call[table[x]].fd = x
      BY <1>0, <1>11, <2>1, Zenon DEF ArmedOK
    <2>3. table[x] \notin who
      BY <1>6, <2>1, <2>2, Zenon
    <2> QED
      BY <1>3, <2>1, <2>2, <2>3, Zenon
  <1>12. \A x \in Fd : interest'[x] # "ABSENT" => \E d \in Coro : call[d] # NoCall /\ call[d].fd = x
    BY <1>0, <1>3, <1>4, Zenon DEF ArmedOK
  <1>13. ArmedOK'
    BY ONLY <1>3, <1>10, <1>11, <1>12, ZenonT(40) DEF ArmedOK
  <1>14. capacity' # 0 /\ \A fd \in marked' : fd < capacity'
    BY <1>3, Zenon DEF LoopInv
  <1> QED
    BY <1>8, <1>9, <1>13, <1>14, Zenon DEF LoopInv

\* Every step keeps the invariant.
LEMMA NextLoopInv == ASSUME Shared = {}, LoopInv, [LoopNext]_loopVars PROVE LoopInv'
  <1>1. ASSUME NEW c \in Coro, NEW fd \in Fd,
               \/ coco_read(c, fd) \/ coco_accept(c, fd) \/ coco_connect(c, fd)
               \/ coco_write(c, fd) \/ coco_sendfile(c, fd)
        PROVE  LoopInv'
    <2>1. Start(c, fd) /\ cancelled' = cancelled
      BY <1>1, Zenon DEF coco_read, coco_accept, coco_connect, coco_write, coco_sendfile
    <2>2. /\ [kind |-> "read", fd |-> fd, left |-> 1] \in Calls
          /\ [kind |-> "write", fd |-> fd, left |-> MaxLeft] \in Calls
      BY EventLoopAssumption DEF Calls
    <2>3. \/ \E k \in Calls : k.fd = fd /\ Attempt(c, k, interest, table)
          \/ coco_connect(c, fd)
      BY <1>1, <2>2, Zenon DEF coco_read, coco_accept, coco_write, coco_sendfile
    <2> QED
      BY ONLY Shared = {}, LoopInv, c \in Coro, fd \in Fd, <2>1, <2>3, CallLoopInv, Zenon
  <1>2. ASSUME NEW c \in Coro, Resume(c) PROVE LoopInv'
    BY <1>2, ResumeLoopInv, Zenon
  <1>3. ASSUME NEW c \in Coro, coco_cancel(c) PROVE LoopInv'
    BY <1>3, CancelLoopInv, Zenon
  <1>4. ASSUME coco_poll_wait PROVE LoopInv'
    BY <1>4, PollLoopInv, Zenon
  <1>5. ASSUME NEW fd \in Fd, NEW e \in {"IN", "OUT"}, KernelReady(fd, e) PROVE LoopInv'
    BY <1>5 DEF KernelReady, LoopInv, LoopTypeOK, CallsOK, ArmedOK
  <1>6. ASSUME NEW fd \in Fd, NEW nb \in Opens, Reopen(fd, nb) PROVE LoopInv'
    <2>1. /\ \A c \in Coro : call[c] # NoCall => call[c].fd # fd
          /\ interest' = [interest EXCEPT ![fd] = "ABSENT"]
          /\ UNCHANGED <<call, state, cancelled, wait_fd, table, marked, capacity>>
      BY <1>6, Zenon DEF Reopen
    <2>2. LoopTypeOK'
      BY <1>6, Zenon DEF Reopen, LoopInv, LoopTypeOK
    <2>3. CallsOK'
      BY <2>1, Zenon DEF LoopInv, CallsOK
    <2>4. \A c \in Coro : state[c] = "WAITING" => call[c].fd # fd
      BY <2>1, ZenonT(40) DEF LoopInv, CallsOK
    <2>5. ArmedOK'
      BY <2>1, <2>4, SMTT(40) DEF LoopInv, LoopTypeOK, ArmedOK
    <2> QED
      BY <2>1, <2>2, <2>3, <2>5, Zenon DEF LoopInv
  <1>7. ASSUME UNCHANGED loopVars PROVE LoopInv'
    BY <1>7 DEF loopVars, LoopInv, LoopTypeOK, CallsOK, ArmedOK, Return
  <1> QED
    BY <1>1, <1>2, <1>3, <1>4, <1>5, <1>6, <1>7, Zenon DEF LoopNext

\* The invariant gives the property.
LEMMA LoopInvArmed == LoopInv => WaitersAreArmed
  <1> SUFFICES ASSUME LoopInv PROVE WaitersAreArmed
    BY Zenon
  <1>1. ASSUME NEW c \in Coro, state[c] = "WAITING"
        PROVE  wait_fd[c] = call[c].fd /\ fd_table_get(call[c].fd) = c /\ interest[call[c].fd] = Event(call[c].kind)
    BY <1>1, Zenon DEF LoopInv, CallsOK, ArmedOK, fd_table_get
  <1> QED
    BY <1>1, Zenon DEF WaitersAreArmed, LoopInv, ArmedOK

\* With every descriptor in the use of one coroutine at a time, who waits for
\* a descriptor is in the table and armed (poll_linux.c, fd_table.c): whatever
\* the number of coroutines and descriptors, and however the table has grown.
THEOREM LoopCorrect == Shared = {} => (LoopSpec => []WaitersAreArmed)
  <1> SUFFICES ASSUME Shared = {} PROVE LoopSpec => []WaitersAreArmed
    BY Zenon
  <1>1. LoopInv /\ [LoopNext]_loopVars => LoopInv'
    BY NextLoopInv, Zenon
  <1> QED
    BY InitLoopInv, <1>1, LoopInvArmed, PTL DEF LoopSpec

\* The inductive invariant of the blocking mode: what the table has cached as
\* non-blocking is, and so is what a call uses.
BlockInv ==
    /\ state \in [Coro -> {"RUNNING", "READY", "WAITING"}] /\ DOMAIN call = Coro
    /\ marked \subseteq nonblock /\ NeverBlocks
    /\ \A c \in Coro : state[c] # "RUNNING" => call[c].fd \in nonblock

\* What is opened non-blocking stays so.
LEMMA NextBlockInv ==
    ASSUME Opens \subseteq {TRUE}, BlockInv, [LoopNext]_loopVars PROVE BlockInv'
  <1>1. ASSUME NEW c \in Coro, NEW fd \in Fd, Start(c, fd)
        PROVE  nonblock \subseteq nonblock' /\ fd \in nonblock' /\ marked' \subseteq nonblock'
    BY <1>1, Zenon DEF Start, coco_poll_set_nonblock, fd_table_is_nonblock, BlockInv
  <1>2. ASSUME NEW c \in Coro, NEW fd \in Fd, fd \in nonblock', nonblock \subseteq nonblock',
               marked' \subseteq nonblock',
               \/ Return(c)
               \/ \E k, ints, tab : k.fd = fd /\ WaitFor(c, k, ints, tab)
        PROVE  BlockInv'
    <2>1. PICK k, st : /\ call' = [call EXCEPT ![c] = k] /\ state' = [state EXCEPT ![c] = st]
                       /\ st \in {"RUNNING", "READY", "WAITING"}
                       /\ (k = NoCall /\ st = "RUNNING") \/ k.fd = fd
      BY <1>2, Zenon DEF Return, WaitFor
    <2> QED
      BY <1>2, <2>1, Zenon DEF BlockInv, NeverBlocks
  <1>3. ASSUME NEW c \in Coro, NEW k, NEW ints, NEW tab, Attempt(c, k, ints, tab)
        PROVE  \/ Return(c)
               \/ \E j, i, t : j.fd = k.fd /\ WaitFor(c, j, i, t)
    <2>1. \A n : [k EXCEPT !.left = @ - n].fd = k.fd
      OBVIOUS
    <2> QED
      BY <1>3, <2>1, Zenon DEF Attempt
  <1>4. ASSUME NEW c \in Coro, NEW fd \in Fd,
               \/ coco_read(c, fd) \/ coco_accept(c, fd) \/ coco_connect(c, fd)
               \/ coco_write(c, fd) \/ coco_sendfile(c, fd)
        PROVE  BlockInv'
    <2>1. Start(c, fd)
      BY <1>4, Zenon DEF coco_read, coco_accept, coco_connect, coco_write, coco_sendfile
    <2>2. \/ coco_connect(c, fd)
          \/ \E k : k.fd = fd /\ Attempt(c, k, interest, table)
      BY <1>4, Zenon DEF coco_read, coco_accept, coco_write, coco_sendfile
    <2>3. \/ Return(c)
          \/ \E k, ints, tab : k.fd = fd /\ WaitFor(c, k, ints, tab)
      <3>1. CASE coco_connect(c, fd)
        BY <3>1, Zenon DEF coco_connect
      <3>2. ASSUME NEW k, k.fd = fd, Attempt(c, k, interest, table)
            PROVE  \/ Return(c)
                   \/ \E j, ints, tab : j.fd = fd /\ WaitFor(c, j, ints, tab)
        BY ONLY c \in Coro, <3>2, <1>3, Zenon
      <3> QED
        BY <2>2, <3>1, <3>2, Zenon
    <2> QED
      BY <1>1, <1>2, <2>1, <2>3, Zenon
  <1>5. ASSUME NEW c \in Coro, Resume(c) PROVE BlockInv'
    <2>1. /\ state[c] = "READY" /\ UNCHANGED <<marked, nonblock>>
          /\ Return(c) \/ \E i, t : Attempt(c, call[c], i, t)
      BY <1>5, Zenon DEF Resume
    <2>2. PICK k : k = call[c]
      BY Zenon
    <2>3. Return(c) \/ \E j, i, t : j.fd = k.fd /\ WaitFor(c, j, i, t)
      BY ONLY c \in Coro, <2>1, <2>2, <1>3, Zenon
    <2>4. PICK st : /\ st \in {"RUNNING", "READY", "WAITING"} /\ state' = [state EXCEPT ![c] = st]
                    /\ \E j : call' = [call EXCEPT ![c] = j] /\ ((j = NoCall /\ st = "RUNNING") \/ j.fd = k.fd)
      BY <2>3, Zenon DEF Return, WaitFor
    <2> QED
      BY <2>1, <2>2, <2>4, Zenon DEF BlockInv, NeverBlocks
  <1>6. ASSUME NEW c \in Coro, coco_cancel(c) PROVE BlockInv'
    BY <1>6, Zenon DEF coco_cancel, BlockInv, NeverBlocks
  <1>7. ASSUME coco_poll_wait PROVE BlockInv'
    <2>1. /\ UNCHANGED <<call, marked, nonblock>>
          /\ \E who : /\ state' = [c \in Coro |-> IF c \in who THEN "READY" ELSE state[c]]
                      /\ \A c \in who : state[c] = "WAITING"
      <3>1. PICK evs : LET woken == {fd \in evs : /\ fd_table_get(fd) # None
                                                  /\ state[fd_table_get(fd)] = "WAITING"}
                           who == {table[fd] : fd \in woken}
                       IN  /\ state' = [c \in Coro |-> IF c \in who THEN "READY" ELSE state[c]]
                           /\ UNCHANGED <<call, marked, nonblock>>
        BY <1>7, Zenon DEF coco_poll_wait
      <3>2. \A fd : fd_table_get(fd) # None => fd_table_get(fd) = table[fd]
        BY Zenon DEF fd_table_get
      <3> DEFINE woken == {fd \in evs : /\ fd_table_get(fd) # None
                                        /\ state[fd_table_get(fd)] = "WAITING"}
                 who == {table[fd] : fd \in woken}
      <3>3. \A c \in who : state[c] = "WAITING"
        BY <3>2, Zenon
      <3>4. /\ state' = [c \in Coro |-> IF c \in who THEN "READY" ELSE state[c]]
            /\ UNCHANGED <<call, marked, nonblock>>
        BY <3>1, Zenon
      <3> HIDE DEF who
      <3> QED
        BY <3>3, <3>4, Zenon
    <2> QED
      BY <2>1, Zenon DEF BlockInv, NeverBlocks
  <1>8. ASSUME NEW fd \in Fd, NEW e \in {"IN", "OUT"}, KernelReady(fd, e) PROVE BlockInv'
    BY <1>8, Zenon DEF KernelReady, BlockInv, NeverBlocks
  <1>9. ASSUME NEW fd \in Fd, NEW nb \in Opens, Reopen(fd, nb) PROVE BlockInv'
    BY <1>9, Zenon DEF Reopen, BlockInv, NeverBlocks
  <1>10. ASSUME UNCHANGED loopVars PROVE BlockInv'
    BY <1>10, Zenon DEF loopVars, BlockInv, NeverBlocks
  <1> QED
    BY <1>4, <1>5, <1>6, <1>7, <1>8, <1>9, <1>10, ZenonT(40) DEF LoopNext

\* When every file is opened non-blocking, no call blocks the scheduler
\* (event_loop.c:coco_poll_set_nonblock()): shared descriptors included.
THEOREM NeverBlocksCorrect == Opens \subseteq {TRUE} => (LoopSpec => []NeverBlocks)
  <1> SUFFICES ASSUME Opens \subseteq {TRUE} PROVE LoopSpec => []NeverBlocks
    BY Zenon
  <1>1. LoopInit => BlockInv
    BY DEF LoopInit, BlockInv, NeverBlocks
  <1>2. BlockInv /\ [LoopNext]_loopVars => BlockInv'
    BY NextBlockInv, Zenon
  <1>3. BlockInv => NeverBlocks
    BY Zenon DEF BlockInv
  <1> QED
    BY <1>1, <1>2, <1>3, PTL DEF LoopSpec
=============================================================================
