------------------------- MODULE ChannelStepProofs --------------------------
(***************************************************************************)
(* Sending, receiving, their batches, and select keep the invariant of     *)
(* ChannelShapeProofs and the count of the references.                     *)
(***************************************************************************)
EXTENDS ChannelShapeProofs

-----------------------------------------------------------------------------
(* Send and receive.                                                       *)

\* The coroutine inside a batch loop waits for nothing.
LEMMA RunningFacts ==
    ASSUME ChanInv, NEW c \in Coro, running = c
    PROVE  /\ coro[c].waits = None /\ ~Undecided(coro[c]) /\ coro[c].on \in Chan /\ coro[c].op \in Looping
           /\ coro[c].woken = 0 /\ ~coro[c].timer /\ coro[c].cases = <<>>
  <1>1. CoroOK(coro[c], running = c)
    BY Zenon DEF ChanInv, Shape
  <1> QED
    BY ONLY <1>1, running = c, Zenon DEF CoroOK, Undecided, Plain, Looping

\* A call that has been woken has left its queue.
LEMMA ResumedFacts ==
    ASSUME ChanInv, NEW c \in Coro, running = None, coro[c].op \in Plain, coro[c].woken > 0
    PROVE  /\ coro[c].waits = None /\ ~Undecided(coro[c]) /\ coro[c].on \in Chan
           /\ coro[c].woken = 1 /\ ~coro[c].timer /\ coro[c].cases = <<>>
  <1>1. CoroOK(coro[c], running = c) /\ None \notin Coro
    BY ChannelAssumption, Zenon DEF ChanInv, Shape
  <1> QED
    BY ONLY <1>1, running = None, coro[c].op \in Plain, coro[c].woken > 0, c \in Coro, SMTT(40)
       DEF CoroOK, Undecided, Plain, Looping

\* A call on a channel blocks.
LEMMA CallBlocks ==
    ASSUME ChanInv, NEW c \in Coro, NEW h \in Chan, NEW v \in ValueT, NEW side \in {"sendQ", "recvQ"},
           NEW op \in (IF side = "sendQ" THEN Sending ELSE Receiving), NEW vs \in Seq(Value), op \notin Looping,
           coro[c].op = "none", running = None, running' = None, made' \in 0..program.values, taken' \in TakenT,
           NEW co1, co1 = [coro EXCEPT ![c].op = op, ![c].on = h, ![c].vals = vs],
           block(c, h, side, v, chan, co1)
    PROVE  StepOK
  <1>1. coro \in [Coro -> CoroT] /\ Shape(chan, coro, running)
    BY Types, Zenon
  <1>2. PICK k : k = [coro[c] EXCEPT !.op = op, !.on = h, !.vals = vs]
    BY Zenon
  <1>3. coro[c] \in CoroT /\ op \in Plain /\ op # "none" /\ op # "select"
    BY <1>1, Zenon DEF Plain, Sending, Receiving
  <1>4. /\ k \in CoroT /\ k.op = op /\ k.on = h /\ k.woken = coro[c].woken /\ k.timer = coro[c].timer
        /\ k.cases = coro[c].cases
    BY ONLY <1>2, <1>3, h \in Chan, vs \in Seq(Value), ZenonT(40) DEF CoroT
  <1>5. co1 \in [Coro -> CoroT] /\ co1[c] = k /\ \A d \in Coro \ {c} : co1[d] = coro[d]
    BY <1>1, <1>2, <1>4, ZenonT(40)
  <1>6. OthersSame(coro, co1, c)
    BY <1>5, Zenon DEF OthersSame, SameWait
  <1>7. /\ coro[c].waits = None /\ ~Undecided(coro[c])
        /\ co1[c].op = op /\ co1[c].on = h /\ co1[c].woken = 0 /\ ~co1[c].timer /\ co1[c].cases = <<>>
    BY <1>4, <1>5, IdleFacts, ZenonT(40)
  <1>8. /\ Shape(chan', coro', None)
        /\ chan'[h].refcount = chan[h].refcount + 1
        /\ \A g \in Chan : chan'[g].destroying = chan[g].destroying
        /\ \A g \in Chan \ {h} : chan'[g].refcount = chan[g].refcount
        /\ coro'[c].op = co1[c].op /\ coro'[c].on = h
        /\ \A d \in Coro \ {c} : coro'[d].op = coro[d].op /\ coro'[d].on = coro[d].on
    BY ONLY <1>1, <1>5, <1>6, <1>7, c \in Coro, h \in Chan, v \in ValueT, side \in {"sendQ",
       "recvQ"},
            op \in (IF side = "sendQ" THEN Sending ELSE Receiving), running = None,
            block(c, h, side, v, chan, co1), Blocks, SMTT(40)
  <1>9. RefStep(chan, coro, running, chan', coro', None)
    BY <1>3, <1>7, <1>8, RefBlocks, ZenonT(40)
  <1> QED
    BY <1>3, <1>7, <1>8, <1>9, ZenonT(40) DEF StepOK, MayLoop

\* coco_channel_send() up to its coco_yield().
LEMMA SendStep ==
    ASSUME Library, ChanInv, NEW c \in Coro, NEW h \in Chan, coco_channel_send(c, h)
    PROVE  StepOK
  <1>1. /\ chan \in [Chan -> ChanT] /\ coro \in [Coro -> CoroT] /\ BufOK(chan) /\ taken \in TakenT
        /\ made \in 0..program.values /\ Shape(chan, coro, running)
        /\ program.values \in 0..MaxValues /\ MaxValues \in Nat
    BY Types, Zenon
  <1>2. running = None /\ coro[c].op = "none" /\ made < program.values
    BY Zenon DEF coco_channel_send, Calls
  <1>3. PICK v : v = made + 1
    BY Zenon
  <1>4. v \in Value /\ v \in ValueT /\ made + 1 \in 0..program.values
    BY <1>1, <1>2, <1>3, SMTT(40) DEF Value, ValueT
  <1>5. CASE Dangling(h)
    BY <1>5, Stays, ZenonT(40) DEF coco_channel_send, Crash
  <1>6. CASE ~Dangling(h)
    <2>1. made' = made + 1 /\ running' = running
      BY <1>6, Zenon DEF coco_channel_send
    <2>2. CASE to_receiver(h, v, chan, coro)
      <3>1. Shape(chan', coro', running) /\ SameRefs(chan, coro, chan', coro') /\ taken' \in TakenT
        BY ONLY Library, <1>1, <1>4, <2>2, h \in Chan, ToReceiver, ZenonT(40)
      <3> QED
        BY <1>4, <2>1, <3>1, SameStep, Reflexive, ZenonT(40)
    <2>3. CASE HasRoom(h) /\ chan' = [chan EXCEPT ![h].buf = Append(@, v)] /\ UNCHANGED <<coro, taken>>
      <3>1. chan[h].buf \in Seq(ValueT) /\ Capacity[h] \in Nat
        BY <1>1, ChanFields, ChannelAssumption, ZenonT(40)
      <3>2. Append(chan[h].buf, v) \in Seq(ValueT) /\ Len(Append(chan[h].buf, v)) <= Capacity[h]
        BY <1>4, <2>3, <3>1, SMTT(40) DEF HasRoom
      <3>3. PICK b : b = Append(chan[h].buf, v)
        BY Zenon
      <3>4. chan' = [chan EXCEPT ![h].buf = b]
        BY <2>3, <3>3, ZenonT(40)
      <3>5. Shape(chan', coro, running) /\ SameRefs(chan, coro, chan', coro)
        BY ONLY <1>1, <3>2, <3>3, <3>4, h \in Chan, SetBuf, ZenonT(40)
      <3> QED
        BY <1>1, <1>4, <2>1, <2>3, <3>5, SameStep, Reflexive, ZenonT(40)
    <2>4. CASE /\ block(c, h, "sendQ", v, chan, [Started(c, "send", h) EXCEPT ![c].vals = <<v>>])
               /\ UNCHANGED taken
      <3>1. PICK co1 : co1 = [coro EXCEPT ![c].op = "send", ![c].on = h, ![c].vals = <<v>>]
        BY Zenon
      <3>2. block(c, h, "sendQ", v, chan, co1)
        BY <1>1, <2>4, <3>1, ZenonT(40) DEF Started
      <3>3. <<v>> \in Seq(Value) /\ "send" \in Sending /\ running' = None /\ "send" \notin Looping
        BY <1>2, <1>4, <2>1, SMTT(40) DEF Sending, Looping
      <3>4. made' \in 0..program.values /\ taken' \in TakenT
        BY <1>1, <1>4, <2>1, <2>4, ZenonT(40)
      <3> QED
        BY ONLY <1>2, <1>4, <3>1, <3>2, <3>3, <3>4, ChanInv, c \in Coro, h \in Chan, CallBlocks,
           ZenonT(40)
    <2> QED
      BY <1>3, <1>6, <2>2, <2>3, <2>4, ZenonT(40) DEF coco_channel_send
  <1> QED
    BY <1>5, <1>6, Zenon

\* coco_channel_recv() up to its coco_yield().
LEMMA RecvStep ==
    ASSUME Library, ChanInv, NEW c \in Coro, NEW h \in Chan, coco_channel_recv(c, h)
    PROVE  StepOK
  <1>1. /\ chan \in [Chan -> ChanT] /\ coro \in [Coro -> CoroT] /\ BufOK(chan) /\ taken \in TakenT
        /\ made \in 0..program.values /\ Shape(chan, coro, running)
    BY Types, Zenon
  <1>2. running = None /\ coro[c].op = "none"
    BY Zenon DEF coco_channel_recv, Calls
  <1>5. CASE Dangling(h)
    BY <1>5, Stays, ZenonT(40) DEF coco_channel_recv, Crash
  <1>6. CASE ~Dangling(h)
    <2>1. made' = made /\ running' = running
      BY <1>6, Zenon DEF coco_channel_recv
    <2>2. CASE chan[h].buf # <<>> /\ from_buffer(h, 1, coro)
      <3>1. chan[h].buf \in Seq(ValueT)
        BY <1>1, ChanFields, ZenonT(40)
      <3>2. 1 \in 1..Len(chan[h].buf)
        BY <2>2, <3>1, SMTT(40)
      <3>3. Shape(chan', coro', running) /\ SameRefs(chan, coro, chan', coro') /\ taken' \in TakenT
        BY <1>1, <2>2, <3>2, FromBuffer, ZenonT(40)
      <3> QED
        BY <1>1, <2>1, <3>3, SameStep, Reflexive, ZenonT(40)
    <2>3. CASE from_sender(h, coro)
      <3>1. Shape(chan', coro', running) /\ SameRefs(chan, coro, chan', coro') /\ taken' \in TakenT
        BY <1>1, <2>3, FromSender, ZenonT(40)
      <3> QED
        BY <1>1, <2>1, <3>1, SameStep, Reflexive, Zenon
    <2>4. CASE block(c, h, "recvQ", None, chan, Started(c, "recv", h)) /\ UNCHANGED taken
      <3>1. coro[c].vals \in Seq(Value)
        BY <1>1, CoroFields, ZenonT(40)
      <3>2. PICK co1 : co1 = [coro EXCEPT ![c].op = "recv", ![c].on = h, ![c].vals = coro[c].vals]
        BY Zenon
      <3>3. co1 = Started(c, "recv", h)
        <4>1. coro[c] \in CoroT
          BY <1>1, Zenon
        <4>2. [coro[c] EXCEPT !.op = "recv", !.on = h, !.vals = coro[c].vals] = [coro[c] EXCEPT !.op = "recv", !.on = h]
          BY ONLY <4>1, Zenon DEF CoroT
        <4> QED
          BY <1>1, <3>2, <4>2, ZenonT(40) DEF Started
      <3>4. block(c, h, "recvQ", None, chan, co1)
        BY <2>4, <3>3, Zenon
      <3>5. "recv" \in Receiving /\ "recv" \notin Looping /\ running' = None /\ made' \in 0..program.values /\ taken' \in TakenT /\ None \in ValueT
        BY <1>1, <1>2, <2>1, <2>4, ZenonT(40) DEF Receiving, Looping, ValueT
      <3> QED
        BY ONLY <1>2, <3>1, <3>2, <3>4, <3>5, ChanInv, c \in Coro, h \in Chan, CallBlocks,
           ZenonT(40)
    <2> QED
      BY <1>6, <2>2, <2>3, <2>4, ZenonT(40) DEF coco_channel_recv
  <1> QED
    BY <1>5, <1>6, Zenon

\* A record of a coroutine that is idle, or in a batch loop.
IsIdle(k) ==
    /\ k \in CoroT /\ k.op = "none" /\ k.on = None /\ k.waits = None /\ k.woken = 0 /\ ~k.timer /\ k.cases = <<>>

IsLooping(k) ==
    /\ k \in CoroT /\ k.op \in Looping /\ k.on \in Chan /\ k.waits = None /\ k.woken = 0 /\ ~k.timer /\ k.cases = <<>>

\* A coroutine that has returned, or goes on in its batch loop.
LEMMA IdleOrLooping ==
    ASSUME NEW k, NEW busy \in BOOLEAN, IF busy THEN IsLooping(k) ELSE IsIdle(k)
    PROVE  /\ CoroOK(k, busy) /\ k.waits = None /\ ~Undecided(k) /\ k \in CoroT /\ k.op # "select"
           /\ k.op = "none" \/ busy
  BY Zenon DEF IsIdle, IsLooping, CoroOK, Undecided, Looping, Plain

\* A coroutine that holds no reference starts, goes on with or ends a call; the
\* buffers may change.
LEMMA LocalStep ==
    ASSUME ChanInv, NEW c \in Coro, NEW k, coro' = [coro EXCEPT ![c] = k],
           coro[c].op = "none" \/ running = c, running \in {None, c}, running' \in {None, c},
           IF running' = c THEN IsLooping(k) ELSE IsIdle(k),
           Shape(chan', coro, running), \A g \in Chan : SameCounts(chan, chan', g),
           made' \in 0..program.values, taken' \in TakenT, running' = c => MayLoop(c)
    PROVE  StepOK
  <1>1. coro \in [Coro -> CoroT] /\ None \notin Coro
    BY Types, ChannelAssumption, ZenonT(40)
  <1>2. coro[c].waits = None /\ ~Undecided(coro[c])
    BY IdleFacts, RunningFacts, ZenonT(40)
  <1>3. /\ CoroOK(k, running' = c) /\ k.waits = None /\ ~Undecided(k) /\ k \in CoroT /\ k.op # "select"
        /\ k.op = "none" \/ running' = c
    BY ONLY IF running' = c THEN IsLooping(k) ELSE IsIdle(k), (running' = c) \in BOOLEAN,
       IdleOrLooping, Zenon
  <1>4. coro' \in [Coro -> CoroT] /\ coro'[c] = k /\ \A d \in Coro \ {c} : coro'[d] = coro[d]
    BY <1>1, <1>3, ZenonT(40)
  <1>5. OthersSame(coro, coro', c) /\ \A d \in Coro \ {c} : running = d <=> running' = d
    BY <1>1, <1>4, ZenonT(40) DEF OthersSame, SameWait
  <1>6. running' \in Coro \cup {None}
    BY Zenon
  <1>7. Shape(chan', coro', running')
    BY ONLY <1>2, <1>3, <1>4, <1>5, <1>6, c \in Coro, Shape(chan', coro, running), ShapeSelf,
       ZenonT(40)
  <1>8. RefStep(chan, coro, running, chan', coro', running')
    BY <1>3, <1>4, <1>5, RefLocal, ZenonT(40)
  <1> QED
    BY <1>3, <1>4, <1>7, <1>8, ZenonT(40) DEF StepOK, MayLoop, Looping

\* A woken call drops its reference, and returns or goes on.
LEMMA UnrefStep ==
    ASSUME ChanInv, NEW c \in Coro, NEW k, coro' = [coro EXCEPT ![c] = k],
           running = None, coro[c].op \in Plain, coro[c].woken > 0, running' \in {None, c},
           IF running' = c THEN IsLooping(k) ELSE IsIdle(k),
           chan' = coco_channel_unref(coro[c].on), UNCHANGED <<made, taken>>,
           running' = c => MayLoop(c)
    PROVE  StepOK
  <1>1. /\ coro \in [Coro -> CoroT] /\ None \notin Coro /\ chan \in [Chan -> ChanT] /\ BufOK(chan)
        /\ Shape(chan, coro, running) /\ made' \in 0..program.values /\ taken' \in TakenT
    BY Types, ChannelAssumption, ZenonT(40)
  <1>2. PICK h : h = coro[c].on
    BY Zenon
  <1>3. coro[c].waits = None /\ ~Undecided(coro[c]) /\ h \in Chan
    BY <1>2, ResumedFacts, ZenonT(40)
  <1>4. /\ CoroOK(k, running' = c) /\ k.waits = None /\ ~Undecided(k) /\ k \in CoroT /\ k.op # "select"
        /\ k.op = "none" \/ running' = c
    BY ONLY IF running' = c THEN IsLooping(k) ELSE IsIdle(k), (running' = c) \in BOOLEAN,
       IdleOrLooping, Zenon
  <1>5. coro' \in [Coro -> CoroT] /\ coro'[c] = k /\ \A d \in Coro \ {c} : coro'[d] = coro[d]
    BY <1>1, <1>4, ZenonT(40)
  <1>6. OthersSame(coro, coro', c) /\ \A d \in Coro \ {c} : running = d <=> running' = d
    BY <1>1, <1>5, ZenonT(40) DEF OthersSame, SameWait
  <1>7. PICK n : n = chan[h].refcount - 1
    BY Zenon
  <1>8. chan[h] \in ChanT /\ n \in Int
    BY <1>1, <1>3, <1>7, ChanFields, SMTT(40)
  <1>9. PICK r : r = [chan[h] EXCEPT !.refcount = n]
    BY Zenon
  <1>10. /\ r \in ChanT /\ r.buf = chan[h].buf /\ SameQueues(chan[h], r) /\ SameNodes(chan[h], r)
         /\ r.refcount = n /\ r.destroying = chan[h].destroying
    BY ONLY <1>8, <1>9, ZenonT(40) DEF ChanT, SameQueues, SameNodes
  <1>11. chan' \in [Chan -> ChanT] /\ chan'[h] = r /\ \A g \in Chan \ {h} : chan'[g] = chan[g]
    BY <1>1, <1>2, <1>3, <1>7, <1>9, <1>10, ZenonT(40) DEF coco_channel_unref
  <1>12. BufOK(chan') /\ \A g \in Chan : SameQueues(chan[g], chan'[g]) /\ SameNodes(chan[g], chan'[g])
    BY <1>1, <1>10, <1>11, ZenonT(40) DEF BufOK, SameQueues, SameNodes
  <1>13. Shape(chan', coro, running)
    BY ONLY <1>1, <1>11, <1>12, ShapeChan, ZenonT(40)
  <1>14. running' \in Coro \cup {None}
    BY Zenon
  <1>15. Shape(chan', coro', running')
    BY ONLY <1>3, <1>4, <1>5, <1>6, <1>13, <1>14, c \in Coro, ShapeSelf, ZenonT(40)
  <1>16. coro[c].op # "none"
    BY ZenonT(40) DEF Plain
  <1>17. RefStep(chan, coro, None, chan', coro', running')
    <2>1. /\ chan'[h].refcount = chan[h].refcount - 1 /\ \A g \in Chan : chan'[g].destroying = chan[g].destroying
          /\ \A g \in Chan \ {h} : chan'[g].refcount = chan[g].refcount
      BY <1>7, <1>10, <1>11, ZenonT(40)
    <2>2. \A d \in Coro \ {c} : coro'[d].op = coro[d].op /\ coro'[d].on = coro[d].on
      BY <1>5, ZenonT(40)
    <2>3. coro'[c].op = "none" \/ running' = c
      BY <1>4, <1>5, ZenonT(40)
    <2> QED
      BY ONLY <1>2, <1>3, <1>14, <1>16, <2>1, <2>2, <2>3, c \in Coro, running' \in {None, c},
         RefResumes, SMTT(40)
  <1> QED
    BY <1>1, <1>4, <1>5, <1>15, <1>17, ZenonT(40) DEF StepOK, MayLoop, Looping

\* A call that returns leaves its coroutine idle.
LEMMA ReturnedIdle ==
    ASSUME NEW co \in [Coro -> CoroT], NEW c \in Coro, co[c].waits = None, co[c].woken = 0,
           ~co[c].timer, co[c].cases = <<>>
    PROVE  \E k : IsIdle(k) /\ Returned(co, c) = [co EXCEPT ![c] = k]
  <1>1. PICK k : k = [co[c] EXCEPT !.op = "none", !.on = None, !.vals = <<>>, !.cnt = 0, !.n = 0]
    BY Zenon
  <1>2. co[c] \in CoroT /\ <<>> \in Seq(Value)
    OBVIOUS
  <1>3. /\ k \in CoroT /\ k.op = "none" /\ k.on = None /\ k.waits = co[c].waits /\ k.woken = co[c].woken
        /\ k.timer = co[c].timer /\ k.cases = co[c].cases
    BY ONLY <1>1, <1>2, ZenonT(40) DEF CoroT
  <1>4. Returned(co, c) = [co EXCEPT ![c] = k]
    BY <1>1, Zenon DEF Returned
  <1> QED
    BY <1>3, <1>4, ZenonT(40) DEF IsIdle

\* The record of a coroutine that was woken and runs.
LEMMA ScheduledFacts ==
    ASSUME ChanInv, NEW c \in Coro, running = None, coro[c].op \in Plain, coro[c].woken > 0
    PROVE  /\ Scheduled(c) \in [Coro -> CoroT] /\ \A d \in Coro \ {c} : Scheduled(c)[d] = coro[d]
           /\ Scheduled(c)[c] = [coro[c] EXCEPT !.woken = 0]
           /\ Scheduled(c)[c] \in CoroT /\ Scheduled(c)[c].waits = None /\ Scheduled(c)[c].woken = 0
           /\ ~Scheduled(c)[c].timer /\ Scheduled(c)[c].cases = <<>> /\ Scheduled(c)[c].on = coro[c].on
           /\ Scheduled(c)[c].op = coro[c].op /\ Scheduled(c)[c].cnt = coro[c].cnt
           /\ DOMAIN Scheduled(c) = Coro
  <1>1. coro \in [Coro -> CoroT] /\ coro[c] \in CoroT
    BY Types, Zenon
  <1>2. coro[c].waits = None /\ coro[c].woken = 1 /\ ~coro[c].timer /\ coro[c].cases = <<>>
    BY ResumedFacts, Zenon
  <1>3. PICK k : k = [coro[c] EXCEPT !.woken = 0]
    BY Zenon
  <1>4. /\ k \in CoroT /\ k.waits = coro[c].waits /\ k.timer = coro[c].timer /\ k.cases = coro[c].cases
        /\ k.woken = 0 /\ k.on = coro[c].on /\ k.op = coro[c].op /\ k.cnt = coro[c].cnt
    <2>1. PICK k0 : k0 = coro[c]
      BY Zenon
    <2>2. k0 \in CoroT /\ k = [k0 EXCEPT !.woken = 0]
      BY <1>1, <1>3, <2>1, ZenonT(40)
    <2>3. k0 \in CoroT
      BY <2>2, ZenonT(40)
    <2>4. /\ k.waits = k0.waits /\ k.timer = k0.timer /\ k.cases = k0.cases
          /\ k.woken = 0 /\ k.on = k0.on /\ k.op = k0.op /\ k.cnt = k0.cnt
      BY ONLY <2>2, <2>3, ZenonT(40) DEF CoroT
    <2>5. k \in CoroT
      BY ONLY <2>2, <2>3, SMTT(40) DEF CoroT
    <2> QED
      BY ONLY <2>1, <2>4, <2>5, ZenonT(40)
  <1>5. Scheduled(c) = [coro EXCEPT ![c] = k]
    BY <1>1, <1>2, <1>3, SMTT(40) DEF Scheduled
  <1> QED
    BY <1>1, <1>2, <1>3, <1>4, <1>5, ZenonT(40)

\* A call that resumes, drops its reference and returns.
LEMMA ResumeReturns ==
    ASSUME ChanInv, NEW c \in Coro, running = None, coro[c].op \in Plain, coro[c].woken > 0,
           chan' = coco_channel_unref(coro[c].on), coro' = Returned(Scheduled(c), c), running' = None,
           UNCHANGED <<made, taken>>
    PROVE  StepOK
  <1>1. /\ Scheduled(c) \in [Coro -> CoroT] /\ Scheduled(c)[c].waits = None /\ Scheduled(c)[c].woken = 0
        /\ ~Scheduled(c)[c].timer /\ Scheduled(c)[c].cases = <<>>
        /\ \A d \in Coro \ {c} : Scheduled(c)[d] = coro[d]
    BY ScheduledFacts, Zenon
  <1>2. PICK k : IsIdle(k) /\ coro' = [Scheduled(c) EXCEPT ![c] = k]
    BY <1>1, ReturnedIdle, ZenonT(40)
  <1>3. coro' = [coro EXCEPT ![c] = k]
    <2>1. coro \in [Coro -> CoroT]
      BY Types, Zenon
    <2> QED
      BY <1>1, <1>2, <2>1, ZenonT(40)
  <1>4. running' # c
    BY ChannelAssumption, ZenonT(40)
  <1> QED
    BY <1>2, <1>3, <1>4, UnrefStep, ZenonT(40)

\* The rest of coco_channel_send().
LEMMA ResumeSendStep ==
    ASSUME ChanInv, NEW c \in Coro, resume_send(c)
    PROVE  StepOK
  <1>1. running = None /\ coro[c].op = "send" /\ coro[c].woken > 0
    BY Zenon DEF resume_send, Resumes
  <1>2. CASE UsesFreed(c, TRUE)
    BY <1>2, Stays, ZenonT(40) DEF resume_send, Crash
  <1>3. CASE ~UsesFreed(c, TRUE)
    BY <1>1, <1>3, ResumeReturns, ZenonT(40) DEF resume_send, Plain
  <1> QED
    BY <1>2, <1>3, ZenonT(40)

\* The rest of coco_channel_recv().
LEMMA ResumeRecvStep ==
    ASSUME ChanInv, NEW c \in Coro, resume_recv(c)
    PROVE  StepOK
  <1>1. running = None /\ coro[c].op = "recv" /\ coro[c].woken > 0
    BY Zenon DEF resume_recv, Resumes
  <1>2. CASE UsesFreed(c, TRUE)
    BY <1>2, Stays, ZenonT(40) DEF resume_recv, Crash
  <1>3. CASE ~UsesFreed(c, TRUE)
    BY <1>1, <1>3, ResumeReturns, ZenonT(40) DEF resume_recv, Plain
  <1> QED
    BY <1>2, <1>3, Zenon

-----------------------------------------------------------------------------
(* Batches.                                                                *)

\* A local of a call changes.
LEMMA SetLocal ==
    ASSUME NEW chs, NEW co, NEW run, Shape(chs, co, run), NEW c \in Coro, NEW r \in CoroT, SameWait(co[c], r),
           NEW co2, co2 = [co EXCEPT ![c] = r]
    PROVE  /\ Shape(chs, co2, run) /\ SameRefs(chs, co, chs, co2) /\ co2 \in [Coro -> CoroT]
           /\ \A d \in Coro : SameWait(co[d], co2[d])
           /\ \A d \in Coro \ {c} : co2[d] = co[d]
  <1>1. co \in [Coro -> CoroT]
    BY Zenon DEF Shape
  <1>5. co2 \in [Coro -> CoroT] /\ co2[c] = r /\ \A d \in Coro \ {c} : co2[d] = co[d]
    BY <1>1, ZenonT(40)
  <1>6. \A d \in Coro : SameWait(co[d], co2[d])
    BY <1>5, ZenonT(40) DEF SameWait
  <1>7. Shape(chs, co2, run)
    BY ONLY <1>5, <1>6, Shape(chs, co, run), ShapeCoro, ZenonT(40)
  <1> QED
    BY <1>5, <1>6, <1>7, ZenonT(40) DEF SameRefs, SameWait

\* A batch returns from its loop.
LEMMA LoopReturns ==
    ASSUME ChanInv, NEW c \in Coro, running = c, running' = None,
           NEW co, co \in [Coro -> CoroT], \A d \in Coro : SameWait(coro[d], co[d]),
           \A d \in Coro \ {c} : co[d] = coro[d], coro' = Returned(co, c),
           Shape(chan', coro, running), \A g \in Chan : SameCounts(chan, chan', g),
           made' \in 0..program.values, taken' \in TakenT
    PROVE  StepOK
  <1>1. co[c].waits = None /\ co[c].woken = 0 /\ ~co[c].timer /\ co[c].cases = <<>>
    BY RunningFacts, ZenonT(40) DEF SameWait
  <1>2. PICK k : IsIdle(k) /\ coro' = [co EXCEPT ![c] = k]
    BY <1>1, ReturnedIdle, ZenonT(40)
  <1>3. coro' = [coro EXCEPT ![c] = k]
    <2>1. coro \in [Coro -> CoroT]
      BY Types, ZenonT(40)
    <2> QED
      BY <1>2, <2>1, ZenonT(40)
  <1>4. running' # c
    BY ChannelAssumption, ZenonT(40)
  <1> QED
    BY <1>2, <1>3, <1>4, LocalStep, ZenonT(40)

\* A batch blocks in its loop, after filling the buffer.
LEMMA LoopBlocks ==
    ASSUME ChanInv, NEW c \in Coro, running = c, running' = None, NEW h, h = coro[c].on,
           NEW co, co \in [Coro -> CoroT], \A d \in Coro : SameWait(coro[d], co[d]),
           NEW chs, Shape(chs, coro, running), SameRefs(chan, coro, chs, coro),
           NEW side \in {"sendQ", "recvQ"}, coro[c].op \in (IF side = "sendQ" THEN Sending ELSE Receiving),
           NEW v \in ValueT, block(c, h, side, v, chs, co),
           made' \in 0..program.values, taken' \in TakenT
    PROVE  StepOK
  <1>1. /\ coro[c].waits = None /\ ~Undecided(coro[c]) /\ h \in Chan /\ coro[c].op \in Looping
        /\ coro[c].woken = 0 /\ ~coro[c].timer /\ coro[c].cases = <<>>
    BY RunningFacts, ZenonT(40)
  <1>2. /\ co[c].op = coro[c].op /\ co[c].on = h /\ co[c].woken = 0 /\ ~co[c].timer /\ co[c].cases = <<>>
    BY <1>1, ZenonT(40) DEF SameWait
  <1>3. OthersSame(coro, co, c)
    BY ZenonT(40) DEF OthersSame
  <1>4. /\ Shape(chan', coro', None)
        /\ chan'[h].refcount = chs[h].refcount + 1
        /\ \A g \in Chan : chan'[g].destroying = chs[g].destroying
        /\ \A g \in Chan \ {h} : chan'[g].refcount = chs[g].refcount
        /\ coro'[c].op = co[c].op /\ coro'[c].on = h
        /\ \A d \in Coro \ {c} : coro'[d].op = coro[d].op /\ coro'[d].on = coro[d].on
    BY ONLY <1>1, <1>2, <1>3, c \in Coro, v \in ValueT, side \in {"sendQ", "recvQ"},
       co \in [Coro -> CoroT],
            coro[c].op \in (IF side = "sendQ" THEN Sending ELSE Receiving), running = c,
            Shape(chs, coro, running), block(c, h, side, v, chs, co), Blocks, SMTT(40)
  <1>5. coro'[c].op # "none" /\ coro'[c].op # "select"
    BY <1>1, <1>2, <1>4, ZenonT(40) DEF Looping
  <1>6. /\ chan'[h].refcount = chan[h].refcount + 1
        /\ \A g \in Chan : chan'[g].destroying = chan[g].destroying
        /\ \A g \in Chan \ {h} : chan'[g].refcount = chan[g].refcount
    BY <1>1, <1>4, ZenonT(40) DEF SameRefs
  <1>7. RefStep(chan, coro, running, chan', coro', None)
    BY ONLY <1>1, <1>4, <1>5, <1>6, running = c, c \in Coro, RefBlocks, ZenonT(40)
  <1> QED
    BY <1>1, <1>4, <1>5, <1>7, ZenonT(40) DEF StepOK, MayLoop

\* The start of coco_channel_send_batch().
LEMMA SendBatchStep ==
    ASSUME ChanInv, NEW c \in Coro, NEW h \in Chan, coco_channel_send_batch(c, h)
    PROVE  StepOK
  <1>1. /\ coro \in [Coro -> CoroT] /\ made \in 0..program.values /\ taken \in TakenT
        /\ Shape(chan, coro, running) /\ program.values \in 0..MaxValues /\ MaxValues \in Nat /\ MaxBatch \in Nat
    BY Types, ChannelAssumption, ZenonT(40)
  <1>2. running = None /\ coro[c].op = "none" /\ MayLoop(c)
    BY Zenon DEF coco_channel_send_batch, Calls, MayLoop, Batches
  <1>3. CASE Dangling(h)
    BY <1>3, Stays, ZenonT(40) DEF coco_channel_send_batch, Crash
  <1>4. CASE ~Dangling(h)
    <2>1. PICK n \in 1..MaxBatch :
            /\ made + n <= program.values /\ made' = made + n
            /\ coro' = [Started(c, "send_batch", h) EXCEPT ![c].vals = [i \in 1..n |-> made + i]]
      BY <1>4, ZenonT(40) DEF coco_channel_send_batch
    <2>2. running' = c /\ UNCHANGED <<chan, taken>>
      BY <1>4, ZenonT(40) DEF coco_channel_send_batch
    <2>3. PICK vs : vs = [i \in 1..n |-> made + i]
      BY Zenon
    <2>4. vs \in Seq(Value)
      <3>1. \A i \in 1..n : made + i \in Value
        BY <1>1, <2>1, SMTT(40) DEF Value
      <3> QED
        BY <1>1, <2>3, <3>1, SMTT(40)
    <2>5. PICK k : k = [coro[c] EXCEPT !.op = "send_batch", !.on = h, !.vals = vs]
      BY Zenon
    <2>6. coro[c] \in CoroT /\ "send_batch" \in Plain
      BY <1>1, Zenon DEF Plain
    <2>7. /\ k \in CoroT /\ k.op = "send_batch" /\ k.on = h /\ k.waits = coro[c].waits /\ k.woken = coro[c].woken
          /\ k.timer = coro[c].timer /\ k.cases = coro[c].cases
      BY ONLY <2>4, <2>5, <2>6, h \in Chan, ZenonT(40) DEF CoroT
    <2>8. IsLooping(k)
      BY <1>2, <2>7, IdleFacts, ZenonT(40) DEF IsLooping, Looping
    <2>9. coro' = [coro EXCEPT ![c] = k]
      BY <1>1, <2>1, <2>3, <2>5, ZenonT(40) DEF Started
    <2>10. made' \in 0..program.values
      BY <1>1, <2>1, SMTT(40)
    <2>11. Shape(chan', coro, running) /\ \A g \in Chan : SameCounts(chan, chan', g)
      BY <1>1, <2>2, ZenonT(40) DEF SameCounts
    <2> QED
      BY <1>1, <1>2, <2>2, <2>8, <2>9, <2>10, <2>11, LocalStep, ZenonT(40)
  <1> QED
    BY <1>3, <1>4, ZenonT(40)

\* The start of coco_channel_recv_batch().
LEMMA RecvBatchStep ==
    ASSUME ChanInv, NEW c \in Coro, NEW h \in Chan, coco_channel_recv_batch(c, h)
    PROVE  StepOK
  <1>1. /\ coro \in [Coro -> CoroT] /\ made \in 0..program.values /\ taken \in TakenT
        /\ Shape(chan, coro, running) /\ MaxBatch \in Nat
    BY Types, ChannelAssumption, ZenonT(40)
  <1>2. running = None /\ coro[c].op = "none" /\ MayLoop(c)
    BY Zenon DEF coco_channel_recv_batch, Calls, MayLoop, Batches
  <1>3. CASE Dangling(h)
    BY <1>3, Stays, ZenonT(40) DEF coco_channel_recv_batch, Crash
  <1>4. CASE ~Dangling(h)
    <2>1. PICK n \in 1..MaxBatch : coro' = [Started(c, "recv_batch", h) EXCEPT ![c].n = n]
      BY <1>4, Zenon DEF coco_channel_recv_batch
    <2>2. running' = c /\ UNCHANGED <<chan, taken, made>>
      BY <1>4, Zenon DEF coco_channel_recv_batch
    <2>5. PICK k : k = [coro[c] EXCEPT !.op = "recv_batch", !.on = h, !.n = n]
      BY Zenon
    <2>6. coro[c] \in CoroT /\ "recv_batch" \in Plain /\ n \in Nat
      BY <1>1, SMTT(40) DEF Plain
    <2>7. /\ k \in CoroT /\ k.op = "recv_batch" /\ k.on = h /\ k.waits = coro[c].waits /\ k.woken = coro[c].woken
          /\ k.timer = coro[c].timer /\ k.cases = coro[c].cases
      BY ONLY <2>5, <2>6, h \in Chan, ZenonT(40) DEF CoroT
    <2>8. IsLooping(k)
      BY <1>2, <2>7, IdleFacts, ZenonT(40) DEF IsLooping, Looping
    <2>9. coro' = [coro EXCEPT ![c] = k]
      BY <1>1, <2>1, <2>5, ZenonT(40) DEF Started
    <2>11. Shape(chan', coro, running) /\ \A g \in Chan : SameCounts(chan, chan', g)
      BY <1>1, <2>2, ZenonT(40) DEF SameCounts
    <2> QED
      BY <1>1, <1>2, <2>2, <2>8, <2>9, <2>11, LocalStep, ZenonT(40)
  <1> QED
    BY <1>3, <1>4, Zenon

\* A slice of a sequence.
LEMMA SubSeqMid ==
    ASSUME NEW S, NEW q \in Seq(S), NEW m \in Nat, NEW k \in Nat, NEW n, n = m + k, n <= Len(q)
    PROVE  SubSeq(q, m + 1, n) \in Seq(S) /\ Len(SubSeq(q, m + 1, n)) = k
  OBVIOUS

\* A round of the loop of coco_channel_send_batch().
LEMMA SendBatchLoopStep ==
    ASSUME Library, ChanInv, NEW c \in Coro, send_batch_loop(c)
    PROVE  StepOK
  <1>1. /\ coro \in [Coro -> CoroT] /\ made \in 0..program.values /\ taken \in TakenT
        /\ Shape(chan, coro, running) /\ chan \in [Chan -> ChanT] /\ BufOK(chan)
    BY Types, Zenon
  <1>2. PICK h, vals, sent : h = coro[c].on /\ vals = coro[c].vals /\ sent = coro[c].cnt
    BY Zenon
  <1>3. running = c /\ coro[c].op = "send_batch" /\ made' = made
    BY Zenon DEF send_batch_loop, Loops
  <1>4. h \in Chan
    BY <1>2, <1>3, RunningFacts, ZenonT(40)
  <1>5. vals \in Seq(Value) /\ sent \in Nat /\ Len(vals) \in Nat /\ \A i \in 1..Len(vals) : vals[i] \in ValueT
    BY <1>1, <1>2, CoroFields, SMTT(40) DEF ValueT
  <1>6. chan[h].buf \in Seq(ValueT) /\ Len(chan[h].buf) \in Nat /\ Capacity[h] \in Nat /\ Len(chan[h].buf) <= Capacity[h]
    BY <1>1, <1>4, ChanFields, ChannelAssumption, SMTT(40) DEF BufOK
  <1>7. \A d \in Coro : SameWait(coro[d], coro[d])
    BY Zenon DEF SameWait
  <1>8. CASE sent = Len(vals) /\ SentBatch(c, sent, coro) /\ UNCHANGED <<chan, taken>>
    <2>1. coro' = Returned(coro, c) /\ running' = None
      BY <1>8, Zenon DEF SentBatch
    <2>2. Shape(chan', coro, running) /\ \A g \in Chan : SameCounts(chan, chan', g)
      BY <1>1, <1>8, ZenonT(40) DEF SameCounts
    <2>3. made' \in 0..program.values /\ taken' \in TakenT
      BY <1>1, <1>3, <1>8, ZenonT(40)
    <2> QED
      BY ONLY <1>1, <1>3, <1>7, <2>1, <2>2, <2>3, ChanInv, c \in Coro, LoopReturns, ZenonT(40)
  <1>9. CASE sent < Len(vals) /\ to_receiver(h, vals[sent + 1], chan, [coro EXCEPT ![c].cnt = @ + 1]) /\ UNCHANGED running
    <2>0. PICK n : n = sent + 1
      BY Zenon
    <2>1. PICK co, v : co = [coro EXCEPT ![c].cnt = n] /\ v = vals[sent + 1]
      BY Zenon
    <2>2. n \in Nat /\ v \in ValueT
      BY <1>5, <1>9, <2>0, <2>1, SMTT(40)
    <2>3. Shape(chan, co, running) /\ SameRefs(chan, coro, chan, co)
      <3>1. Shape(chan, coro, running)
        BY <1>1, Zenon
      <3>2. PICK r : r = [coro[c] EXCEPT !.cnt = n]
        BY Zenon
      <3>3. coro[c] \in CoroT /\ n \in Nat
        BY <1>1, <2>1, <2>2, ZenonT(40)
      <3>4. r \in CoroT /\ SameWait(coro[c], r)
        BY ONLY <3>2, <3>3, ZenonT(40) DEF CoroT, SameWait
      <3>5. co = [coro EXCEPT ![c] = r]
        BY <3>2, <2>1, <2>2, ZenonT(40)
      <3> QED
        BY ONLY <3>1, <3>4, <3>5, c \in Coro, SetLocal, ZenonT(30)
    <2>4. to_receiver(h, v, chan, co)
      BY <1>1, <1>2, <1>9, <2>0, <2>1, ZenonT(40)
    <2>5. Shape(chan', coro', running) /\ SameRefs(chan, co, chan', coro') /\ taken' \in TakenT
      BY ONLY Library, <1>1, <1>4, <2>2, <2>3, <2>4, ToReceiver, ZenonT(40)
    <2> QED
      BY <1>1, <1>3, <1>9, <2>3, <2>5, SameStep, ZenonT(40)
  <1>10. PICK k : k = IF Len(vals) - sent < Capacity[h] - Len(chan[h].buf)
                      THEN Len(vals) - sent ELSE Capacity[h] - Len(chan[h].buf)
    BY Zenon
  <1>13. PICK upto : upto = sent + k
    BY Zenon
  <1>11. PICK new, b, filled, co : /\ new = SubSeq(vals, sent + 1, upto) /\ b = chan[h].buf \o new
                                   /\ filled = [chan EXCEPT ![h].buf = b] /\ co = [coro EXCEPT ![c].cnt = upto]
    BY Zenon
  <1>12. CASE /\ sent < Len(vals)
              /\ IF upto = Len(vals)
                 THEN chan' = filled /\ coro' = co /\ UNCHANGED <<running, confirmed>>
                 ELSE IF Refused(c, h)
                 THEN chan' = filled /\ SentBatch(c, upto, co)
                 ELSE /\ block(c, h, "sendQ", vals[upto + 1], filled, co)
                      /\ running' = None
                      /\ UNCHANGED confirmed
              /\ UNCHANGED taken
    <2>0. sent < Len(vals)
      BY <1>12, ZenonT(40)
    <2>1. k \in Nat /\ upto <= Len(vals) /\ upto \in Nat /\ k <= Capacity[h] - Len(chan[h].buf)
      <3>1. PICK l, u, m : l = Len(vals) /\ u = Capacity[h] /\ m = Len(chan[h].buf)
        BY Zenon
      <3>2. l \in Nat /\ u \in Nat /\ m \in Nat /\ sent \in Nat /\ sent < l /\ m <= u
        BY <1>5, <1>6, <2>0, <3>1, ZenonT(40)
      <3>3. k = (IF l - sent < u - m THEN l - sent ELSE u - m) /\ upto = sent + k
        BY <1>10, <1>13, <3>1, ZenonT(40)
      <3>4. k \in Nat /\ upto <= l /\ upto \in Nat /\ k <= u - m
        BY ONLY <3>2, <3>3, SMTT(40)
      <3> QED
        BY <3>1, <3>4, ZenonT(40)
    <2>2. new \in Seq(ValueT) /\ Len(new) = k
      <3>1. new \in Seq(Value) /\ Len(new) = k
        BY ONLY <1>5, <1>11, <1>13, <2>1, SubSeqMid, SMTT(40)
      <3> QED
        BY <3>1, SMTT(40) DEF ValueT
    <2>3. b \in Seq(ValueT) /\ Len(b) <= Capacity[h]
      <3>1. PICK o : o = chan[h].buf
        BY Zenon
      <3>2. o \in Seq(ValueT) /\ new \in Seq(ValueT) /\ b = o \o new
        BY <1>6, <1>11, <2>2, <3>1, ZenonT(40)
      <3>3. b \in Seq(ValueT) /\ Len(b) = Len(o) + Len(new)
        BY ONLY <3>2, SMTT(40)
      <3> QED
        BY ONLY <1>6, <2>1, <2>2, <3>1, <3>3, SMTT(40)
    <2>4. Shape(filled, coro, running) /\ SameRefs(chan, coro, filled, coro)
      BY ONLY <1>1, <1>4, <1>11, <2>3, SetBuf, ZenonT(40)
    <2>5. /\ Shape(chan, co, running) /\ SameRefs(chan, coro, chan, co) /\ co \in [Coro -> CoroT]
          /\ \A d \in Coro : SameWait(coro[d], co[d])
          /\ \A d \in Coro \ {c} : co[d] = coro[d]
      <3>1. Shape(chan, coro, running)
        BY <1>1, Zenon
      <3>2. PICK r : r = [coro[c] EXCEPT !.cnt = upto]
        BY Zenon
      <3>3. coro[c] \in CoroT /\ upto \in Nat
        BY <1>1, <1>11, <2>1, ZenonT(40)
      <3>4. r \in CoroT /\ SameWait(coro[c], r)
        BY ONLY <3>2, <3>3, Zenon DEF CoroT, SameWait
      <3>5. co = [coro EXCEPT ![c] = r]
        BY <3>2, <1>11, <2>1, ZenonT(40)
      <3>6. Shape(chan, co, running) /\ SameRefs(chan, coro, chan, co)
        BY ONLY <3>1, <3>4, <3>5, c \in Coro, SetLocal, Zenon
      <3>7. \A d \in Coro : SameWait(coro[d], co[d])
        BY ONLY <3>1, <3>4, <3>5, c \in Coro, SetLocal, ZenonT(40)
      <3>8. co \in [Coro -> CoroT] /\ \A d \in Coro \ {c} : co[d] = coro[d]
        BY <1>1, <3>4, <3>5, ZenonT(40)
      <3> QED
        BY <3>6, <3>7, <3>8, ZenonT(40)
    <2>10. Shape(filled, co, running) /\ SameRefs(chan, co, filled, co)
      BY ONLY <1>4, <1>11, <2>3, <2>5, SetBuf, ZenonT(40)
    <2>6. made' \in 0..program.values /\ taken' \in TakenT
      BY <1>1, <1>3, <1>12, ZenonT(40)
    <2>7. CASE chan' = filled /\ coro' = co /\ UNCHANGED running
      BY <2>5, <2>6, <2>7, <2>10, SameStep, ZenonT(40)
    <2>8. CASE chan' = filled /\ SentBatch(c, upto, co)
      <3>1. coro' = Returned(co, c) /\ running' = None
        BY <2>8, Zenon DEF SentBatch
      <3>2. Shape(chan', coro, running) /\ \A g \in Chan : SameCounts(chan, chan', g)
        BY <2>4, <2>8, ZenonT(40) DEF SameCounts, SameRefs
      <3> QED
        BY ONLY <1>3, <2>5, <2>6, <3>1, <3>2, ChanInv, c \in Coro, LoopReturns, ZenonT(40)
    <2>9. CASE upto # Len(vals) /\ block(c, h, "sendQ", vals[upto + 1], filled, co) /\ running' = None
      <3>1. PICK v : v = vals[upto + 1]
        BY Zenon
      <3>2. v \in ValueT /\ block(c, h, "sendQ", v, filled, co)
        BY <1>5, <2>1, <2>9, <3>1, SMTT(40)
      <3>3. coro[c].op \in Sending /\ running' = None
        BY <1>3, <2>9, ZenonT(40) DEF Sending
      <3> QED
        BY ONLY <1>2, <1>3, <2>4, <2>5, <2>6, <3>2, <3>3, ChanInv, c \in Coro, LoopBlocks,
           ZenonT(40)
    <2> QED
      BY <1>12, <2>7, <2>8, <2>9, ZenonT(40)
  <1> QED
    BY <1>2, <1>8, <1>9, <1>10, <1>11, <1>12, <1>13, ZenonT(40) DEF send_batch_loop

\* coco_channel_send_batch() goes on after its coco_yield().
LEMMA ResumeSendBatchStep ==
    ASSUME ChanInv, NEW c \in Coro, resume_send_batch(c)
    PROVE  StepOK
  <1>1. running = None /\ coro[c].op = "send_batch" /\ coro[c].woken > 0 /\ coro[c].op \in Plain /\ MayLoop(c)
    BY Zenon DEF resume_send_batch, Resumes, Plain, MayLoop, Looping
  <1>2. CASE UsesFreed(c, TRUE)
    BY <1>2, Stays, ZenonT(40) DEF resume_send_batch, Crash
  <1>3. CASE ~UsesFreed(c, TRUE) /\ GivesUp(c)
    <2>1. chan' = coco_channel_unref(coro[c].on) /\ SentBatch(c, coro[c].cnt, Scheduled(c)) /\ UNCHANGED <<made, taken>>
      BY <1>3, ZenonT(40) DEF resume_send_batch
    <2> QED
      BY <1>1, <2>1, ResumeReturns, ZenonT(40) DEF SentBatch
  <1>4. CASE ~UsesFreed(c, TRUE) /\ ~GivesUp(c)
    <2>1. PICK n : n = IF Capacity[coro[c].on] = 0 THEN coro[c].cnt + 1 ELSE coro[c].cnt
      BY Zenon
    <2>2. /\ Scheduled(c) \in [Coro -> CoroT] /\ Scheduled(c)[c] \in CoroT
          /\ \A d \in Coro \ {c} : Scheduled(c)[d] = coro[d]
          /\ Scheduled(c)[c].waits = None /\ Scheduled(c)[c].woken = 0 /\ ~Scheduled(c)[c].timer
          /\ Scheduled(c)[c].cases = <<>> /\ Scheduled(c)[c].on = coro[c].on
          /\ Scheduled(c)[c].op = coro[c].op /\ Scheduled(c)[c].cnt = coro[c].cnt
      BY ONLY <1>1, ChanInv, c \in Coro, ScheduledFacts, ZenonT(40)
    <2>3. /\ chan' = coco_channel_unref(coro[c].on) /\ UNCHANGED <<made, taken>> /\ running' = c
          /\ coro' = [Scheduled(c) EXCEPT ![c].cnt = n]
      BY <1>4, <2>1, <2>2, ZenonT(40) DEF resume_send_batch
    <2>4. PICK r : r = Scheduled(c)[c]
      BY Zenon
    <2>5. PICK k : k = [r EXCEPT !.cnt = n]
      BY ZenonT(40)
    <2>6. r \in CoroT /\ n \in Nat /\ coro \in [Coro -> CoroT] /\ coro[c].on \in Chan
      BY <1>1, <2>1, <2>2, <2>4, Types, CoroFields, ResumedFacts, SMTT(40)
    <2>7. /\ k \in CoroT /\ k.op = r.op /\ k.on = r.on /\ k.waits = r.waits /\ k.woken = r.woken
          /\ k.timer = r.timer /\ k.cases = r.cases
      <3>1. r \in CoroT /\ n \in Nat
        BY <2>6, ZenonT(40)
      <3> QED
        BY ONLY <2>5, <3>1, ZenonT(40) DEF CoroT
    <2>8. coro' = [coro EXCEPT ![c] = k]
      BY <2>2, <2>3, <2>4, <2>5, <2>6, ZenonT(40)
    <2>9. IsLooping(k)
      BY <1>1, <2>2, <2>4, <2>6, <2>7, ZenonT(40) DEF IsLooping, Looping
    <2> QED
      BY <1>1, <2>3, <2>8, <2>9, UnrefStep, ZenonT(40)
  <1> QED
    BY <1>2, <1>3, <1>4, ZenonT(40)

\* coco_channel_recv_batch() blocks.
LEMMA BlockRecvBatch ==
    ASSUME ChanInv, NEW c \in Coro, running = c, coro[c].op \in Receiving, block_recv_batch(c), made' = made
    PROVE  StepOK
  <1>1. /\ coro \in [Coro -> CoroT] /\ made' \in 0..program.values /\ taken' \in TakenT
        /\ Shape(chan, coro, running) /\ SameRefs(chan, coro, chan, coro) /\ running' = None
        /\ \A d \in Coro : SameWait(coro[d], coro[d])
    BY Types, Reflexive, ZenonT(40) DEF block_recv_batch, SameWait
  <1>2. CASE Drained(coro[c].on) \/ Refused(c, coro[c].on)
    <2>1. coro' = Returned(coro, c) /\ UNCHANGED chan
      BY <1>2, ZenonT(40) DEF block_recv_batch
    <2>2. Shape(chan', coro, running) /\ \A g \in Chan : SameCounts(chan, chan', g)
      BY <1>1, <2>1, ZenonT(40) DEF SameCounts
    <2> QED
      BY ONLY <1>1, <2>1, <2>2, ChanInv, c \in Coro, running = c, LoopReturns, ZenonT(40)
  <1>3. CASE ~(Drained(coro[c].on) \/ Refused(c, coro[c].on))
    <2>1. PICK h : h = coro[c].on
      BY Zenon
    <2>2. block(c, h, "recvQ", None, chan, coro) /\ None \in ValueT
      BY <1>3, <2>1, ZenonT(40) DEF block_recv_batch, ValueT
    <2> QED
      BY ONLY <1>1, <2>1, <2>2, ChanInv, c \in Coro, running = c, coro[c].op \in Receiving,
         LoopBlocks, ZenonT(40)
  <1> QED
    BY <1>2, <1>3, ZenonT(40)

\* coco_channel_recv_batch() blocks for the rest of its values.
LEMMA RecvBatchMoreStep ==
    ASSUME ChanInv, NEW c \in Coro, recv_batch_more(c)
    PROVE  StepOK
  <1>1. running = c /\ coro[c].op \in Receiving /\ block_recv_batch(c) /\ made' = made
    BY Zenon DEF recv_batch_more, Loops, Receiving
  <1> QED
    BY <1>1, BlockRecvBatch, ZenonT(40)

\* coco_channel_recv_batch() goes on after its coco_yield().
LEMMA ResumeRecvBatchStep ==
    ASSUME ChanInv, NEW c \in Coro, resume_recv_batch(c)
    PROVE  StepOK
  <1>1. running = None /\ coro[c].op \in {"recv_batch", "recv_batch_more"} /\ coro[c].woken > 0 /\ coro[c].op \in Plain /\ MayLoop(c)
    BY Zenon DEF resume_recv_batch, Resumes, Plain, MayLoop, Looping
  <1>5. PICK me : me = coro[c]
    BY ZenonT(40)
  <1>6. PICK more : more = (me.op = "recv_batch_more")
    BY Zenon
  <1>7. PICK got : got = IF more /\ me.value = None THEN <<>> ELSE <<me.value>>
    BY Zenon
  <1>2. /\ me = coro[c] /\ more = (me.op = "recv_batch_more")
        /\ got = IF more /\ me.value = None THEN <<>> ELSE <<me.value>>
    BY <1>5, <1>6, <1>7, ZenonT(40)
  <1>3. CASE UsesFreed(c, ~more \/ me.cnt + Len(got) < me.n)
    BY <1>2, <1>3, Stays, ZenonT(40) DEF resume_recv_batch, Crash
  <1>4. CASE ~UsesFreed(c, ~more \/ me.cnt + Len(got) < me.n)
    <2>0. /\ chan' = coco_channel_unref(coro[c].on) /\ UNCHANGED <<made, taken>>
          /\ \/ coro' = Returned(Scheduled(c), c) /\ UNCHANGED running
             \/ /\ coro' = [Scheduled(c) EXCEPT ![c].op = "recv_batch", ![c].cnt = @ + Len(got)]
                /\ running' = c
      BY <1>2, <1>4, ZenonT(40) DEF resume_recv_batch
    <2>1. CASE coro' = Returned(Scheduled(c), c) /\ UNCHANGED running
      BY <1>1, <2>0, <2>1, ResumeReturns, ZenonT(40)
    <2>2. CASE coro' = [Scheduled(c) EXCEPT ![c].op = "recv_batch", ![c].cnt = @ + Len(got)] /\ running' = c
      <3>1. PICK n : n = coro[c].cnt + Len(got)
        BY Zenon
      <3>2. /\ Scheduled(c) \in [Coro -> CoroT] /\ Scheduled(c)[c] \in CoroT
            /\ \A d \in Coro \ {c} : Scheduled(c)[d] = coro[d]
            /\ Scheduled(c)[c].waits = None /\ Scheduled(c)[c].woken = 0 /\ ~Scheduled(c)[c].timer
            /\ Scheduled(c)[c].cases = <<>> /\ Scheduled(c)[c].on = coro[c].on
            /\ Scheduled(c)[c].op = coro[c].op /\ Scheduled(c)[c].cnt = coro[c].cnt
        BY ONLY <1>1, ChanInv, c \in Coro, ScheduledFacts, ZenonT(40)
      <3>3. coro' = [Scheduled(c) EXCEPT ![c].op = "recv_batch", ![c].cnt = n]
        BY <2>2, <3>1, <3>2, ZenonT(40)
      <3>4. PICK r : r = Scheduled(c)[c]
        BY Zenon
      <3>5. PICK k : k = [r EXCEPT !.op = "recv_batch", !.cnt = n]
        BY ZenonT(40)
      <3>6. r \in CoroT /\ n \in Nat /\ coro \in [Coro -> CoroT] /\ coro[c].on \in Chan /\ "recv_batch" \in Plain
        BY <1>1, <1>2, <3>1, <3>2, <3>4, Types, CoroFields, ResumedFacts, SMTT(40) DEF Plain
      <3>7. /\ k \in CoroT /\ k.op = "recv_batch" /\ k.on = r.on /\ k.waits = r.waits /\ k.woken = r.woken
            /\ k.timer = r.timer /\ k.cases = r.cases
        <4>1. r \in CoroT /\ n \in Nat /\ "recv_batch" \in Plain
          BY <3>6, ZenonT(40)
        <4> QED
          BY ONLY <3>5, <4>1, ZenonT(40) DEF CoroT
      <3>8. coro' = [coro EXCEPT ![c] = k]
        BY <3>2, <3>3, <3>4, <3>5, <3>6, ZenonT(40)
      <3>9. IsLooping(k)
        BY <1>1, <3>2, <3>4, <3>6, <3>7, ZenonT(40) DEF IsLooping, Looping
      <3> QED
        BY <1>1, <2>0, <2>2, <3>8, <3>9, UnrefStep, ZenonT(40)
    <2> QED
      BY <2>0, <2>1, <2>2, ZenonT(40)
  <1> QED
    BY <1>3, <1>4, ZenonT(40)

\* A round of the loop of coco_channel_recv_batch().
LEMMA RecvBatchLoopStep ==
    ASSUME Library, ChanInv, NEW c \in Coro, recv_batch_loop(c)
    PROVE  StepOK
  <1>1. /\ coro \in [Coro -> CoroT] /\ made \in 0..program.values /\ taken \in TakenT
        /\ Shape(chan, coro, running) /\ chan \in [Chan -> ChanT]
    BY Types, ZenonT(40)
  <1>2. PICK h, cnt : h = coro[c].on /\ cnt = coro[c].cnt
    BY Zenon
  <1>3. running = c /\ coro[c].op = "recv_batch" /\ made' = made
    BY Zenon DEF recv_batch_loop, Loops
  <1>4. h \in Chan /\ coro[c].on = h
    BY <1>2, <1>3, RunningFacts, ZenonT(40)
  <1>5. cnt \in Nat /\ coro[c].n \in Nat /\ chan[h].buf \in Seq(ValueT) /\ Len(chan[h].buf) \in Nat
    BY <1>1, <1>2, <1>4, CoroFields, ChanFields, SMTT(40)
  <1>6. PICK need : need = coro[c].n - cnt
    BY Zenon
  <1>7. PICK k : k = IF need < Len(chan[h].buf) THEN need ELSE Len(chan[h].buf)
    BY Zenon
  <1>8. made' \in 0..program.values
    BY <1>1, <1>3, ZenonT(40)
  <1>9. CASE coro' = Returned(coro, c) /\ running' = None /\ UNCHANGED <<chan, taken>>
    <2>1. \A d \in Coro : SameWait(coro[d], coro[d])
      BY Zenon DEF SameWait
    <2>2. Shape(chan', coro, running) /\ taken' \in TakenT /\ \A g \in Chan : SameCounts(chan, chan', g)
      BY <1>1, <1>9, ZenonT(40) DEF SameCounts
    <2> QED
      BY ONLY <1>1, <1>3, <1>8, <1>9, <2>1, <2>2, ChanInv, c \in Coro, LoopReturns, ZenonT(40)
  <1>10. CASE /\ need > 0 /\ k > 0 /\ UNCHANGED running
              /\ from_buffer(h, k, [coro EXCEPT ![c].cnt = @ + k,
                                                ![c].op = IF k < need THEN "recv_batch_more" ELSE @])
    <2>1. k \in 1..Len(chan[h].buf)
      BY ONLY <1>5, <1>6, <1>7, <1>10, SMTT(40)
    <2>2. PICK n, op : n = cnt + k /\ op = IF k < need THEN "recv_batch_more" ELSE "recv_batch"
      BY ZenonT(40)
    <2>3. n \in Nat /\ op \in {"recv_batch", "recv_batch_more"} /\ op \in Plain
      BY <1>5, <2>1, <2>2, SMTT(40) DEF Plain
    <2>4. PICK r : r = [coro[c] EXCEPT !.cnt = n, !.op = op]
      BY Zenon
    <2>5. coro[c] \in CoroT
      BY <1>1, ZenonT(40)
    <2>6. /\ r \in CoroT /\ r.op = op /\ r.on = coro[c].on /\ r.waits = coro[c].waits /\ r.woken = coro[c].woken
          /\ r.timer = coro[c].timer /\ r.cases = coro[c].cases
      BY ONLY <2>3, <2>4, <2>5, ZenonT(40) DEF CoroT
    <2>7. PICK co : co = [coro EXCEPT ![c] = r]
      BY Zenon
    <2>8. from_buffer(h, k, co)
      BY <1>1, <1>2, <1>3, <1>10, <2>2, <2>4, <2>7, ZenonT(40)
    <2>9. co \in [Coro -> CoroT] /\ co[c] = r /\ \A d \in Coro \ {c} : co[d] = coro[d]
      BY <1>1, <2>6, <2>7, ZenonT(40)
    <2>10. IsLooping(r)
      BY <1>3, <1>4, <2>3, <2>6, RunningFacts, ZenonT(40) DEF IsLooping, Looping
    <2>11. Shape(chan, co, running)
      <3>1. CoroOK(co[c], running = c) /\ co[c].waits = None /\ ~Undecided(co[c])
        BY <1>3, <2>9, <2>10, IdleOrLooping, ZenonT(40)
      <3>2. coro[c].waits = None /\ ~Undecided(coro[c]) /\ running \in Coro \cup {None}
        BY <1>3, RunningFacts, ZenonT(40)
      <3>3. OthersSame(coro, co, c)
        BY <2>9, ZenonT(40) DEF OthersSame, SameWait
      <3> QED
        BY ONLY <1>1, <2>9, <3>1, <3>2, <3>3, c \in Coro, ShapeSelf, ZenonT(30)
    <2>12. \A s \in Coro : coro[s].cases = co[s].cases
      BY <2>6, <2>9, ZenonT(40)
    <2>13. Shape(chan', coro', running) /\ SameRefs(chan, co, chan', coro') /\ taken' \in TakenT
      BY ONLY Library, <1>1, <1>4, <2>1, <2>8, <2>11, <2>12, FromBuffer, ZenonT(40)
    <2>14. RefStep(chan, coro, running, chan', coro', running')
      <3>1. /\ \A g \in Chan : SameCounts(chan, chan', g)
            /\ \A d \in Coro \ {c} : coro'[d].op = coro[d].op /\ coro'[d].on = coro[d].on
        BY <2>9, <2>13, ZenonT(40) DEF SameRefs, SameCounts
      <3> QED
        BY <1>3, <1>10, <3>1, RefLocal, ZenonT(40)
    <2>15. \A d \in Coro : coro'[d].op = "select" => coro[d].op = "select"
      BY <2>3, <2>6, <2>9, <2>13, ZenonT(40) DEF SameRefs
    <2>16. \A d \in Coro : coro'[d].op \in Looping => MayLoop(d)
      BY <1>3, <2>9, <2>13, ZenonT(40) DEF SameRefs, MayLoop, Looping
    <2> QED
      BY <1>8, <1>10, <2>13, <2>14, <2>15, <2>16, ZenonT(40) DEF StepOK
  <1>11. CASE from_sender(h, [coro EXCEPT ![c].cnt = @ + 1]) /\ UNCHANGED running
    <2>1. PICK n : n = cnt + 1
      BY Zenon
    <2>2. PICK co : co = [coro EXCEPT ![c].cnt = n]
      BY Zenon
    <2>3. n \in Nat
      BY <1>5, <2>1, SMTT(40)
    <2>4. /\ Shape(chan, co, running) /\ SameRefs(chan, coro, chan, co)
          /\ \A d \in Coro : SameWait(coro[d], co[d])
      <3>1. Shape(chan, coro, running)
        BY <1>1, ZenonT(40)
      <3>2. PICK r : r = [coro[c] EXCEPT !.cnt = n]
        BY Zenon
      <3>3. coro[c] \in CoroT /\ n \in Nat
        BY <1>1, <2>2, <2>3, ZenonT(40)
      <3>4. r \in CoroT /\ SameWait(coro[c], r)
        BY ONLY <3>2, <3>3, Zenon DEF CoroT, SameWait
      <3>5. co = [coro EXCEPT ![c] = r]
        BY <3>2, <2>2, <2>3, ZenonT(40)
      <3> QED
        BY ONLY <3>1, <3>4, <3>5, c \in Coro, SetLocal, ZenonT(30)
    <2>5. from_sender(h, co)
      BY <1>1, <1>2, <1>11, <2>1, <2>2, ZenonT(40)
    <2>6. \A s \in Coro : coro[s].cases = co[s].cases
      BY <2>4, ZenonT(40) DEF SameWait
    <2>7. Shape(chan', coro', running) /\ SameRefs(chan, co, chan', coro') /\ taken' \in TakenT
      BY ONLY Library, <1>1, <1>4, <2>4, <2>5, <2>6, FromSender, ZenonT(40)
    <2> QED
      BY <1>8, <1>11, <2>4, <2>7, SameStep, ZenonT(40)
  <1>12. CASE block_recv_batch(c)
    BY <1>3, <1>12, BlockRecvBatch, ZenonT(40) DEF Receiving
  <1> QED
    BY <1>2, <1>6, <1>7, <1>9, <1>10, <1>11, <1>12, ZenonT(40) DEF recv_batch_loop

-----------------------------------------------------------------------------
(* Select.                                                                 *)

\* The timer of a select.
LEMMA TimeoutStep ==
    ASSUME Library, ChanInv, NEW c \in Coro, select_timeout_cb(c)
    PROVE  StepOK
  <1>1. /\ Shape(chan, coro, running) /\ made \in 0..program.values /\ taken \in TakenT /\ coro \in [Coro -> CoroT]
    BY Types, ZenonT(40)
  <1>2. CoroOK(coro[c], running = c) /\ coro[c].timer
    BY Zenon DEF select_timeout_cb, ChanInv, Shape
  <1>3. Undecided(coro[c])
    BY ONLY <1>2, ZenonT(40) DEF CoroOK, Undecided
  <1>4. chan' = select_dequeue_all(chan, c) /\ coro' = Resolved(coro, c, TIMEOUT) /\ UNCHANGED <<running, made, taken>>
    BY Zenon DEF select_timeout_cb
  <1>5. TIMEOUT \in Int /\ TIMEOUT # PENDING
    BY DEF TIMEOUT, PENDING
  <1>6. Shape(chan', coro', running) /\ SameRefs(chan, coro, chan', coro')
    <2>1. PICK i : i = TIMEOUT
      BY Zenon
    <2>2. i \in Int /\ i # PENDING /\ coro' = Resolved(coro, c, i)
      BY <1>4, <1>5, <2>1, ZenonT(40)
    <2> QED
      BY ONLY Library, <1>1, <1>3, <1>4, <2>2, c \in Coro, ResolveOne, ZenonT(40)
  <1> QED
    BY <1>1, <1>4, <1>6, SameStep, Reflexive, ZenonT(40)

\* The rest of coco_channel_select().
LEMMA ResumeSelectStep ==
    ASSUME ChanInv, NEW c \in Coro, resume_select(c)
    PROVE  StepOK
  <1>1. /\ Shape(chan, coro, running) /\ made \in 0..program.values /\ taken \in TakenT /\ coro \in [Coro -> CoroT]
        /\ None \notin Chan /\ None \notin Coro
    BY Types, ChannelAssumption, ZenonT(40)
  <1>2. running = None /\ coro[c].op = "select" /\ coro[c].woken > 0 /\ CoroOK(coro[c], running = c)
    BY ZenonT(40) DEF resume_select, Resumes, ChanInv, Shape
  <1>3. ~Undecided(coro[c]) /\ coro[c].waits = None /\ coro[c].on = None /\ coro[c].woken = 1
    BY ONLY <1>2, SMTT(40) DEF CoroOK, Undecided, Plain
  <1>4. CASE UNCHANGED <<chan, coro, running, made, taken>>
    BY <1>4, Stays, ZenonT(40)
  <1>5. CASE /\ coro' = Returned([Scheduled(c) EXCEPT ![c].cases = <<>>, ![c].ready = PENDING, ![c].timer = FALSE], c)
             /\ UNCHANGED <<chan, running, made, taken>>
    <2>1. PICK r0 : r0 = [coro[c] EXCEPT !.woken = 0]
      BY Zenon
    <2>2. <<>> \in Seq(CaseT) /\ PENDING \in Int
      BY DEF PENDING
    <2>21. coro[c] \in CoroT
      BY <1>1, ZenonT(40)
    <2>3. /\ r0 \in CoroT /\ r0.waits = coro[c].waits /\ r0.timer = coro[c].timer /\ r0.cases = coro[c].cases
          /\ r0.woken = 0 /\ r0.on = coro[c].on /\ r0.op = coro[c].op /\ r0.cnt = coro[c].cnt
      <3>1. PICK k0 : k0 = coro[c]
        BY Zenon
      <3>2. k0 \in CoroT
        BY <2>21, <3>1, ZenonT(40)
      <3>3. r0 = [k0 EXCEPT !.woken = 0]
        BY <2>1, <3>1, ZenonT(40)
      <3>4. /\ r0.waits = k0.waits /\ r0.timer = k0.timer /\ r0.cases = k0.cases
            /\ r0.woken = 0 /\ r0.on = k0.on /\ r0.op = k0.op /\ r0.cnt = k0.cnt
        BY ONLY <3>2, <3>3, ZenonT(40) DEF CoroT
      <3>5. r0 \in CoroT
        BY ONLY <3>2, <3>3, SMTT(40) DEF CoroT
      <3> QED
        BY ONLY <3>1, <3>4, <3>5, Zenon
    <2>30. r0 \in CoroT
      BY <2>3, ZenonT(40)
    <2>31. PICK r : r = [r0 EXCEPT !.cases = <<>>, !.ready = PENDING, !.timer = FALSE]
      BY Zenon
    <2>32. r \in CoroT /\ r.waits = r0.waits /\ r.woken = r0.woken /\ r.timer = FALSE /\ r.cases = <<>>
      BY ONLY <2>2, <2>30, <2>31, ZenonT(40) DEF CoroT
    <2>4. PICK co : co = [coro EXCEPT ![c] = r]
      BY Zenon
    <2>5. co \in [Coro -> CoroT] /\ co[c] = r /\ \A d \in Coro \ {c} : co[d] = coro[d]
      BY <1>1, <2>32, <2>4, ZenonT(40)
    <2>6. coro' = Returned(co, c)
      <3>1. PICK s : s = Scheduled(c)
        BY Zenon
      <3>2. s = [coro EXCEPT ![c] = r0]
        <4>1. coro[c].woken - 1 = 0
          BY <1>3, SMTT(40)
        <4> QED
          BY <2>1, <3>1, <4>1, ZenonT(40) DEF Scheduled
      <3>3. s[c] = r0 /\ s \in [Coro -> CoroT]
        BY <1>1, <2>3, <3>2, ZenonT(40)
      <3>4. [s EXCEPT ![c].cases = <<>>, ![c].ready = PENDING, ![c].timer = FALSE] = [s EXCEPT ![c] = r]
        BY <2>31, <3>3, ZenonT(40)
      <3>5. [s EXCEPT ![c] = r] = co
        BY <1>1, <2>4, <3>2, ZenonT(40)
      <3> QED
        BY <1>5, <3>1, <3>4, <3>5, ZenonT(40)
    <2>7. PICK k : IsIdle(k) /\ coro' = [co EXCEPT ![c] = k]
      BY <1>3, <2>3, <2>32, <2>5, <2>6, ReturnedIdle, ZenonT(40)
    <2>8. /\ coro' \in [Coro -> CoroT] /\ coro'[c] = k /\ \A d \in Coro \ {c} : coro'[d] = coro[d]
      BY <2>5, <2>7, ZenonT(40) DEF IsIdle
    <2>9. /\ CoroOK(k, running' = c) /\ k.waits = None /\ ~Undecided(k) /\ k.op # "select" /\ k.op = "none"
      <3>1. (running' = c) = FALSE
        BY <1>1, <1>2, <1>5, ZenonT(40)
      <3> QED
        BY <2>7, <3>1, IdleOrLooping, ZenonT(40) DEF IsIdle
    <2>10. OthersSame(coro, coro', c) /\ \A d \in Coro \ {c} : running = d <=> running' = d
      BY <1>5, <2>8, ZenonT(40) DEF OthersSame, SameWait
    <2>11. Shape(chan', coro, running) /\ running' \in Coro \cup {None} /\ \A g \in Chan : SameCounts(chan, chan', g)
      BY <1>1, <1>2, <1>5, ZenonT(40) DEF SameCounts
    <2>12. Shape(chan', coro', running')
      BY ONLY <1>3, <2>8, <2>9, <2>10, <2>11, c \in Coro, ShapeSelf, ZenonT(40)
    <2>13. RefStep(chan, coro, running, chan', coro', running')
      BY <1>1, <1>3, <2>8, <2>9, <2>10, <2>11, RefLocal, ZenonT(40)
    <2> QED
      BY <1>1, <1>5, <2>8, <2>9, <2>12, <2>13, ZenonT(40) DEF StepOK, MayLoop, Looping
  <1> QED
    BY <1>4, <1>5, ZenonT(40) DEF resume_select, Crash

\* No case of a select is ready: it registers them all.
LEMMA RegisterStep ==
    ASSUME Library, ChanInv, NEW c \in Coro, NEW cs \in Seq(CaseT), \A i \in 1..Len(cs) : cs[i].on \in Chan,
           running = None, coro[c].op = "none", "select" \in program.ops,
           select_register(c, cs), running' = running, made' \in 0..program.values
    PROVE  StepOK
  <1>1. /\ Shape(chan, coro, None) /\ taken \in TakenT /\ coro \in [Coro -> CoroT] /\ chan \in [Chan -> ChanT]
        /\ BufOK(chan) /\ None \notin Chan /\ None \notin Coro
    BY Types, ChannelAssumption, ZenonT(40)
  <1>2. coro[c].waits = None /\ ~Undecided(coro[c]) /\ coro[c].on = None /\ coro[c].woken = 0
    BY IdleFacts, ZenonT(40)
  <1>3. \A g \in Chan :
          /\ chan'[g] \in ChanT /\ chan'[g].buf = chan[g].buf /\ SameQueues(chan[g], chan'[g]) /\ SameCounts(chan, chan', g)
          /\ chan'[g].sendSel = chan[g].sendSel \o Nodes(c, cs, g, TRUE)
          /\ chan'[g].recvSel = chan[g].recvSel \o Nodes(c, cs, g, FALSE)
    <2> TAKE g \in Chan
    <2>1. PICK x, y : x = chan[g].sendSel \o Nodes(c, cs, g, TRUE) /\ y = chan[g].recvSel \o Nodes(c, cs, g, FALSE)
      BY Zenon
    <2>2. /\ chan[g] \in ChanT /\ chan[g].sendSel \in Seq(Coro \X Nat) /\ chan[g].recvSel \in Seq(Coro \X Nat)
          /\ Nodes(c, cs, g, TRUE) \in Seq(Coro \X Nat) /\ Nodes(c, cs, g, FALSE) \in Seq(Coro \X Nat)
      BY <1>1, ChanFields, NodesFacts, Zenon
    <2>3. x \in Seq(Coro \X Nat) /\ y \in Seq(Coro \X Nat)
      BY ONLY <2>1, <2>2, RangeFacts, Zenon
    <2>4. chan'[g] = [chan[g] EXCEPT !.sendSel = x, !.recvSel = y]
      BY <2>1, Zenon DEF select_register
    <2>5. chan[g] \in ChanT
      BY <2>2, Zenon
    <2>6. /\ chan'[g] \in ChanT /\ chan'[g].buf = chan[g].buf /\ SameQueues(chan[g], chan'[g]) /\ SameCounts(chan, chan', g)
          /\ chan'[g].sendSel = x /\ chan'[g].recvSel = y
      BY ONLY <2>3, <2>4, <2>5, ZenonT(40) DEF ChanT, SameQueues, SameCounts
    <2> QED
      BY <2>1, <2>6, ZenonT(40)
  <1>4. chan' \in [Chan -> ChanT]
    BY <1>3, Zenon DEF select_register
  <1>5. BufOK(chan')
    BY <1>1, <1>3, ZenonT(40) DEF BufOK
  <1>6. Registers(chan, chan', c, cs)
    <2>1. ASSUME NEW g \in Chan, NEW x
          PROVE  /\ x \in Range(chan'[g].sendSel) <=> (x \in Range(chan[g].sendSel) \/ Added(x, c, cs, g, TRUE))
                 /\ x \in Range(chan'[g].recvSel) <=> (x \in Range(chan[g].recvSel) \/ Added(x, c, cs, g, FALSE))
      <3>1. PICK a, b : a = Nodes(c, cs, g, TRUE) /\ b = Nodes(c, cs, g, FALSE)
        BY Zenon
      <3>2. /\ chan[g].sendSel \in Seq(Coro \X Nat) /\ chan[g].recvSel \in Seq(Coro \X Nat)
            /\ a \in Seq(Coro \X Nat) /\ b \in Seq(Coro \X Nat)
        BY <1>1, <3>1, ChanFields, NodesFacts, ZenonT(40)
      <3>3. /\ Range(chan[g].sendSel \o a) = Range(chan[g].sendSel) \cup Range(a)
            /\ Range(chan[g].recvSel \o b) = Range(chan[g].recvSel) \cup Range(b)
        BY ONLY <3>2, RangeFacts, SMTT(40)
      <3>4. /\ x \in Range(a) <=> \E i \in 1..Len(cs) : x = <<c, i>> /\ cs[i].on = g /\ cs[i].send = TRUE
            /\ x \in Range(b) <=> \E i \in 1..Len(cs) : x = <<c, i>> /\ cs[i].on = g /\ cs[i].send = FALSE
        <4>1. \A y : y \in Range(Nodes(c, cs, g, TRUE)) <=>
                     \E i \in 1..Len(cs) : y = <<c, i>> /\ cs[i].on = g /\ cs[i].send = TRUE
          <5>1. PICK t : t = TRUE
            BY Zenon
          <5>2. \A y : y \in Range(Nodes(c, cs, g, t)) <=>
                       \E i \in 1..Len(cs) : y = <<c, i>> /\ cs[i].on = g /\ cs[i].send = t
            BY ONLY Library, c \in Coro, cs \in Seq(CaseT), NodesFacts, SMTT(40)
          <5> QED
            BY <5>1, <5>2, ZenonT(40)
        <4>2. \A y : y \in Range(Nodes(c, cs, g, FALSE)) <=>
                     \E i \in 1..Len(cs) : y = <<c, i>> /\ cs[i].on = g /\ cs[i].send = FALSE
          <5>1. PICK t : t = FALSE
            BY ZenonT(40)
          <5>2. \A y : y \in Range(Nodes(c, cs, g, t)) <=>
                       \E i \in 1..Len(cs) : y = <<c, i>> /\ cs[i].on = g /\ cs[i].send = t
            BY ONLY Library, c \in Coro, cs \in Seq(CaseT), NodesFacts
          <5> QED
            BY <5>1, <5>2, ZenonT(40)
        <4> QED
          BY ONLY <3>1, <4>1, <4>2, ZenonT(40)
      <3>5. chan'[g].sendSel = chan[g].sendSel \o a /\ chan'[g].recvSel = chan[g].recvSel \o b
        BY <1>3, <3>1, ZenonT(40)
      <3> QED
        BY ONLY <3>3, <3>4, <3>5, ZenonT(40) DEF Added
    <2>2. \A g \in Chan : SameQueues(chan[g], chan'[g])
      BY <1>3, Zenon
    <2> QED
      BY ONLY <2>1, <2>2, ZenonT(40) DEF Registers, Added
  <1>7. PICK k : k = [coro[c] EXCEPT !.op = "select", !.cases = cs, !.ready = PENDING, !.timer = TRUE]
    BY Zenon
  <1>8. coro[c] \in CoroT /\ PENDING \in Int
    BY <1>1, SMTT(40) DEF PENDING
  <1>9. /\ k \in CoroT /\ k.op = "select" /\ k.cases = cs /\ k.ready = PENDING /\ k.on = coro[c].on
        /\ k.waits = coro[c].waits /\ k.woken = coro[c].woken
    BY ONLY <1>7, <1>8, cs \in Seq(CaseT), ZenonT(40) DEF CoroT
  <1>10. coro' = [coro EXCEPT ![c] = k]
    BY <1>7, ZenonT(40) DEF select_register
  <1>11. coro' \in [Coro -> CoroT] /\ coro'[c] = k /\ \A d \in Coro \ {c} : coro'[d] = coro[d]
    BY <1>1, <1>9, <1>10, ZenonT(40)
  <1>12. IsSelecting(coro'[c], cs) /\ OthersSame(coro, coro', c)
    BY <1>2, <1>9, <1>11, ZenonT(40) DEF IsSelecting, OthersSame, SameWait
  <1>13. Shape(chan', coro', None)
    BY ONLY <1>1, <1>2, <1>4, <1>5, <1>6, <1>11, <1>12, c \in Coro, ShapeRegister, ZenonT(40)
  <1>14. RefStep(chan, coro, running, chan', coro', running')
    <2>1. \A g \in Chan : SameCounts(chan, chan', g)
      BY <1>3, Zenon
    <2> QED
      BY <1>1, <1>2, <1>9, <1>11, <2>1, RefLocal, SMTT(40)
  <1>15. taken' \in TakenT
    BY <1>1, Zenon DEF select_register
  <1>16. \A d \in Coro : coro'[d].op \in Looping => MayLoop(d)
    BY <1>9, <1>11, ZenonT(40) DEF MayLoop, Looping
  <1> QED
    BY <1>13, <1>14, <1>15, <1>16, ZenonT(40) DEF StepOK

\* A select sends at once.
LEMMA SelectSendStep ==
    ASSUME Library, ChanInv, NEW h \in Chan, NEW v \in ValueT, select_send(h, v),
           chan[h].closed \/ HasRoom(h) \/ ~NoReceiver(h), running' = running, made' \in 0..program.values
    PROVE  StepOK
  <1>1. /\ Shape(chan, coro, running) /\ taken \in TakenT /\ chan \in [Chan -> ChanT] /\ BufOK(chan)
    BY Types, Zenon
  <1>2. PICK b : b = Append(chan[h].buf, v)
    BY Zenon
  <1>3. chan[h].buf \in Seq(ValueT) /\ Len(chan[h].buf) <= Capacity[h] /\ Capacity[h] \in Nat
    BY <1>1, ChanFields, ChannelAssumption, ZenonT(40) DEF BufOK
  <1>4. /\ b \in Seq(ValueT) /\ Len(b) = Len(chan[h].buf) + 1 /\ Head(b) \in ValueT /\ Tail(b) \in Seq(ValueT)
        /\ Len(Tail(b)) <= Capacity[h]
    BY ONLY <1>2, <1>3, v \in ValueT, SMTT(40)
  <1>5. CASE chan[h].closed /\ UNCHANGED <<chan, coro, taken>>
    <2>1. Shape(chan', coro', running) /\ taken' \in TakenT /\ SameRefs(chan, coro, chan', coro')
      BY <1>1, <1>5, Reflexive, ZenonT(40)
    <2> QED
      BY <2>1, SameStep, Reflexive, ZenonT(40)
  <1>6. CASE ~chan[h].closed /\ NoReceiver(h) /\ chan' = [chan EXCEPT ![h].buf = b] /\ UNCHANGED <<coro, taken>>
    <2>1. Len(b) <= Capacity[h]
      BY <1>3, <1>4, <1>6, SMTT(40) DEF HasRoom
    <2>2. Shape(chan', coro, running) /\ SameRefs(chan, coro, chan', coro)
      <3>1. PICK chs2 : chs2 = chan'
        BY Zenon
      <3>2. chs2 = [chan EXCEPT ![h].buf = b]
        BY <1>6, <3>1, ZenonT(40)
      <3>3. Shape(chs2, coro, running) /\ SameRefs(chan, coro, chs2, coro)
        BY ONLY <1>1, <1>4, <2>1, <3>2, h \in Chan, SetBuf, ZenonT(40)
      <3> QED
        BY <3>1, <3>3, ZenonT(40)
    <2>3. Shape(chan', coro', running) /\ taken' \in TakenT /\ SameRefs(chan, coro, chan', coro')
      BY <1>1, <1>6, <2>2, ZenonT(40)
    <2> QED
      BY <2>3, SameStep, Reflexive, Zenon
  <1>7. CASE to_receiver(h, Head(b), [chan EXCEPT ![h].buf = Tail(b)], coro)
    <2>1. PICK chs, u, t : chs = [chan EXCEPT ![h].buf = t] /\ t = Tail(b) /\ u = Head(b)
      BY Zenon
    <2>2. t \in Seq(ValueT) /\ Len(t) <= Capacity[h] /\ u \in ValueT /\ chs = [chan EXCEPT ![h].buf = t]
      BY <1>4, <2>1, Zenon
    <2>3. Shape(chs, coro, running) /\ SameRefs(chan, coro, chs, coro)
      BY ONLY <1>1, <2>2, h \in Chan, SetBuf, ZenonT(40)
    <2>4. chs[h].recvQ = chan[h].recvQ /\ chs[h].recvSel = chan[h].recvSel
      <3>1. chan[h] \in ChanT
        BY <1>1, Zenon
      <3>2. chs[h] = [chan[h] EXCEPT !.buf = t]
        BY <1>1, <2>2, Zenon
      <3> QED
        BY ONLY <3>1, <3>2, ZenonT(40) DEF ChanT
    <2>5. to_receiver(h, u, chs, coro)
      BY <1>7, <2>1, ZenonT(40)
    <2>6. Shape(chan', coro', running) /\ SameRefs(chs, coro, chan', coro') /\ taken' \in TakenT
      BY <1>1, <2>2, <2>3, <2>4, <2>5, ToReceiver, ZenonT(40)
    <2> QED
      BY <2>3, <2>6, SameStep, ZenonT(40)
  <1> QED
    BY <1>2, <1>5, <1>6, <1>7, ZenonT(40) DEF select_send

\* A select receives at once.
LEMMA SelectRecvStep ==
    ASSUME Library, ChanInv, NEW h \in Chan, select_recv(h), running' = running, made' \in 0..program.values
    PROVE  StepOK
  <1>1. /\ Shape(chan, coro, running) /\ taken \in TakenT /\ chan \in [Chan -> ChanT] /\ coro \in [Coro -> CoroT]
        /\ \A s \in Coro : coro[s].cases = coro[s].cases
    BY Types, Zenon
  <1>2. CASE chan[h].buf # <<>> /\ from_buffer(h, 1, coro)
    <2>1. PICK k : k = 1
      BY Zenon
    <2>2. chan[h].buf \in Seq(ValueT)
      BY <1>1, ChanFields, ZenonT(40)
    <2>3. k \in 1..Len(chan[h].buf) /\ from_buffer(h, k, coro)
      BY <1>2, <2>1, <2>2, SMTT(40)
    <2>4. Shape(chan', coro', running) /\ SameRefs(chan, coro, chan', coro') /\ taken' \in TakenT
      BY <1>1, <2>3, FromBuffer, ZenonT(40)
    <2> QED
      BY <2>4, SameStep, Reflexive, ZenonT(40)
  <1>3. CASE chan[h].buf = <<>> /\ from_sender(h, coro)
    <2>1. Shape(chan', coro', running) /\ SameRefs(chan, coro, chan', coro') /\ taken' \in TakenT
      BY <1>1, <1>3, FromSender, ZenonT(40)
    <2> QED
      BY <2>1, SameStep, Reflexive, Zenon
  <1> QED
    BY <1>2, <1>3, Zenon DEF select_recv

\* coco_channel_select() up to its coco_yield().
LEMMA SelectStep ==
    ASSUME Library, ChanInv, NEW c \in Coro, coco_channel_select(c)
    PROVE  StepOK
  <1>1. running = None /\ coro[c].op = "none" /\ "select" \in program.ops
    BY Zenon DEF coco_channel_select, Calls
  <1>2. CASE Crash("use after free")
    BY <1>2, Stays, ZenonT(40) DEF Crash
  <1>3. ASSUME running' = running, made' \in 0..program.values, NEW cs \in Seq(CaseT),
               \A i \in 1..Len(cs) : cs[i].on \in Chan /\ cs[i].val \in ValueT, SelectTries(c, cs)
        PROVE  StepOK
    <2>1. ASSUME NEW i \in 1..Len(cs), CaseReady(cs, i),
                 IF cs[i].send THEN select_send(cs[i].on, cs[i].val) ELSE select_recv(cs[i].on)
          PROVE  StepOK
      <3>1. CASE cs[i].send
        <4>1. chan[cs[i].on].closed \/ HasRoom(cs[i].on) \/ ~NoReceiver(cs[i].on)
          BY <2>1, <3>1, Zenon DEF CaseReady, NoReceiver, HasRoom
        <4> QED
          BY <1>3, <2>1, <3>1, <4>1, SelectSendStep, ZenonT(40)
      <3>2. CASE ~cs[i].send
        BY <1>3, <2>1, <3>2, SelectRecvStep, ZenonT(40)
      <3> QED
        BY <3>1, <3>2, Zenon
    <2>2. CASE select_register(c, cs)
      BY <1>1, <1>3, <2>2, RegisterStep, ZenonT(40)
    <2> QED
      BY <1>3, <2>1, <2>2, ZenonT(40) DEF SelectTries
  <1> QED
    BY <1>2, <1>3, SelectPlan, ZenonT(40)
=============================================================================
