------------------------- MODULE ChannelWaitProofs --------------------------
(***************************************************************************)
(* Closing, destroying and cancelling keep the invariant of                *)
(* ChannelShapeProofs; what follows from it about those who wait; and no   *)
(* action leaves somebody waiting for what is there.                       *)
(***************************************************************************)
EXTENDS ChannelShapeProofs

-----------------------------------------------------------------------------
(* Close, destroy and cancel.                                              *)

\* The first node of a coroutine in a list is one of its nodes.
LEMMA FirstCaseFacts ==
    ASSUME Library, NEW nodes \in Seq(Coro \X Nat), NEW c, NEW x \in Range(nodes), x[1] = c
    PROVE  FirstCase(nodes, c) \in Nat /\ <<c, FirstCase(nodes, c)>> \in Range(nodes)
  <1>1. PICK T : T = {i \in 1..Len(nodes) : nodes[i][1] = c}
    BY Zenon
  <1>2. DOMAIN nodes = 1..Len(nodes) /\ Len(nodes) \in Nat
    OBVIOUS
  <1>3. \A y : y \in Range(nodes) <=> \E i \in 1..Len(nodes) : nodes[i] = y
    BY InRange, Zenon
  <1>4. T \subseteq Nat /\ T # {}
    BY <1>1, <1>2, <1>3, SMTT(40)
  <1>5. PICK m \in T : \A k \in T : m <= k
    BY <1>4, LeastExists, Zenon
  <1>6. m \in DOMAIN nodes /\ nodes[m][1] = c /\ \A j \in 1..(m - 1) : nodes[j][1] # c
    BY <1>1, <1>2, <1>4, <1>5
  <1>7. PICK i : i = CHOOSE j \in DOMAIN nodes : nodes[j][1] = c /\ \A k \in 1..(j - 1) : nodes[k][1] # c
    BY Zenon
  <1>8. i \in DOMAIN nodes /\ nodes[i][1] = c
    BY <1>6, <1>7, ZenonT(40)
  <1>9. FirstCase(nodes, c) = nodes[i][2]
    BY <1>7, Zenon DEF FirstCase
  <1>10. nodes[i] \in Coro \X Nat
    BY <1>2, <1>8, SMTT(40)
  <1>11. nodes[i] = <<c, nodes[i][2]>> /\ nodes[i][2] \in Nat
    BY <1>8, <1>10, SMTT(40)
  <1> QED
    BY <1>2, <1>3, <1>8, <1>9, <1>11, ZenonT(40)

\* A woken waiter and a decided select, as close and destroy leave them.
WokenBy(k, b) == [[k EXCEPT !.waits = None, !.woken = @ + 1] EXCEPT !.freed = b]

DecidedBy(k, i, b) ==
    [[k EXCEPT !.ready = i, !.timer = FALSE, !.woken = @ + 1] EXCEPT !.cases[i].on = IF b THEN None ELSE @]

\* A plain waiter as wake_all() leaves it.
LEMMA WokenRecord ==
    ASSUME NEW k \in CoroT, NEW b \in BOOLEAN
    PROVE  WokenBy(k, b) \in CoroT /\ IsWoken(k, WokenBy(k, b))
  <1>1. PICK n : n = k.woken + 1
    BY Zenon
  <1>2. n \in Int
    BY <1>1, CoroFields, SMTT(40)
  <1>3. PICK l : l = [k EXCEPT !.waits = None, !.woken = n]
    BY Zenon
  <1>4. l \in CoroT /\ l.waits = None /\ l.woken = n /\ l.op = k.op /\ l.on = k.on /\ l.timer = k.timer
        /\ l.cases = k.cases /\ l.ready = k.ready
    BY ONLY <1>2, <1>3, k \in CoroT, Zenon DEF CoroT
  <1>5. PICK r : r = [l EXCEPT !.freed = b]
    BY Zenon
  <1>6. l \in CoroT
    BY <1>4, Zenon
  <1>7. r \in CoroT /\ r.waits = l.waits /\ r.woken = l.woken /\ r.op = l.op /\ r.on = l.on /\ r.timer = l.timer
        /\ r.cases = l.cases /\ r.ready = l.ready
    BY ONLY <1>5, <1>6, b \in BOOLEAN, ZenonT(40) DEF CoroT
  <1>8. r = WokenBy(k, b)
    BY <1>1, <1>3, <1>5, ZenonT(40) DEF WokenBy
  <1>9. IsWoken(k, r)
    BY ONLY <1>1, <1>4, <1>7, ZenonT(40) DEF IsWoken
  <1> QED
    BY ONLY <1>7, <1>8, <1>9, ZenonT(40)

\* A select as wake_all() leaves it.
LEMMA DecidedRecord ==
    ASSUME NEW k \in CoroT, NEW i, i \in 1..Len(k.cases), NEW b \in BOOLEAN
    PROVE  DecidedBy(k, i, b) \in CoroT /\ IsResolved(k, DecidedBy(k, i, b))
  <1>1. PICK n : n = k.woken + 1
    BY Zenon
  <1>2. n \in Int /\ k.cases \in Seq(CaseT) /\ i \in Int /\ i # PENDING
    BY <1>1, CoroFields, SMTT(40) DEF PENDING
  <1>3. PICK l : l = [k EXCEPT !.ready = i, !.timer = FALSE, !.woken = n]
    BY Zenon
  <1>4. l \in CoroT /\ l.waits = k.waits /\ l.woken = n /\ l.op = k.op /\ l.on = k.on /\ l.timer = FALSE
        /\ l.cases = k.cases /\ l.ready = i
    BY ONLY <1>2, <1>3, k \in CoroT, ZenonT(40) DEF CoroT
  <1>5. PICK q : q = [k.cases EXCEPT ![i].on = IF b THEN None ELSE @]
    BY Zenon
  <1>6. q \in Seq(CaseT)
    <2>1. k.cases[i] \in CaseT
      BY <1>2
    <2>2. PICK e : e = IF b THEN None ELSE k.cases[i].on
      BY Zenon
    <2>3. e \in Chan \cup {None}
      BY ONLY <2>1, <2>2, Zenon DEF CaseT
    <2>4. PICK d : d = [k.cases[i] EXCEPT !.on = e]
      BY Zenon
    <2>5. d \in CaseT
      BY ONLY <2>1, <2>3, <2>4, ZenonT(40) DEF CaseT
    <2>6. q = [k.cases EXCEPT ![i] = d]
      BY <1>5, <2>2, <2>4, ZenonT(40)
    <2> QED
      BY ONLY <1>2, <2>5, <2>6, i \in 1..Len(k.cases), SMTT(40)
  <1>7. PICK r : r = [l EXCEPT !.cases = q]
    BY Zenon
  <1>8. l \in CoroT
    BY <1>4, Zenon
  <1>9. r \in CoroT /\ r.waits = l.waits /\ r.woken = l.woken /\ r.op = l.op /\ r.on = l.on /\ r.timer = l.timer
        /\ r.ready = l.ready
    BY ONLY <1>6, <1>7, <1>8, ZenonT(40) DEF CoroT
  <1>10. r = DecidedBy(k, i, b)
    BY <1>1, <1>3, <1>4, <1>5, <1>7, ZenonT(40) DEF DecidedBy
  <1>11. IsResolved(k, r)
    BY ONLY <1>1, <1>2, <1>4, <1>9, ZenonT(40) DEF IsResolved
  <1> QED
    BY ONLY <1>9, <1>10, <1>11, ZenonT(40)

\* Who waits on h in a queue, and who in a select.
LEMMA WaitersOf ==
    ASSUME Library, ChanInv, running = None, NEW h \in Chan, NEW nodes \in Seq(Coro \X Nat),
           Range(nodes) = Range(chan[h].sendSel) \cup Range(chan[h].recvSel)
    PROVE  /\ \A d \in Coro : d \in Range(chan[h].sendQ) \cup Range(chan[h].recvQ) <=> coro[d].waits = h
           /\ \A d \in Coro : d \in {x[1] : x \in Range(nodes)} <=>
                              \E i \in Nat : \E b \in BOOLEAN : HasNode(coro[d], i, h, b)
           /\ \A d \in Coro : d \in {x[1] : x \in Range(nodes)} =>
                              /\ FirstCase(nodes, d) \in 1..Len(coro[d].cases)
                              /\ coro[d].waits # h
  <1>1. QueueOK(chan, coro) /\ SelOK(chan, coro) /\ \A d \in Coro : CoroOK(coro[d], running = d)
    BY Zenon DEF ChanInv, Shape
  <1>2. None \notin Chan /\ coro \in [Coro -> CoroT]
    BY Types, ChannelAssumption, ZenonT(40)
  <1>3. ASSUME NEW d \in Coro
        PROVE  d \in Range(chan[h].sendQ) \cup Range(chan[h].recvQ) <=> coro[d].waits = h
    <2>1. coro[d].waits = h => coro[d].op \in Plain
      BY <1>1, <1>2, ZenonT(40) DEF CoroOK
    <2>2. coro[d].op \in Plain => coro[d].op \in Sending \/ coro[d].op \in Receiving
      BY Zenon DEF Plain, Sending, Receiving
    <2>3. /\ d \in Range(chan[h].sendQ) <=> coro[d].waits = h /\ coro[d].op \in Sending
          /\ d \in Range(chan[h].recvQ) <=> coro[d].waits = h /\ coro[d].op \in Receiving
      BY <1>1, Zenon DEF QueueOK
    <2> QED
      BY ONLY <2>1, <2>2, <2>3, ZenonT(40)
  <1>4. ASSUME NEW d \in Coro, NEW i \in Nat
        PROVE  <<d, i>> \in Range(nodes) <=> \E b \in BOOLEAN : HasNode(coro[d], i, h, b)
    <2>1. /\ <<d, i>> \in Range(chan[h].sendSel) <=> HasNode(coro[d], i, h, TRUE)
          /\ <<d, i>> \in Range(chan[h].recvSel) <=> HasNode(coro[d], i, h, FALSE)
      BY <1>1, Zenon DEF SelOK
    <2> QED
      BY <2>1, Zenon
  <1>5. ASSUME NEW d
        PROVE  d \in {x[1] : x \in Range(nodes)} <=> \E i \in Nat : <<d, i>> \in Range(nodes)
    <2>1. \A x \in Range(nodes) : x \in Coro \X Nat
      BY RangeFacts, ZenonT(40)
    <2>2. \A x \in Range(nodes) : x = <<x[1], x[2]>> /\ x[2] \in Nat
      BY <2>1, SMTT(40)
    <2> QED
      BY <2>2, Zenon
  <1>6. ASSUME NEW d \in Coro
        PROVE  d \in {x[1] : x \in Range(nodes)} <=> \E i \in Nat : \E b \in BOOLEAN : HasNode(coro[d], i, h, b)
    BY <1>4, <1>5, ZenonT(40)
  <1>7. ASSUME NEW d \in Coro, d \in {x[1] : x \in Range(nodes)}
        PROVE  FirstCase(nodes, d) \in 1..Len(coro[d].cases) /\ coro[d].waits # h
    <2>1. PICK x \in Range(nodes) : x[1] = d
      BY <1>7, Zenon
    <2>2. PICK i : i = FirstCase(nodes, d)
      BY Zenon
    <2>3. i \in Nat /\ <<d, i>> \in Range(nodes)
      BY <2>1, <2>2, FirstCaseFacts, ZenonT(40)
    <2>4. PICK b \in BOOLEAN : HasNode(coro[d], i, h, b)
      BY <1>4, <2>3, ZenonT(40)
    <2>5. i \in 1..Len(coro[d].cases) /\ coro[d].op = "select"
      BY ONLY <2>4, ZenonT(40) DEF HasNode, Undecided
    <2>6. coro[d].waits = None
      BY <1>1, <2>5, ZenonT(40) DEF CoroOK, Plain
    <2> QED
      BY <1>2, <2>2, <2>5, <2>6, ZenonT(40)
  <1> QED
    BY ONLY <1>3, <1>6, <1>7, ZenonT(40)

\* All who wait for a channel are made ready, and nobody else.
LEMMA WakeAllStep ==
    ASSUME Library, ChanInv, running = None, NEW h \in Chan, NEW nodes \in Seq(Coro \X Nat), NEW destroy \in BOOLEAN,
           Range(nodes) = Range(chan[h].sendSel) \cup Range(chan[h].recvSel),
           NEW chs \in [Chan -> ChanT], BufOK(chs),
           \A g \in Chan : SameQueues(chan[g], chs[g]) /\ SameNodes(chan[g], chs[g]),
           wake_all(h, chs, nodes, destroy)
    PROVE  /\ Shape(chan', coro', None)
           /\ \A g \in Chan : SameCounts(chs, chan', g)
           /\ \A d \in Coro : coro'[d].op = coro[d].op /\ coro'[d].on = coro[d].on
  <1>1. Shape(chan, coro, None) /\ coro \in [Coro -> CoroT]
    BY Types, Zenon
  <1>2. Shape(chs, coro, None)
    BY <1>1, ShapeChan, ZenonT(40)
  <1>3. PICK plain : plain = Range(chan[h].sendQ) \cup Range(chan[h].recvQ)
    BY Zenon
  <1>4. PICK sel : sel = {x[1] : x \in Range(nodes)}
    BY Zenon
  <1>5. /\ \A d \in Coro : d \in plain <=> coro[d].waits = h
        /\ \A d \in Coro : d \in sel <=> \E i \in Nat : \E b \in BOOLEAN : HasNode(coro[d], i, h, b)
        /\ \A d \in Coro : d \in sel => FirstCase(nodes, d) \in 1..Len(coro[d].cases) /\ coro[d].waits # h
    BY <1>3, <1>4, WaitersOf, ZenonT(40)
  <1>6. chan' = [g \in Chan |->
                      [chs[g] EXCEPT !.sendSel = Without(@, sel \X Nat),
                                     !.recvSel = Without(@, sel \X Nat),
                                     !.sendQ = IF g = h THEN <<>> ELSE @,
                                     !.recvQ = IF g = h THEN <<>> ELSE @]]
    BY <1>4, Zenon DEF wake_all
  <1>7. coro' = [c \in Coro |-> Released(c, plain, sel, FirstCase(nodes, c), destroy)]
    BY <1>3, <1>4, Zenon DEF wake_all
  <1>8. ASSUME NEW g \in Chan
        PROVE  /\ chan'[g] \in ChanT /\ chan'[g].buf = chs[g].buf /\ SameCounts(chs, chan', g)
               /\ Range(chan'[g].sendSel) = Range(chs[g].sendSel) \ (sel \X Nat)
               /\ Range(chan'[g].recvSel) = Range(chs[g].recvSel) \ (sel \X Nat)
               /\ g = h => chan'[g].sendQ = <<>> /\ chan'[g].recvQ = <<>>
               /\ g # h => SameQueues(chs[g], chan'[g])
    <2>1. /\ chs[g].sendSel \in Seq(Coro \X Nat) /\ chs[g].recvSel \in Seq(Coro \X Nat)
          /\ chs[g].sendQ \in Seq(Coro) /\ chs[g].recvQ \in Seq(Coro)
      BY ChanFields, Zenon
    <2>2. PICK x : x = Without(chs[g].sendSel, sel \X Nat)
      BY Zenon
    <2>3. PICK y : y = Without(chs[g].recvSel, sel \X Nat)
      BY Zenon
    <2>4. PICK p : p = IF g = h THEN <<>> ELSE chs[g].sendQ
      BY Zenon
    <2>5. PICK q : q = IF g = h THEN <<>> ELSE chs[g].recvQ
      BY Zenon
    <2>6. /\ x \in Seq(Coro \X Nat) /\ Range(x) = Range(chs[g].sendSel) \ (sel \X Nat)
          /\ y \in Seq(Coro \X Nat) /\ Range(y) = Range(chs[g].recvSel) \ (sel \X Nat)
      BY ONLY Library, <2>1, <2>2, <2>3, WithoutFacts, SMTT(40)
    <2>7. p \in Seq(Coro) /\ q \in Seq(Coro)
      BY ONLY <2>1, <2>4, <2>5, SMTT(40)
    <2>8. chan'[g] = [chs[g] EXCEPT !.sendSel = x, !.recvSel = y, !.sendQ = p, !.recvQ = q]
      BY ONLY <1>6, <2>2, <2>3, <2>4, <2>5, g \in Chan, ZenonT(40)
    <2>9. chs[g] \in ChanT
      BY Zenon
    <2>10. /\ chan'[g] \in ChanT /\ chan'[g].buf = chs[g].buf /\ SameCounts(chs, chan', g)
           /\ chan'[g].sendSel = x /\ chan'[g].recvSel = y /\ chan'[g].sendQ = p /\ chan'[g].recvQ = q
      BY ONLY <2>6, <2>7, <2>8, <2>9, ZenonT(40) DEF ChanT, SameCounts
    <2> QED
      BY ONLY <2>4, <2>5, <2>6, <2>10, ZenonT(40) DEF SameQueues
  <1>9. ASSUME NEW d \in Coro
        PROVE  /\ coro'[d] \in CoroT
               /\ \/ coro[d].waits = h /\ IsWoken(coro[d], coro'[d])
                  \/ d \in sel /\ IsResolved(coro[d], coro'[d])
                  \/ coro[d].waits # h /\ d \notin sel /\ SameWait(coro[d], coro'[d])
               /\ coro'[d].op = coro[d].op /\ coro'[d].on = coro[d].on
    <2>1. CASE d \in plain
      <3>1. coro'[d] = WokenBy(coro[d], destroy)
        <4>1. Woken(coro, d)[d] = [coro[d] EXCEPT !.waits = None, !.woken = @ + 1]
          BY <1>1, Zenon DEF Woken
        <4>2. coro'[d] = [Woken(coro, d)[d] EXCEPT !.freed = destroy]
          BY ONLY <1>7, <2>1, d \in Coro, ZenonT(40) DEF Released
        <4> QED
          BY ONLY <4>1, <4>2, Zenon DEF WokenBy
      <3>2. coro[d] \in CoroT
        BY <1>1, Zenon
      <3>3. coro'[d] \in CoroT /\ IsWoken(coro[d], coro'[d])
        BY ONLY <3>1, <3>2, destroy \in BOOLEAN, WokenRecord, ZenonT(40)
      <3> QED
        BY <1>5, <2>1, <3>3, ZenonT(40) DEF IsWoken
    <2>2. CASE d \in sel
      <3>0. d \notin plain
        BY <1>5, <2>2, ZenonT(40)
      <3>1. PICK i : i = FirstCase(nodes, d)
        BY Zenon
      <3>2. i \in 1..Len(coro[d].cases) /\ coro[d] \in CoroT
        BY <1>1, <1>5, <2>2, <3>1, ZenonT(40)
      <3>3. coro'[d] = DecidedBy(coro[d], i, destroy)
        <4>1. Resolved(coro, d, i)[d] = [coro[d] EXCEPT !.ready = i, !.timer = FALSE, !.woken = @ + 1]
          BY <1>1, ZenonT(40) DEF Resolved
        <4>2. coro'[d] = Released(d, plain, sel, i, destroy)
          BY ONLY <1>7, <3>1, d \in Coro, ZenonT(40)
        <4>3. coro'[d] = [Resolved(coro, d, i)[d] EXCEPT !.cases[i].on = IF destroy THEN None ELSE @]
          BY ONLY <2>2, <3>0, <4>2, ZenonT(40) DEF Released
        <4> QED
          BY ONLY <4>1, <4>3, ZenonT(40) DEF DecidedBy
      <3>4. coro'[d] \in CoroT /\ IsResolved(coro[d], coro'[d])
        BY ONLY <3>2, <3>3, destroy \in BOOLEAN, DecidedRecord, ZenonT(40)
      <3> QED
        BY <2>2, <3>4, ZenonT(40) DEF IsResolved
    <2>3. CASE d \notin plain /\ d \notin sel
      <3>1. coro'[d] = coro[d]
        BY ONLY <1>7, <2>3, d \in Coro, ZenonT(40) DEF Released
      <3> QED
        BY <1>1, <1>5, <2>3, <3>1, ZenonT(40) DEF SameWait
    <2> QED
      BY ONLY <2>1, <2>2, <2>3, ZenonT(40)
  <1>10. chan' \in [Chan -> ChanT] /\ coro' \in [Coro -> CoroT]
    <2>1. chan' \in [Chan -> ChanT]
      BY ONLY <1>6, <1>8, ZenonT(40)
    <2>2. coro' \in [Coro -> CoroT]
      BY ONLY <1>7, <1>9, ZenonT(40)
    <2> QED
      BY <2>1, <2>2, ZenonT(40)
  <1>11. BufOK(chan')
    BY <1>8, ZenonT(40) DEF BufOK
  <1>12. WakesAll(chs, chan', coro, coro', h)
    <2>1. /\ chan'[h].sendQ = <<>> /\ chan'[h].recvQ = <<>>
          /\ \A g \in Chan \ {h} : SameQueues(chs[g], chan'[g])
      BY <1>8, ZenonT(40)
    <2>2. /\ \A g \in Chan : Range(chan'[g].sendSel) = Range(chs[g].sendSel) \ (sel \X Nat)
          /\ \A g \in Chan : Range(chan'[g].recvSel) = Range(chs[g].recvSel) \ (sel \X Nat)
      BY <1>8, ZenonT(40)
    <2>3. \A d \in Coro : \/ coro[d].waits = h /\ IsWoken(coro[d], coro'[d])
                          \/ d \in sel /\ IsResolved(coro[d], coro'[d])
                          \/ coro[d].waits # h /\ d \notin sel /\ SameWait(coro[d], coro'[d])
      BY <1>9, ZenonT(40)
    <2> QED
      BY ONLY <1>5, <2>1, <2>2, <2>3, ZenonT(40) DEF WakesAll
  <1>13. Shape(chan', coro', None)
    BY ONLY <1>2, <1>10, <1>11, <1>12, h \in Chan, ShapeWakeAll, ZenonT(40)
  <1> QED
    BY ONLY <1>8, <1>9, <1>13, ZenonT(40)

\* coco_channel_close().
LEMMA CloseStep ==
    ASSUME Library, ChanInv, NEW h \in Chan, coco_channel_close(h)
    PROVE  StepOK
  <1>1. /\ chan \in [Chan -> ChanT] /\ BufOK(chan) /\ made \in 0..program.values /\ taken \in TakenT /\ running = None
    BY Types, Zenon DEF coco_channel_close
  <1>2. CASE Crash("use after free")
    BY <1>2, Stays, Zenon DEF Crash
  <1>3. CASE /\ wake_all(h, [chan EXCEPT ![h].closed = TRUE], chan[h].recvSel \o chan[h].sendSel, FALSE)
             /\ UNCHANGED <<running, made, taken>>
    <2>1. PICK nodes : nodes = chan[h].recvSel \o chan[h].sendSel
      BY Zenon
    <2>2. chan[h].sendSel \in Seq(Coro \X Nat) /\ chan[h].recvSel \in Seq(Coro \X Nat)
      BY <1>1, ChanFields, ZenonT(40)
    <2>3. nodes \in Seq(Coro \X Nat) /\ Range(nodes) = Range(chan[h].sendSel) \cup Range(chan[h].recvSel)
      BY ONLY <2>1, <2>2, RangeFacts, SMTT(40)
    <2>4. PICK r : r = [chan[h] EXCEPT !.closed = TRUE]
      BY Zenon
    <2>5. chan[h] \in ChanT
      BY <1>1, Zenon
    <2>6. /\ r \in ChanT /\ r.buf = chan[h].buf /\ SameQueues(chan[h], r) /\ SameNodes(chan[h], r)
          /\ r.refcount = chan[h].refcount /\ r.destroying = chan[h].destroying
      BY ONLY <2>4, <2>5, ZenonT(40) DEF ChanT, SameQueues, SameNodes
    <2>7. PICK chs : chs = [chan EXCEPT ![h] = r]
      BY Zenon
    <2>8. chs \in [Chan -> ChanT] /\ chs[h] = r /\ \A g \in Chan \ {h} : chs[g] = chan[g]
      BY <1>1, <2>6, <2>7, ZenonT(40)
    <2>9. /\ BufOK(chs) /\ \A g \in Chan : SameQueues(chan[g], chs[g]) /\ SameNodes(chan[g], chs[g])
          /\ \A g \in Chan : SameCounts(chan, chs, g)
      BY <1>1, <2>6, <2>8, ZenonT(40) DEF BufOK, SameQueues, SameNodes, SameCounts
    <2>10. chs = [chan EXCEPT ![h].closed = TRUE]
      BY <2>4, <2>7, ZenonT(40)
    <2>11. PICK destroy \in BOOLEAN : destroy = FALSE
      BY Zenon
    <2>12. wake_all(h, chs, nodes, destroy)
      BY <1>3, <2>1, <2>10, <2>11, ZenonT(40)
    <2>13. /\ Shape(chan', coro', None)
           /\ \A g \in Chan : SameCounts(chs, chan', g)
           /\ \A d \in Coro : coro'[d].op = coro[d].op /\ coro'[d].on = coro[d].on
      BY <1>1, <2>3, <2>8, <2>9, <2>12, WakeAllStep, ZenonT(40)
    <2>14. SameRefs(chan, coro, chan', coro')
      BY ONLY <2>9, <2>13, Zenon DEF SameRefs, SameCounts
    <2>15. running' = running /\ Shape(chan', coro', running) /\ made' \in 0..program.values /\ taken' \in TakenT
      BY <1>1, <1>3, <2>13, ZenonT(40)
    <2> QED
      BY <2>14, <2>15, SameStep, Reflexive, ZenonT(40)
  <1> QED
    BY <1>2, <1>3, ZenonT(40) DEF coco_channel_close

\* coco_channel_destroy().
LEMMA DestroyStep ==
    ASSUME Library, ChanInv, NEW h \in Chan, coco_channel_destroy(h)
    PROVE  StepOK
  <1>1. /\ chan \in [Chan -> ChanT] /\ BufOK(chan) /\ made \in 0..program.values /\ taken \in TakenT
        /\ running = None /\ ~chan[h].destroying
    BY Types, ZenonT(40) DEF coco_channel_destroy
  <1>2. CASE Crash("use after free")
    BY <1>2, Stays, Zenon DEF Crash
  <1>3. CASE /\ wake_all(h, [coco_channel_unref(h) EXCEPT ![h].destroying = TRUE],
                         chan[h].sendSel \o chan[h].recvSel, TRUE)
             /\ UNCHANGED <<running, made, taken>>
    <2>1. PICK nodes : nodes = chan[h].sendSel \o chan[h].recvSel
      BY Zenon
    <2>2. chan[h].sendSel \in Seq(Coro \X Nat) /\ chan[h].recvSel \in Seq(Coro \X Nat) /\ chan[h].refcount \in Int
      BY <1>1, ChanFields, ZenonT(40)
    <2>3. nodes \in Seq(Coro \X Nat) /\ Range(nodes) = Range(chan[h].sendSel) \cup Range(chan[h].recvSel)
      BY ONLY <2>1, <2>2, RangeFacts, SMTT(40)
    <2>31. PICK n : n = chan[h].refcount - 1
      BY Zenon
    <2>32. n \in Int
      BY <2>2, <2>31, SMTT(40)
    <2>4. PICK r : r = [chan[h] EXCEPT !.refcount = n, !.destroying = TRUE]
      BY Zenon
    <2>5. chan[h] \in ChanT
      BY <1>1, Zenon
    <2>6. /\ r \in ChanT /\ r.buf = chan[h].buf /\ SameQueues(chan[h], r) /\ SameNodes(chan[h], r)
          /\ r.refcount = n /\ r.destroying = TRUE
      BY ONLY <2>32, <2>4, <2>5, ZenonT(40) DEF ChanT, SameQueues, SameNodes
    <2>7. PICK chs : chs = [chan EXCEPT ![h] = r]
      BY Zenon
    <2>8. chs \in [Chan -> ChanT] /\ chs[h] = r /\ \A g \in Chan \ {h} : chs[g] = chan[g]
      BY <1>1, <2>6, <2>7, ZenonT(40)
    <2>9. /\ BufOK(chs) /\ \A g \in Chan : SameQueues(chan[g], chs[g]) /\ SameNodes(chan[g], chs[g])
          /\ \A g \in Chan \ {h} : SameCounts(chan, chs, g)
      BY <1>1, <2>6, <2>8, ZenonT(40) DEF BufOK, SameQueues, SameNodes, SameCounts
    <2>10. chs = [coco_channel_unref(h) EXCEPT ![h].destroying = TRUE]
      <3>1. PICK u : u = coco_channel_unref(h)
        BY Zenon
      <3>2. u = [chan EXCEPT ![h].refcount = n]
        BY <2>31, <3>1, Zenon DEF coco_channel_unref
      <3>3. [u EXCEPT ![h].destroying = TRUE] = chs
        BY <1>1, <2>4, <2>7, <3>2, ZenonT(40)
      <3> QED
        BY <3>1, <3>3, Zenon
    <2>11. PICK destroy \in BOOLEAN : destroy = TRUE
      BY Zenon
    <2>12. wake_all(h, chs, nodes, destroy)
      BY <1>3, <2>1, <2>10, <2>11, ZenonT(40)
    <2>13. /\ Shape(chan', coro', None)
           /\ \A g \in Chan : SameCounts(chs, chan', g)
           /\ \A d \in Coro : coro'[d].op = coro[d].op /\ coro'[d].on = coro[d].on
      BY <1>1, <2>3, <2>8, <2>9, <2>12, WakeAllStep, ZenonT(40)
    <2>14. RefOwner(chan, coro, running, chan', coro', running')
      <3>1. \A g \in Chan : Holders(coro', running', g) = Holders(coro, running, g)
        BY <1>3, <2>13, Zenon DEF Holders
      <3>2. chan'[h].refcount = chan[h].refcount - 1 /\ chan'[h].destroying
        BY <2>31, <2>6, <2>8, <2>13, ZenonT(40) DEF SameCounts
      <3>3. \A g \in Chan \ {h} : SameCounts(chan, chan', g)
        BY <2>9, <2>13, ZenonT(40) DEF SameCounts
      <3> QED
        BY <1>1, <3>1, <3>2, <3>3, ZenonT(40) DEF RefOwner
    <2>15. Shape(chan', coro', running') /\ made' \in 0..program.values /\ taken' \in TakenT
      BY <1>1, <1>3, <2>13, ZenonT(40)
    <2> QED
      BY <2>13, <2>14, <2>15, ZenonT(40) DEF StepOK, RefStep, MayLoop
  <1> QED
    BY <1>2, <1>3, Zenon DEF coco_channel_destroy

\* coco_cancel() of a coroutine in a plain call.
LEMMA CancelStep ==
    ASSUME Library, ChanInv, NEW c \in Coro, coco_cancel(c)
    PROVE  StepOK
  <1>1. /\ Shape(chan, coro, running) /\ chan \in [Chan -> ChanT] /\ coro \in [Coro -> CoroT] /\ BufOK(chan)
        /\ made' \in 0..program.values /\ taken' \in TakenT
        /\ running = None /\ running' = None /\ None \notin Chan /\ None \notin Coro
    BY Types, ChannelAssumption, ZenonT(40) DEF coco_cancel
  <1>2. "cancel" \in program.ops /\ \A d \in Coro : coro[d].op # "select"
    BY Zenon DEF coco_cancel, ChanInv
  <1>3. PICK k : k = [coro[c] EXCEPT !.cancelled = TRUE]
    BY Zenon
  <1>4. coro[c] \in CoroT
    BY <1>1, ZenonT(40)
  <1>5. k \in CoroT /\ SameWait(coro[c], k)
    BY ONLY <1>3, <1>4, ZenonT(40) DEF CoroT, SameWait
  <1>6. PICK co : co = [coro EXCEPT ![c] = k]
    BY Zenon
  <1>7. /\ co \in [Coro -> CoroT] /\ co[c] = k /\ \A d \in Coro \ {c} : co[d] = coro[d]
        /\ co = [coro EXCEPT ![c].cancelled = TRUE]
    BY <1>1, <1>3, <1>5, <1>6, ZenonT(40)
  <1>8. Shape(chan, co, running)
    <2>1. \A d \in Coro : SameWait(coro[d], co[d])
      BY <1>5, <1>7, ZenonT(40) DEF SameWait
    <2> QED
      BY ONLY <1>1, <1>7, <2>1, ShapeCoro, ZenonT(40)
  <1>9. \A d \in Coro : co[d].op # "select"
    BY <1>2, <1>5, <1>7, ZenonT(40) DEF SameWait
  <1>14. \A d \in Coro : co[d].op = coro[d].op
    BY <1>5, <1>7, Zenon DEF SameWait
  <1>10. CASE coro' = co /\ UNCHANGED chan
    BY <1>1, <1>2, <1>8, <1>9, <1>10, <1>14, ZenonT(40) DEF StepOK, MayLoop
  <1>11. CASE UNCHANGED <<chan, coro>>
    BY <1>1, <1>2, <1>11, ZenonT(40) DEF StepOK, MayLoop
  <1>12. ~(coro[c].op # "none" /\ ~(coro[c].woken > 0) /\ coro[c].waits = None)
    <2>1. CoroOK(coro[c], running = c) /\ coro[c].op \in {"none", "select"} \cup Plain
      BY <1>1, CoroFields, ZenonT(40) DEF Shape
    <2> QED
      BY <1>1, <1>2, <2>1, SMTT(40) DEF CoroOK
  <1>13. CASE /\ coro[c].waits # None
              /\ chan' = coco_channel_remove_waiter(coco_channel_unref(coro[c].waits), coro[c].waits, c)
              /\ coro' = Woken(co, c)
    <2>1. PICK h : h = coro[c].waits
      BY Zenon
    <2>2. h \in Chan /\ k.waits = h
      BY <1>4, <1>5, <1>13, <2>1, CoroFields, ZenonT(40) DEF SameWait
    <2>3. PICK n : n = chan[h].refcount - 1
      BY Zenon
    <2>4. /\ n \in Int /\ chan[h].sendQ \in Seq(Coro) /\ chan[h].recvQ \in Seq(Coro)
      BY <1>1, <2>2, <2>3, ChanFields, SMTT(40)
    <2>5. PICK x : x = Without(chan[h].sendQ, {c})
      BY Zenon
    <2>6. PICK y : y = Without(chan[h].recvQ, {c})
      BY Zenon
    <2>7. /\ x \in Seq(Coro) /\ Range(x) = Range(chan[h].sendQ) \ {c} /\ (Once(chan[h].sendQ) => Once(x))
          /\ y \in Seq(Coro) /\ Range(y) = Range(chan[h].recvQ) \ {c} /\ (Once(chan[h].recvQ) => Once(y))
      BY ONLY Library, <2>4, <2>5, <2>6, WithoutFacts, ZenonT(40)
    <2>8. Once(chan[h].sendQ) /\ Once(chan[h].recvQ)
      BY <1>1, <2>2, ZenonT(40) DEF Shape, QueueOK
    <2>9. PICK r : r = [chan[h] EXCEPT !.refcount = n, !.sendQ = x, !.recvQ = y]
      BY Zenon
    <2>10. chan[h] \in ChanT
      BY <1>1, <2>2, Zenon
    <2>11. r \in ChanT /\ r.buf = chan[h].buf /\ r.sendQ = x /\ r.recvQ = y /\ SameNodes(chan[h], r)
      BY ONLY <2>4, <2>7, <2>9, <2>10, ZenonT(40) DEF ChanT, SameNodes
    <2>12. chan' = [chan EXCEPT ![h] = r]
      <3>1. PICK u : u = coco_channel_unref(h)
        BY Zenon
      <3>2. u = [chan EXCEPT ![h].refcount = n]
        BY <2>3, <3>1, ZenonT(40) DEF coco_channel_unref
      <3>3. u[h] = [chan[h] EXCEPT !.refcount = n]
        BY <1>1, <2>2, <3>2, ZenonT(40)
      <3>4. u[h].sendQ = chan[h].sendQ /\ u[h].recvQ = chan[h].recvQ
        BY ONLY <2>10, <3>3, ZenonT(40) DEF ChanT
      <3>5. chan' = [u EXCEPT ![h].sendQ = x, ![h].recvQ = y]
        <4>1. chan' = [u EXCEPT ![h].sendQ = Without(@, {c}), ![h].recvQ = Without(@, {c})]
          BY <1>13, <2>1, <3>1, ZenonT(40) DEF coco_channel_remove_waiter
        <4>2. u \in [Chan -> ChanT]
          <5>1. u[h] \in ChanT
            BY ONLY <2>4, <2>10, <3>3, ZenonT(40) DEF ChanT
          <5> QED
            BY <1>1, <2>2, <3>2, <5>1, ZenonT(40)
        <4> QED
          BY ONLY <2>2, <2>5, <2>6, <3>4, <4>1, <4>2, ZenonT(40)
      <3> QED
        BY <1>1, <2>2, <2>9, <3>2, <3>5, ZenonT(40)
    <2>13. chan' \in [Chan -> ChanT] /\ chan'[h] = r /\ \A g \in Chan \ {h} : chan'[g] = chan[g]
      BY <1>1, <2>2, <2>11, <2>12, ZenonT(40)
    <2>14. BufOK(chan')
      BY <1>1, <2>11, <2>13, ZenonT(40) DEF BufOK
    <2>15. Leaves(chan, chan', h, c)
      BY <2>7, <2>8, <2>11, <2>13, ZenonT(40) DEF Leaves, SameQueues, SameNodes
    <2>16. PICK w : w = k.woken + 1
      BY Zenon
    <2>17. w \in Int
      BY <1>5, <2>16, CoroFields, SMTT(40)
    <2>18. PICK l : l = [k EXCEPT !.waits = None, !.woken = w]
      BY Zenon
    <2>19. k \in CoroT
      BY <1>5, ZenonT(40)
    <2>20. /\ l \in CoroT /\ l.op = k.op /\ l.on = k.on /\ l.waits = None /\ l.woken = w
           /\ l.timer = k.timer /\ l.cases = k.cases /\ l.ready = k.ready
      BY ONLY <2>17, <2>18, <2>19, ZenonT(40) DEF CoroT
    <2>21. IsWoken(k, l)
      BY ONLY <2>16, <2>20, ZenonT(40) DEF IsWoken
    <2>22. coro' = [co EXCEPT ![c] = l]
      <3>1. co \in [Coro -> CoroT] /\ co[c] = k
        BY <1>7, ZenonT(40)
      <3>2. Woken(co, c) = [co EXCEPT ![c] = [co[c] EXCEPT !.waits = None, !.woken = @ + 1]]
        BY ONLY <3>1, c \in Coro, ZenonT(40) DEF Woken
      <3>3. [co[c] EXCEPT !.waits = None, !.woken = @ + 1] = l
        BY ONLY <2>16, <2>18, <3>1, ZenonT(40)
      <3> QED
        BY <1>13, <3>2, <3>3, ZenonT(40)
    <2>23. coro' \in [Coro -> CoroT] /\ coro'[c] = l /\ \A d \in Coro \ {c} : coro'[d] = co[d]
      BY <1>7, <2>20, <2>22, ZenonT(40)
    <2>24. OthersSame(co, coro', c)
      BY <2>23, ZenonT(40) DEF OthersSame, SameWait
    <2>25. co[c].waits = h /\ IsWoken(co[c], coro'[c])
      BY <1>7, <2>2, <2>21, <2>23, ZenonT(40)
    <2>26. Shape(chan', coro', running)
      BY ONLY <1>8, <2>2, <2>13, <2>14, <2>15, <2>23, <2>24, <2>25, c \in Coro, ShapeWake,
         ZenonT(40)
    <2>27. \A d \in Coro : coro'[d].op = co[d].op
      <3>1. coro'[c].op = co[c].op
        BY <1>7, <2>20, <2>23, ZenonT(40)
      <3> QED
        BY ONLY <2>23, <3>1, ZenonT(40)
    <2> QED
      BY <1>1, <1>2, <1>9, <1>14, <2>26, <2>27, ZenonT(40) DEF StepOK, MayLoop
  <1> QED
    BY <1>7, <1>10, <1>11, <1>12, <1>13, ZenonT(40) DEF coco_cancel

-----------------------------------------------------------------------------
(* What the invariant says of those who wait.                              *)

\* The links of a coroutine are its places in the queues.
LEMMA LinksOf ==
    ASSUME NEW c
    PROVE  \A x : x \in Links(c) <=>
              \E h \in Chan, side \in {"sendQ", "recvQ"} : \E i \in DOMAIN chan[h][side] :
                  chan[h][side][i] = c /\ x = <<h, side, i>>
  <1>1. ASSUME NEW x PROVE x \in Links(c) <=>
              \E h \in Chan, side \in {"sendQ", "recvQ"} : \E i \in DOMAIN chan[h][side] :
                  chan[h][side][i] = c /\ x = <<h, side, i>>
    <2>1. x \in Links(c) <=> \E h \in Chan : x \in LinksIn(c, h, "sendQ") \/ x \in LinksIn(c, h, "recvQ")
      BY Zenon DEF Links
    <2>2. \A h, side : x \in LinksIn(c, h, side) <=>
                        \E i \in DOMAIN chan[h][side] : chan[h][side][i] = c /\ x = <<h, side, i>>
      BY Zenon DEF LinksIn
    <2> QED
      BY ONLY <2>1, <2>2, ZenonT(40)
  <1> QED
    BY <1>1, Zenon

\* Who is in a queue of a channel.
LEMMA QueuesOf ==
    ASSUME ChanInv, NEW c \in Coro, NEW h \in Chan, NEW side \in {"sendQ", "recvQ"}
    PROVE  /\ chan[h][side] \in Seq(Coro) /\ DOMAIN chan[h][side] = 1..Len(chan[h][side]) /\ Once(chan[h][side])
           /\ c \in Range(chan[h][side]) <=>
                coro[c].waits = h /\ coro[c].op \in (IF side = "sendQ" THEN Sending ELSE Receiving)
           /\ c \in Range(chan[h][side]) <=> \E i \in DOMAIN chan[h][side] : chan[h][side][i] = c
  <1>1. chan[h] \in ChanT /\ QueueOK(chan, coro)
    BY Types, ZenonT(40) DEF ChanInv, Shape
  <1>2. PICK q : q = chan[h][side]
    BY Zenon
  <1>3. /\ q \in Seq(Coro) /\ Once(q)
        /\ c \in Range(q) <=> coro[c].waits = h /\ coro[c].op \in (IF side = "sendQ" THEN Sending ELSE Receiving)
    <2>1. CASE side = "sendQ"
      <3>1. q = chan[h].sendQ
        BY <1>2, <2>1, ZenonT(40)
      <3> QED
        BY <1>1, <2>1, <3>1, ChanFields, ZenonT(40) DEF QueueOK
    <2>2. CASE side = "recvQ"
      <3>1. q = chan[h].recvQ
        BY <1>2, <2>2, ZenonT(40)
      <3> QED
        BY <1>1, <2>2, <3>1, ChanFields, ZenonT(40) DEF QueueOK
    <2> QED
      BY <2>1, <2>2, ZenonT(40)
  <1>4. DOMAIN q = 1..Len(q) /\ (c \in Range(q) <=> \E i \in 1..Len(q) : q[i] = c)
    BY ONLY <1>3, InRange, SMTT(40)
  <1> QED
    BY ONLY <1>2, <1>3, <1>4, ZenonT(40)

\* A coroutine is in one place of one queue if it waits, and in none
\* otherwise.
LEMMA LinksCounted ==
    ASSUME Library, ChanInv, NEW c \in Coro
    PROVE  Occurrences(c) = IF coro[c].waits = None THEN 0 ELSE 1
  <1>1. None \notin Chan /\ coro[c] \in CoroT /\ CoroOK(coro[c], running = c)
    BY Types, ChannelAssumption, ZenonT(40) DEF ChanInv, Shape
  <1>2. CASE coro[c].waits = None
    <2>1. \A h \in Chan, side \in {"sendQ", "recvQ"} : \A i \in DOMAIN chan[h][side] : chan[h][side][i] # c
      BY <1>1, <1>2, QueuesOf, SMTT(40)
    <2>2. Links(c) = {}
      BY <2>1, LinksOf, SMTT(40)
    <2> QED
      BY <1>2, <2>2, EmptySize, ZenonT(40) DEF Occurrences
  <1>3. CASE coro[c].waits # None
    <2>1. PICK h : h = coro[c].waits
      BY Zenon
    <2>2. h \in Chan /\ coro[c].op \in Plain
      BY <1>1, <1>3, <2>1, CoroFields, ZenonT(40) DEF CoroOK
    <2>3. PICK side \in {"sendQ", "recvQ"} : coro[c].op \in (IF side = "sendQ" THEN Sending ELSE Receiving)
      BY <2>2, ZenonT(40) DEF Plain, Sending, Receiving
    <2>4. PICK i \in DOMAIN chan[h][side] : chan[h][side][i] = c
      <3>1. c \in Range(chan[h][side])
        BY <2>1, <2>2, <2>3, QueuesOf, ZenonT(40)
      <3> QED
        BY <2>2, <3>1, QueuesOf, SMTT(40)
    <2>5. ASSUME NEW g \in Chan, NEW s \in {"sendQ", "recvQ"}, NEW j \in DOMAIN chan[g][s], chan[g][s][j] = c
          PROVE  g = h /\ s = side /\ j = i
      <3>1. c \in Range(chan[g][s])
        BY <2>5, QueuesOf, SMTT(40)
      <3>2. g = h /\ coro[c].op \in (IF s = "sendQ" THEN Sending ELSE Receiving)
        BY <2>1, <3>1, QueuesOf, ZenonT(40)
      <3>3. s = side
        BY <2>3, <3>2, SMTT(40) DEF Sending, Receiving
      <3>4. Once(chan[h][side]) /\ DOMAIN chan[h][side] = 1..Len(chan[h][side])
        BY <2>2, QueuesOf, ZenonT(40)
      <3> QED
        BY <2>4, <2>5, <3>2, <3>3, <3>4, ZenonT(40) DEF Once
    <2>6. Links(c) = {<<h, side, i>>}
      BY <2>2, <2>4, <2>5, LinksOf, SMTT(40)
    <2>7. Cardinality(Links(c)) = 1
      <3>1. PICK x : x = <<h, side, i>>
        BY Zenon
      <3> QED
        BY <2>6, <3>1, SingletonSize, ZenonT(40)
    <2> QED
      BY <1>3, <2>7, ZenonT(40) DEF Occurrences
  <1> QED
    BY <1>2, <1>3, ZenonT(40)

\* QueuedXorReady follows from the invariant.
LEMMA QueuedXorReadyHolds ==
    ASSUME Library, ChanInv
    PROVE  QueuedXorReady
  <1> SUFFICES ASSUME NEW c \in Coro
               PROVE  /\ coro[c].waits # None =>
                            ( /\ coro[c].waits = coro[c].on
                              /\ coro[c].op \in Plain
                              /\ c \in Range(IF coro[c].op \in Sending THEN chan[coro[c].on].sendQ
                                                                       ELSE chan[coro[c].on].recvQ))
                      /\ Occurrences(c) = IF coro[c].waits = None THEN 0 ELSE 1
                      /\ (Blocked(c) /\ coro[c].op \in Plain) => Occurrences(c) + coro[c].woken = 1
                      /\ ~Blocked(c) => coro[c].woken = 0
    BY Zenon DEF QueuedXorReady
  <1>1. None \notin Chan /\ coro[c] \in CoroT /\ CoroOK(coro[c], running = c) /\ QueueOK(chan, coro)
    BY Types, ChannelAssumption, ZenonT(40) DEF ChanInv, Shape
  <1>2. Occurrences(c) = IF coro[c].waits = None THEN 0 ELSE 1
    BY LinksCounted, ZenonT(40)
  <1>3. ASSUME coro[c].waits # None
        PROVE  /\ coro[c].waits = coro[c].on /\ coro[c].op \in Plain
               /\ c \in Range(IF coro[c].op \in Sending THEN chan[coro[c].on].sendQ ELSE chan[coro[c].on].recvQ)
    <2>1. coro[c].op \in Plain /\ running # c /\ coro[c].waits = coro[c].on /\ coro[c].on \in Chan
      BY <1>1, <1>3, ZenonT(40) DEF CoroOK
    <2>2. coro[c].op \in Sending \/ coro[c].op \in Receiving
      BY <2>1, ZenonT(40) DEF Plain, Sending, Receiving
    <2> QED
      BY <1>1, <2>1, <2>2, ZenonT(40) DEF QueueOK
  <1>4. (Blocked(c) /\ coro[c].op \in Plain) => Occurrences(c) + coro[c].woken = 1
    BY <1>1, <1>2, SMTT(40) DEF CoroOK, Blocked
  <1>5. ~Blocked(c) => coro[c].woken = 0
    BY <1>1, ZenonT(40) DEF CoroOK, Blocked
  <1> QED
    BY ONLY <1>2, <1>3, <1>4, <1>5, ZenonT(40)

\* The references are counted, unless somebody may be cancelled.
RefInv == "cancel" \notin program.ops => RefOK(chan, coro, running)

\* RefcountExact is that count.
LEMMA RefcountHolds ==
    ASSUME RefInv
    PROVE  RefcountExact
  <1>1. \A h : Holders(coro, running, h) = {c \in Coro : Blocked(c) /\ coro[c].on = h}
    BY Zenon DEF Holders, Blocked
  <1> QED
    BY <1>1, ZenonT(40) DEF RefInv, RefOK, RefcountExact

-----------------------------------------------------------------------------
(* Nobody waits for what is there.                                         *)

\* A channel with buffer size n on which nobody waits in vain.
Calm(q, n) ==
    /\ (q.recvQ # <<>> \/ q.recvSel # <<>>) => q.buf = <<>> /\ q.sendQ = <<>>
    /\ q.recvQ # <<>> => q.sendSel = <<>>
    /\ (q.sendQ # <<>> \/ q.sendSel # <<>>) => Len(q.buf) = n
    /\ q.closed => q.recvQ = <<>> /\ q.sendQ = <<>> /\ q.sendSel = <<>>

AllCalm(chs) == \A g \in Chan : Calm(chs[g], Capacity[g])

\* Without batches nobody loops, and nobody waits in vain.
VainInv ==
    program.ops \cap Batches = {} =>
        running = None /\ AllCalm(chan) /\ \A c \in Coro : coro[c].op \notin Looping

\* Waiters leave the channel, and nothing else changes.
Fewer(q, r) ==
    /\ r.buf = q.buf /\ r.closed = q.closed
    /\ q.sendQ = <<>> => r.sendQ = <<>>
    /\ q.recvQ = <<>> => r.recvQ = <<>>
    /\ q.sendSel = <<>> => r.sendSel = <<>>
    /\ q.recvSel = <<>> => r.recvSel = <<>>

\* Where waiters only leave, nobody starts to wait in vain.
LEMMA CalmFewer ==
    ASSUME NEW chs, NEW chs2, AllCalm(chs), \A g \in Chan : Fewer(chs[g], chs2[g])
    PROVE  AllCalm(chs2)
  <1> SUFFICES ASSUME NEW g \in Chan
               PROVE  Calm(chs2[g], Capacity[g])
    BY Zenon DEF AllCalm
  <1>1. Calm(chs[g], Capacity[g]) /\ Fewer(chs[g], chs2[g])
    BY Zenon DEF AllCalm
  <1> QED
    BY ONLY <1>1, ZenonT(40) DEF Calm, Fewer

\* A queue that all have left is empty.
LEMMA WithoutEmpty ==
    ASSUME Library, NEW S, NEW q \in Seq(S), NEW X, q = <<>> \/ Range(q) \subseteq X
    PROVE  Without(q, X) = <<>>
  <1>1. Without(q, X) \in Seq(S) /\ Range(Without(q, X)) = Range(q) \ X
    BY WithoutFacts, ZenonT(40)
  <1>2. Range(q) \ X = {}
    BY RangeFacts, ZenonT(40)
  <1> QED
    BY ONLY <1>1, <1>2, RangeFacts, ZenonT(40)

\* A select that is decided only leaves queues.
LEMMA DequeueFewer ==
    ASSUME Library, NEW chs \in [Chan -> ChanT], NEW s
    PROVE  \A g \in Chan : Fewer(chs[g], select_dequeue_all(chs, s)[g])
  <1> TAKE g \in Chan
  <1>1. PICK X : X = {s} \X Nat
    BY Zenon
  <1>2. PICK x : x = Without(chs[g].sendSel, X)
    BY Zenon
  <1>3. PICK y : y = Without(chs[g].recvSel, X)
    BY Zenon
  <1>4. chs[g].sendSel \in Seq(Coro \X Nat) /\ chs[g].recvSel \in Seq(Coro \X Nat)
    BY ChanFields, ZenonT(40)
  <1>5. (chs[g].sendSel = <<>> => x = <<>>) /\ (chs[g].recvSel = <<>> => y = <<>>)
    BY ONLY Library, <1>2, <1>3, <1>4, WithoutEmpty, ZenonT(40)
  <1>6. select_dequeue_all(chs, s)[g] = [chs[g] EXCEPT !.sendSel = x, !.recvSel = y]
    BY <1>1, <1>2, <1>3, ZenonT(40) DEF select_dequeue_all
  <1>7. chs[g] \in ChanT
    BY Zenon
  <1>8. PICK r : r = [chs[g] EXCEPT !.sendSel = x, !.recvSel = y]
    BY Zenon
  <1>9. /\ r.buf = chs[g].buf /\ r.closed = chs[g].closed /\ r.sendQ = chs[g].sendQ /\ r.recvQ = chs[g].recvQ
        /\ r.sendSel = x /\ r.recvSel = y
    BY ONLY <1>7, <1>8, ZenonT(40) DEF ChanT
  <1>10. Fewer(chs[g], r)
    BY ONLY <1>5, <1>9, ZenonT(40) DEF Fewer
  <1> QED
    BY ONLY <1>6, <1>8, <1>10, ZenonT(40)

\* A channel is replaced by another calm one.
LEMMA CalmReplace ==
    ASSUME NEW chs, AllCalm(chs), NEW h \in Chan, NEW chs2, Calm(chs2[h], Capacity[h]),
           \A g \in Chan \ {h} : chs2[g] = chs[g]
    PROVE  AllCalm(chs2)
  BY Zenon DEF AllCalm

\* A value is given to the first receiver.
LEMMA CalmToReceiver ==
    ASSUME Library, NEW chs \in [Chan -> ChanT], AllCalm(chs), NEW h \in Chan, chs[h].recvQ = chan[h].recvQ,
           NEW v, NEW co, to_receiver(h, v, chs, co)
    PROVE  AllCalm(chan')
  <1>1. CASE chan[h].recvQ # <<>> /\ chan' = [chs EXCEPT ![h].recvQ = Tail(@)]
    <2>1. PICK t : t = Tail(chs[h].recvQ)
      BY Zenon
    <2>2. PICK r : r = [chs[h] EXCEPT !.recvQ = t]
      BY Zenon
    <2>3. chs[h] \in ChanT
      BY Zenon
    <2>4. /\ r.buf = chs[h].buf /\ r.closed = chs[h].closed /\ r.sendQ = chs[h].sendQ /\ r.sendSel = chs[h].sendSel
          /\ r.recvSel = chs[h].recvSel
      BY ONLY <2>2, <2>3, ZenonT(40) DEF ChanT
    <2>5. chan'[h] = r /\ \A g \in Chan \ {h} : chan'[g] = chs[g]
      BY <1>1, <2>1, <2>2, ZenonT(40)
    <2>6. \A g \in Chan : Fewer(chs[g], chan'[g])
      BY <1>1, <2>4, <2>5, ZenonT(40) DEF Fewer
    <2> QED
      BY <2>6, CalmFewer, ZenonT(40)
  <1>2. ASSUME NEW s, chan' = select_dequeue_all(chs, s)
        PROVE  AllCalm(chan')
    BY <1>2, DequeueFewer, CalmFewer, ZenonT(40)
  <1> QED
    BY <1>1, <1>2, ZenonT(40) DEF to_receiver

\* A value is taken from the first sender.
LEMMA CalmFromSender ==
    ASSUME Library, chan \in [Chan -> ChanT], AllCalm(chan), NEW h \in Chan, NEW co, from_sender(h, co)
    PROVE  AllCalm(chan')
  <1>1. CASE chan[h].sendQ # <<>> /\ chan' = [chan EXCEPT ![h].sendQ = Tail(@)]
    <2>1. PICK t : t = Tail(chan[h].sendQ)
      BY Zenon
    <2>2. PICK r : r = [chan[h] EXCEPT !.sendQ = t]
      BY Zenon
    <2>3. chan[h] \in ChanT
      BY Zenon
    <2>4. /\ r.buf = chan[h].buf /\ r.closed = chan[h].closed /\ r.recvQ = chan[h].recvQ /\ r.sendSel = chan[h].sendSel
          /\ r.recvSel = chan[h].recvSel
      BY ONLY <2>2, <2>3, ZenonT(40) DEF ChanT
    <2>5. chan'[h] = r /\ \A g \in Chan \ {h} : chan'[g] = chan[g]
      BY <1>1, <2>1, <2>2, ZenonT(40)
    <2>6. \A g \in Chan : Fewer(chan[g], chan'[g])
      BY <1>1, <2>4, <2>5, ZenonT(40) DEF Fewer
    <2> QED
      BY <2>6, CalmFewer, ZenonT(40)
  <1>2. ASSUME NEW s, chan' = select_dequeue_all(chan, s)
        PROVE  AllCalm(chan')
    BY <1>2, DequeueFewer, CalmFewer, ZenonT(40)
  <1> QED
    BY <1>1, <1>2, ZenonT(40) DEF from_sender

\* A value is taken from the buffer, and the first sender fills its place.
LEMMA CalmFromBuffer ==
    ASSUME Library, chan \in [Chan -> ChanT], AllCalm(chan), NEW h \in Chan, chan[h].buf # <<>>, NEW co,
           from_buffer(h, 1, co), coro \in [Coro -> CoroT], Shape(chan, coro, running)
    PROVE  AllCalm(chan')
  <1>1. chan[h] \in ChanT /\ chan[h].buf \in Seq(ValueT) /\ Calm(chan[h], Capacity[h])
    BY ChanFields, Zenon DEF AllCalm
  <1>2. PICK rest : rest = SubSeq(chan[h].buf, 1 + 1, Len(chan[h].buf))
    BY Zenon
  <1>3. rest \in Seq(ValueT) /\ Len(rest) = Len(chan[h].buf) - 1 /\ Len(chan[h].buf) > 0 /\ Len(chan[h].buf) \in Nat
    BY <1>1, <1>2, SMTT(40)
  <1>4. ASSUME NEW v, v \in ValueT
        PROVE  Append(rest, v) \in Seq(ValueT) /\ Len(Append(rest, v)) = Len(chan[h].buf)
    BY <1>3, <1>4, SMTT(40)
  <1>5. CASE chan[h].sendQ # <<>>
    <2>1. PICK v : v = coro[Head(chan[h].sendQ)].value
      BY Zenon
    <2>2. v \in ValueT
      <3>1. chan[h].sendQ \in Seq(Coro)
        BY <1>1, ChanFields, ZenonT(40)
      <3>2. Head(chan[h].sendQ) \in Coro
        BY ONLY <1>5, <3>1, SMTT(40)
      <3> QED
        BY <2>1, <3>2, CoroFields, ZenonT(40)
    <2>3. PICK b, t : b = Append(rest, v) /\ t = Tail(chan[h].sendQ)
      BY Zenon
    <2>4. chan' = [chan EXCEPT ![h].buf = b, ![h].sendQ = t]
      BY <1>2, <1>5, <2>1, <2>3, ZenonT(40) DEF from_buffer
    <2>5. PICK r : r = [chan[h] EXCEPT !.buf = b, !.sendQ = t]
      BY Zenon
    <2>6. chan[h] \in ChanT
      BY <1>1, ZenonT(40)
    <2>7. /\ r.buf = b /\ r.closed = chan[h].closed /\ r.recvQ = chan[h].recvQ /\ r.sendSel = chan[h].sendSel
          /\ r.recvSel = chan[h].recvSel
      BY ONLY <2>5, <2>6, ZenonT(40) DEF ChanT
    <2>8. chan'[h] = r /\ \A g \in Chan \ {h} : chan'[g] = chan[g]
      BY <2>4, <2>5, ZenonT(40)
    <2>9. Len(b) = Len(chan[h].buf)
      BY <1>4, <2>2, <2>3, ZenonT(40)
    <2>10. Calm(r, Capacity[h])
      BY <1>1, <1>5, <2>7, <2>9, ZenonT(40) DEF Calm
    <2> QED
      BY <2>8, <2>10, CalmReplace, ZenonT(40)
  <1>6. CASE chan[h].sendQ = <<>> /\ chan[h].sendSel # <<>>
    <2>1. PICK s, i : s = Head(chan[h].sendSel)[1] /\ i = Head(chan[h].sendSel)[2]
      BY Zenon
    <2>2. PICK v : v = coro[s].cases[i].val
      BY Zenon
    <2>3. v \in ValueT
      BY <1>6, <2>1, <2>2, FirstNode, NodeFacts, ZenonT(40)
    <2>4. PICK b : b = Append(rest, v)
      BY Zenon
    <2>5. PICK chs : chs = [chan EXCEPT ![h].buf = b]
      BY Zenon
    <2>6. chan' = select_dequeue_all(chs, s)
      BY <1>2, <1>6, <2>1, <2>2, <2>4, <2>5, ZenonT(40) DEF from_buffer
    <2>7. PICK r : r = [chan[h] EXCEPT !.buf = b]
      BY Zenon
    <2>8. chan[h] \in ChanT /\ b \in Seq(ValueT) /\ Len(b) = Len(chan[h].buf)
      BY <1>1, <1>4, <2>3, <2>4, ZenonT(40)
    <2>81. chan[h] \in ChanT
      BY <1>1, Zenon
    <2>9. /\ r \in ChanT /\ r.buf = b /\ r.closed = chan[h].closed /\ r.recvQ = chan[h].recvQ /\ r.sendSel = chan[h].sendSel
          /\ r.recvSel = chan[h].recvSel /\ r.sendQ = chan[h].sendQ
      BY ONLY <2>7, <2>8, <2>81, ZenonT(40) DEF ChanT
    <2>10. chs[h] = r /\ chs \in [Chan -> ChanT] /\ \A g \in Chan \ {h} : chs[g] = chan[g]
      BY <2>5, <2>7, <2>9, ZenonT(40)
    <2>11. Calm(r, Capacity[h])
      BY <1>1, <1>6, <2>8, <2>9, ZenonT(40) DEF Calm
    <2>12. AllCalm(chs)
      BY <2>10, <2>11, CalmReplace, ZenonT(40)
    <2> QED
      BY <2>6, <2>10, <2>12, DequeueFewer, CalmFewer, ZenonT(40)
  <1>7. CASE chan[h].sendQ = <<>> /\ chan[h].sendSel = <<>>
    <2>1. chan' = [chan EXCEPT ![h].buf = rest]
      BY <1>2, <1>7, ZenonT(40) DEF from_buffer
    <2>2. PICK r : r = [chan[h] EXCEPT !.buf = rest]
      BY Zenon
    <2>3. chan[h] \in ChanT
      BY <1>1, Zenon
    <2>4. /\ r.closed = chan[h].closed /\ r.recvQ = chan[h].recvQ /\ r.sendSel = chan[h].sendSel
          /\ r.recvSel = chan[h].recvSel /\ r.sendQ = chan[h].sendQ
      BY ONLY <2>2, <2>3, ZenonT(40) DEF ChanT
    <2>5. chan'[h] = r /\ \A g \in Chan \ {h} : chan'[g] = chan[g]
      BY <2>1, <2>2, ZenonT(40)
    <2>6. Calm(r, Capacity[h])
      BY <1>1, <1>7, <2>4, ZenonT(40) DEF Calm
    <2> QED
      BY <2>5, <2>6, CalmReplace, Zenon
  <1> QED
    BY <1>5, <1>6, <1>7, ZenonT(40)

\* A call blocks only where there is nothing to be had.
LEMMA CalmBlock ==
    ASSUME chan \in [Chan -> ChanT], BufOK(chan), AllCalm(chan), NEW c \in Coro, NEW h \in Chan,
           NEW side \in {"sendQ", "recvQ"}, NEW v, NEW co, block(c, h, side, v, chan, co), ~chan[h].closed,
           side = "sendQ" => NoReceiver(h) /\ ~HasRoom(h),
           side = "recvQ" => chan[h].buf = <<>> /\ NoSender(h)
    PROVE  AllCalm(chan')
  <1>1. /\ chan[h] \in ChanT /\ chan[h].buf \in Seq(ValueT) /\ chan[h].refcount \in Int
        /\ Calm(chan[h], Capacity[h]) /\ Len(chan[h].buf) <= Capacity[h] /\ Capacity[h] \in Nat
    BY ChanFields, ChannelAssumption, ZenonT(40) DEF AllCalm, BufOK
  <1>2. PICK x : x = Append(chan[h][side], c)
    BY Zenon
  <1>3. PICK r : r = [chan[h] EXCEPT ![side] = x, !.refcount = @ + 1]
    BY Zenon
  <1>4. chan'[h] = r /\ \A g \in Chan \ {h} : chan'[g] = chan[g]
    BY <1>2, <1>3, ZenonT(40) DEF block
  <1>5. chan[h] \in ChanT
    BY <1>1, ZenonT(40)
  <1>6. CASE side = "sendQ"
    <2>1. r = [chan[h] EXCEPT !.sendQ = x, !.refcount = @ + 1]
      BY <1>3, <1>6, ZenonT(40)
    <2>2. /\ r.buf = chan[h].buf /\ r.closed = chan[h].closed /\ r.recvQ = chan[h].recvQ
          /\ r.sendSel = chan[h].sendSel /\ r.recvSel = chan[h].recvSel
      BY ONLY <1>5, <2>1, ZenonT(40) DEF ChanT
    <2>3. NoReceiver(h) /\ Len(chan[h].buf) = Capacity[h]
      BY <1>1, <1>6, SMTT(40) DEF HasRoom
    <2> QED
      BY <1>1, <1>4, <2>2, <2>3, CalmReplace, SMTT(40) DEF Calm, NoReceiver
  <1>7. CASE side = "recvQ"
    <2>1. r = [chan[h] EXCEPT !.recvQ = x, !.refcount = @ + 1]
      BY <1>3, <1>7, ZenonT(40)
    <2>2. /\ r.buf = chan[h].buf /\ r.closed = chan[h].closed /\ r.sendQ = chan[h].sendQ
          /\ r.sendSel = chan[h].sendSel /\ r.recvSel = chan[h].recvSel
      BY ONLY <1>5, <2>1, ZenonT(40) DEF ChanT
    <2> QED
      BY <1>1, <1>4, <1>7, <2>2, CalmReplace, SMTT(40) DEF Calm, NoSender
  <1> QED
    BY <1>6, <1>7, ZenonT(40)

\* The buffer changes while there is nobody to tell.
LEMMA CalmSetBuf ==
    ASSUME chan \in [Chan -> ChanT], AllCalm(chan), NEW h \in Chan, NEW b, NEW chs, chs = [chan EXCEPT ![h].buf = b],
           \/ NoReceiver(h) /\ NoSender(h)
           \/ NoReceiver(h) /\ HasRoom(h)
           \/ b = chan[h].buf
    PROVE  AllCalm(chs)
  <1>1. chan[h] \in ChanT /\ chan[h].buf \in Seq(ValueT) /\ Calm(chan[h], Capacity[h]) /\ Capacity[h] \in Nat
    BY ChanFields, ChannelAssumption, ZenonT(40) DEF AllCalm
  <1>2. PICK r : r = [chan[h] EXCEPT !.buf = b]
    BY Zenon
  <1>3. chs[h] = r /\ \A g \in Chan \ {h} : chs[g] = chan[g]
    BY <1>2, ZenonT(40)
  <1>4. chan[h] \in ChanT
    BY <1>1, ZenonT(40)
  <1>5. /\ r.buf = b /\ r.closed = chan[h].closed /\ r.recvQ = chan[h].recvQ /\ r.sendQ = chan[h].sendQ
        /\ r.sendSel = chan[h].sendSel /\ r.recvSel = chan[h].recvSel
    BY ONLY <1>2, <1>4, ZenonT(40) DEF ChanT
  <1>6. HasRoom(h) => NoSender(h)
    BY <1>1, SMTT(40) DEF HasRoom, NoSender, Calm
  <1>7. Calm(r, Capacity[h])
    BY <1>1, <1>5, <1>6, ZenonT(40) DEF Calm, NoSender, NoReceiver
  <1> QED
    BY <1>3, <1>7, CalmReplace, ZenonT(40)

\* coco_channel_send() up to its coco_yield().
LEMMA CalmSend ==
    ASSUME Library, ChanInv, AllCalm(chan), NEW c \in Coro, NEW h \in Chan, coco_channel_send(c, h)
    PROVE  AllCalm(chan')
  <1>1. chan \in [Chan -> ChanT] /\ BufOK(chan)
    BY Types, ZenonT(40)
  <1>2. PICK v : v = made + 1
    BY Zenon
  <1>3. CASE Dangling(h)
    BY <1>3, ZenonT(40) DEF coco_channel_send, Crash
  <1>4. CASE to_receiver(h, v, chan, coro)
    BY <1>1, <1>4, CalmToReceiver, ZenonT(40)
  <1>5. CASE NoReceiver(h) /\ HasRoom(h) /\ chan' = [chan EXCEPT ![h].buf = Append(@, v)]
    <2>1. PICK b : b = Append(chan[h].buf, v)
      BY Zenon
    <2>2. chan' = [chan EXCEPT ![h].buf = b]
      BY <1>5, <2>1, ZenonT(40)
    <2> QED
      BY <1>1, <1>5, <2>2, CalmSetBuf, ZenonT(40)
  <1>6. ASSUME NEW co, NoReceiver(h), ~HasRoom(h), block(c, h, "sendQ", v, chan, co)
        PROVE  AllCalm(chan')
    <2>1. PICK side : side = "sendQ"
      BY Zenon
    <2>2. block(c, h, side, v, chan, co) /\ ~chan[h].closed /\ side \in {"sendQ", "recvQ"} /\ side # "recvQ"
      BY <1>6, <2>1, ZenonT(40) DEF coco_channel_send
    <2> QED
      BY <1>1, <1>6, <2>2, CalmBlock, ZenonT(40)
  <1> QED
    BY <1>2, <1>3, <1>4, <1>5, <1>6, ZenonT(40) DEF coco_channel_send

\* coco_channel_recv() up to its coco_yield().
LEMMA CalmRecv ==
    ASSUME Library, ChanInv, AllCalm(chan), NEW c \in Coro, NEW h \in Chan, coco_channel_recv(c, h)
    PROVE  AllCalm(chan')
  <1>1. /\ chan \in [Chan -> ChanT] /\ coro \in [Coro -> CoroT] /\ BufOK(chan) /\ Shape(chan, coro, running)
    BY Types, ZenonT(40)
  <1>2. CASE Dangling(h)
    BY <1>2, ZenonT(40) DEF coco_channel_recv, Crash
  <1>3. CASE chan[h].buf # <<>> /\ from_buffer(h, 1, coro)
    BY <1>1, <1>3, CalmFromBuffer, ZenonT(40)
  <1>4. CASE from_sender(h, coro)
    BY <1>1, <1>4, CalmFromSender, ZenonT(40)
  <1>5. CASE chan[h].buf = <<>> /\ NoSender(h) /\ block(c, h, "recvQ", None, chan, Started(c, "recv", h))
    <2>1. PICK side, co : side = "recvQ" /\ co = Started(c, "recv", h)
      BY Zenon
    <2>2. block(c, h, side, None, chan, co) /\ ~chan[h].closed /\ side \in {"sendQ", "recvQ"} /\ side # "sendQ"
      BY <1>5, <2>1, ZenonT(40) DEF coco_channel_recv, Drained
    <2> QED
      BY <1>1, <1>5, <2>2, CalmBlock, ZenonT(40)
  <1> QED
    BY <1>2, <1>3, <1>4, <1>5, ZenonT(40) DEF coco_channel_recv

\* A select sends at once.
LEMMA CalmSelectSend ==
    ASSUME Library, ChanInv, AllCalm(chan), NEW h \in Chan, NEW v \in ValueT, select_send(h, v),
           chan[h].closed \/ HasRoom(h) \/ ~NoReceiver(h)
    PROVE  AllCalm(chan')
  <1>1. chan \in [Chan -> ChanT] /\ chan[h].buf \in Seq(ValueT) /\ Calm(chan[h], Capacity[h])
    BY Types, ChanFields, ZenonT(40) DEF AllCalm
  <1>2. PICK b : b = Append(chan[h].buf, v)
    BY Zenon
  <1>3. CASE UNCHANGED chan
    BY <1>3, ZenonT(40)
  <1>4. CASE ~chan[h].closed /\ NoReceiver(h) /\ chan' = [chan EXCEPT ![h].buf = b]
    BY <1>1, <1>4, CalmSetBuf, ZenonT(40)
  <1>5. CASE to_receiver(h, Head(b), [chan EXCEPT ![h].buf = Tail(b)], coro)
    <2>1. PICK chs, u, t : chs = [chan EXCEPT ![h].buf = t] /\ t = Tail(b) /\ u = Head(b)
      BY Zenon
    <2>2. to_receiver(h, u, chs, coro)
      BY <1>5, <2>1, ZenonT(40)
    <2>3. chan[h].buf = <<>>
      BY <1>1, <2>2, ZenonT(40) DEF to_receiver, Calm
    <2>4. t = chan[h].buf
      BY <1>2, <2>1, <2>3, SMTT(40)
    <2>5. chs = chan
      <3>1. chan[h] \in ChanT
        BY <1>1, ZenonT(40)
      <3>2. [chan[h] EXCEPT !.buf = t] = chan[h]
        BY ONLY <2>4, <3>1, ZenonT(40) DEF ChanT
      <3> QED
        BY <1>1, <2>1, <3>2, ZenonT(40)
    <2>6. to_receiver(h, u, chan, coro)
      BY <2>2, <2>5, ZenonT(40)
    <2> QED
      BY <1>1, <2>6, CalmToReceiver, ZenonT(40)
  <1> QED
    BY <1>2, <1>3, <1>4, <1>5, ZenonT(40) DEF select_send

\* A select receives at once.
LEMMA CalmSelectRecv ==
    ASSUME Library, ChanInv, AllCalm(chan), NEW h \in Chan, select_recv(h)
    PROVE  AllCalm(chan')
  <1>1. chan \in [Chan -> ChanT] /\ coro \in [Coro -> CoroT] /\ Shape(chan, coro, running)
    BY Types, ZenonT(40)
  <1> QED
    BY <1>1, CalmFromBuffer, CalmFromSender, ZenonT(40) DEF select_recv

\* A select registers its cases only when none of them is ready.
LEMMA CalmRegister ==
    ASSUME Library, ChanInv, AllCalm(chan), NEW c \in Coro, NEW cs \in Seq(CaseT), select_register(c, cs),
           \A i \in 1..Len(cs) : ~CaseReady(cs, i)
    PROVE  AllCalm(chan')
  <1> SUFFICES ASSUME NEW g \in Chan
               PROVE  Calm(chan'[g], Capacity[g])
    BY Zenon DEF AllCalm
  <1>1. /\ chan[g] \in ChanT /\ chan[g].buf \in Seq(ValueT) /\ Capacity[g] \in Nat /\ Len(chan[g].buf) <= Capacity[g]
        /\ Calm(chan[g], Capacity[g]) /\ chan[g].sendSel \in Seq(Coro \X Nat) /\ chan[g].recvSel \in Seq(Coro \X Nat)
    BY Types, ChanFields, ChannelAssumption, ZenonT(40) DEF AllCalm, BufOK
  <1>2. PICK t, f : t = TRUE /\ f = FALSE
    BY Zenon
  <1>3. PICK a, b : a = Nodes(c, cs, g, t) /\ b = Nodes(c, cs, g, f)
    BY Zenon
  <1>4. PICK x, y : x = chan[g].sendSel \o a /\ y = chan[g].recvSel \o b
    BY ZenonT(40)
  <1>5. /\ a \in Seq(Coro \X Nat)
        /\ \A z : z \in Range(a) <=> \E i \in 1..Len(cs) : z = <<c, i>> /\ cs[i].on = g /\ cs[i].send = t
    BY <1>3, NodesFacts, SMTT(40)
  <1>6. /\ b \in Seq(Coro \X Nat)
        /\ \A z : z \in Range(b) <=> \E i \in 1..Len(cs) : z = <<c, i>> /\ cs[i].on = g /\ cs[i].send = f
    BY <1>3, NodesFacts, SMTT(40)
  <1>7. ASSUME a # <<>>
        PROVE  ~chan[g].closed /\ ~HasRoom(g) /\ ~(Capacity[g] = 0 /\ chan[g].recvQ # <<>>)
    <2>1. PICK z : z \in Range(a)
      BY <1>5, <1>7, RangeFacts, ZenonT(40)
    <2>2. PICK i \in 1..Len(cs) : cs[i].on = g /\ cs[i].send = t
      BY <1>5, <2>1, ZenonT(40)
    <2> QED
      BY <1>2, <2>2, ZenonT(40) DEF CaseReady
  <1>8. ASSUME b # <<>>
        PROVE  chan[g].buf = <<>> /\ ~(Capacity[g] = 0 /\ chan[g].sendQ # <<>>)
    <2>1. PICK z : z \in Range(b)
      BY <1>6, <1>8, RangeFacts, Zenon
    <2>2. PICK i \in 1..Len(cs) : cs[i].on = g /\ cs[i].send = f
      BY <1>6, <2>1, Zenon
    <2> QED
      BY <1>2, <2>2, ZenonT(40) DEF CaseReady
  <1>9. /\ x # <<>> => chan[g].sendSel # <<>> \/ a # <<>>
        /\ y # <<>> => chan[g].recvSel # <<>> \/ b # <<>>
    <2>1. <<>> \o <<>> = <<>>
      OBVIOUS
    <2> QED
      BY ONLY <1>4, <2>1, ZenonT(40)
  <1>10. chan'[g] = [chan[g] EXCEPT !.sendSel = x, !.recvSel = y]
    BY <1>2, <1>3, <1>4, ZenonT(40) DEF select_register
  <1>11. chan[g] \in ChanT
    BY <1>1, ZenonT(40)
  <1>12. PICK r : r = [chan[g] EXCEPT !.sendSel = x, !.recvSel = y]
    BY Zenon
  <1>13. /\ r.buf = chan[g].buf /\ r.closed = chan[g].closed /\ r.recvQ = chan[g].recvQ /\ r.sendQ = chan[g].sendQ
         /\ r.sendSel = x /\ r.recvSel = y
    BY ONLY <1>11, <1>12, ZenonT(40) DEF ChanT
  <1>14. /\ a # <<>> => Len(chan[g].buf) = Capacity[g] /\ chan[g].recvQ = <<>> /\ ~chan[g].closed
         /\ b # <<>> => chan[g].buf = <<>> /\ chan[g].sendQ = <<>>
    BY <1>1, <1>7, <1>8, SMTT(40) DEF HasRoom, Calm
  <1>15. Calm(r, Capacity[g])
    BY ONLY <1>1, <1>9, <1>13, <1>14, ZenonT(40) DEF Calm
  <1> QED
    BY <1>10, <1>12, <1>15, ZenonT(40)

\* coco_channel_select() up to its coco_yield().
LEMMA CalmSelect ==
    ASSUME Library, ChanInv, AllCalm(chan), NEW c \in Coro, coco_channel_select(c)
    PROVE  AllCalm(chan')
  <1>1. CASE Crash("use after free")
    BY <1>1, ZenonT(40) DEF Crash
  <1>2. ASSUME NEW cs \in Seq(CaseT), \A i \in 1..Len(cs) : cs[i].on \in Chan /\ cs[i].val \in ValueT,
               SelectTries(c, cs)
        PROVE  AllCalm(chan')
    <2>1. ASSUME NEW i \in 1..Len(cs), CaseReady(cs, i),
                 IF cs[i].send THEN select_send(cs[i].on, cs[i].val) ELSE select_recv(cs[i].on)
          PROVE  AllCalm(chan')
      <3>1. CASE cs[i].send
        <4>1. chan[cs[i].on].closed \/ HasRoom(cs[i].on) \/ ~NoReceiver(cs[i].on)
          BY <2>1, <3>1, ZenonT(40) DEF CaseReady, NoReceiver, HasRoom
        <4> QED
          BY <1>2, <2>1, <3>1, <4>1, CalmSelectSend, ZenonT(40)
      <3>2. CASE ~cs[i].send
        BY <1>2, <2>1, <3>2, CalmSelectRecv, ZenonT(40)
      <3> QED
        BY <3>1, <3>2, ZenonT(40)
    <2>2. CASE select_register(c, cs) /\ \A i \in 1..Len(cs) : ~CaseReady(cs, i)
      BY <2>2, CalmRegister, ZenonT(40)
    <2> QED
      BY <1>2, <2>1, <2>2, ZenonT(40) DEF SelectTries
  <1> QED
    BY <1>1, <1>2, SelectPlan, ZenonT(40)

\* A reference is dropped.
LEMMA CalmUnref ==
    ASSUME chan \in [Chan -> ChanT], AllCalm(chan), NEW h \in Chan, chan' = coco_channel_unref(h)
    PROVE  AllCalm(chan')
  <1>1. PICK n : n = chan[h].refcount - 1
    BY Zenon
  <1>2. PICK r : r = [chan[h] EXCEPT !.refcount = n]
    BY Zenon
  <1>3. chan'[h] = r /\ \A g \in Chan \ {h} : chan'[g] = chan[g]
    BY <1>1, <1>2, ZenonT(40) DEF coco_channel_unref
  <1>4. chan[h] \in ChanT
    BY Zenon
  <1>5. /\ r.buf = chan[h].buf /\ r.closed = chan[h].closed /\ r.recvQ = chan[h].recvQ /\ r.sendQ = chan[h].sendQ
        /\ r.sendSel = chan[h].sendSel /\ r.recvSel = chan[h].recvSel
    BY ONLY <1>2, <1>4, ZenonT(40) DEF ChanT
  <1>6. \A g \in Chan : Fewer(chan[g], chan'[g])
    BY <1>3, <1>5, ZenonT(40) DEF Fewer
  <1> QED
    BY <1>6, CalmFewer, ZenonT(40)

\* The rest of a call that has been woken.
LEMMA CalmResume ==
    ASSUME ChanInv, AllCalm(chan), NEW c \in Coro, resume_send(c) \/ resume_recv(c) \/ resume_select(c)
    PROVE  AllCalm(chan')
  <1>1. chan \in [Chan -> ChanT]
    BY Types, ZenonT(40)
  <1>2. CASE UNCHANGED chan
    BY <1>2, ZenonT(40)
  <1>3. CASE coro[c].op \in {"send", "recv"} /\ chan' = coco_channel_unref(coro[c].on)
    <2>1. coro[c].on \in Chan
      <3>1. CoroOK(coro[c], running = c)
        BY Zenon DEF ChanInv, Shape
      <3> QED
        BY <1>3, <3>1, ZenonT(40) DEF CoroOK, Plain
    <2> QED
      BY <1>1, <1>3, <2>1, CalmUnref, ZenonT(40)
  <1> QED
    BY <1>2, <1>3, ZenonT(40) DEF resume_send, resume_recv, resume_select, Resumes, Crash

\* All who wait for a channel are made ready, whether it is closed or
\* destroyed.
LEMMA CalmWakeAll ==
    ASSUME Library, ChanInv, AllCalm(chan), NEW h \in Chan, NEW nodes \in Seq(Coro \X Nat), NEW destroy,
           Range(nodes) = Range(chan[h].sendSel) \cup Range(chan[h].recvSel),
           NEW chs \in [Chan -> ChanT],
           \A g \in Chan : SameQueues(chan[g], chs[g]) /\ SameNodes(chan[g], chs[g]) /\ chs[g].buf = chan[g].buf,
           \A g \in Chan \ {h} : chs[g].closed = chan[g].closed,
           wake_all(h, chs, nodes, destroy)
    PROVE  AllCalm(chan')
  <1>1. PICK sel : sel = {x[1] : x \in Range(nodes)}
    BY Zenon
  <1>2. chan' = [g \in Chan |->
                      [chs[g] EXCEPT !.sendSel = Without(@, sel \X Nat),
                                     !.recvSel = Without(@, sel \X Nat),
                                     !.sendQ = IF g = h THEN <<>> ELSE @,
                                     !.recvQ = IF g = h THEN <<>> ELSE @]]
    BY <1>1, ZenonT(40) DEF wake_all
  <1> SUFFICES ASSUME NEW g \in Chan
               PROVE  Calm(chan'[g], Capacity[g])
    BY Zenon DEF AllCalm
  <1>3. /\ chs[g].sendSel \in Seq(Coro \X Nat) /\ chs[g].recvSel \in Seq(Coro \X Nat)
        /\ Calm(chan[g], Capacity[g])
    BY ChanFields, ZenonT(40) DEF AllCalm
  <1>4. PICK x : x = Without(chs[g].sendSel, sel \X Nat)
    BY Zenon
  <1>5. PICK y : y = Without(chs[g].recvSel, sel \X Nat)
    BY Zenon
  <1>6. PICK p : p = IF g = h THEN <<>> ELSE chs[g].sendQ
    BY Zenon
  <1>7. PICK q : q = IF g = h THEN <<>> ELSE chs[g].recvQ
    BY Zenon
  <1>8. PICK r : r = [chs[g] EXCEPT !.sendSel = x, !.recvSel = y, !.sendQ = p, !.recvQ = q]
    BY Zenon
  <1>9. chan'[g] = r
    BY ONLY <1>2, <1>4, <1>5, <1>6, <1>7, <1>8, g \in Chan, ZenonT(40)
  <1>10. chs[g] \in ChanT
    BY Zenon
  <1>11. /\ r.buf = chs[g].buf /\ r.closed = chs[g].closed
         /\ r.sendSel = x /\ r.recvSel = y /\ r.sendQ = p /\ r.recvQ = q
    BY ONLY <1>8, <1>10, ZenonT(40) DEF ChanT
  <1>12. CASE g = h
    <2>1. Range(chs[g].sendSel) \subseteq sel \X Nat /\ Range(chs[g].recvSel) \subseteq sel \X Nat
      <3>1. ASSUME NEW z \in Range(nodes) PROVE z \in sel \X Nat
        <4>1. z \in Coro \X Nat
          BY RangeFacts, ZenonT(40)
        <4> QED
          BY <1>1, <4>1, ZenonT(40)
      <3>2. Range(nodes) = Range(chs[g].sendSel) \cup Range(chs[g].recvSel)
        BY <1>12, ZenonT(40) DEF SameNodes
      <3> QED
        BY <3>1, <3>2, ZenonT(40)
    <2>2. x = <<>> /\ y = <<>> /\ p = <<>> /\ q = <<>>
      BY <1>3, <1>4, <1>5, <1>6, <1>7, <1>12, <2>1, WithoutEmpty, ZenonT(40)
    <2> QED
      BY ONLY <1>9, <1>11, <2>2, ZenonT(40) DEF Calm
  <1>13. CASE g # h
    <2>1. (chs[g].sendSel = <<>> => x = <<>>) /\ (chs[g].recvSel = <<>> => y = <<>>)
      BY ONLY Library, <1>3, <1>4, <1>5, WithoutEmpty, ZenonT(40)
    <2>2. /\ p = chan[g].sendQ /\ q = chan[g].recvQ /\ chs[g].buf = chan[g].buf /\ chs[g].closed = chan[g].closed
          /\ chs[g].sendSel = chan[g].sendSel /\ chs[g].recvSel = chan[g].recvSel
      BY <1>6, <1>7, <1>13, ZenonT(40) DEF SameQueues, SameNodes
    <2> QED
      BY ONLY <1>3, <1>9, <1>11, <2>1, <2>2, ZenonT(40) DEF Calm
  <1> QED
    BY <1>12, <1>13, ZenonT(40)

\* coco_channel_close() empties the queues before anybody sees the channel
\* closed.
LEMMA CalmClose ==
    ASSUME Library, ChanInv, AllCalm(chan), NEW h \in Chan, coco_channel_close(h)
    PROVE  AllCalm(chan')
  <1>1. chan \in [Chan -> ChanT]
    BY Types, ZenonT(40)
  <1>2. CASE chan' = chan
    BY <1>2, ZenonT(40)
  <1>3. CASE wake_all(h, [chan EXCEPT ![h].closed = TRUE], chan[h].recvSel \o chan[h].sendSel, FALSE)
    <2>1. PICK nodes : nodes = chan[h].recvSel \o chan[h].sendSel
      BY Zenon
    <2>2. chan[h].sendSel \in Seq(Coro \X Nat) /\ chan[h].recvSel \in Seq(Coro \X Nat)
      BY <1>1, ChanFields, ZenonT(40)
    <2>3. nodes \in Seq(Coro \X Nat) /\ Range(nodes) = Range(chan[h].sendSel) \cup Range(chan[h].recvSel)
      BY ONLY <2>1, <2>2, RangeFacts
    <2>4. PICK r : r = [chan[h] EXCEPT !.closed = TRUE]
      BY Zenon
    <2>5. chan[h] \in ChanT
      BY <1>1, ZenonT(40)
    <2>6. r \in ChanT /\ r.buf = chan[h].buf /\ SameQueues(chan[h], r) /\ SameNodes(chan[h], r)
      BY ONLY <2>4, <2>5, ZenonT(40) DEF ChanT, SameQueues, SameNodes
    <2>7. PICK chs : chs = [chan EXCEPT ![h].closed = TRUE]
      BY Zenon
    <2>8. chs \in [Chan -> ChanT] /\ chs[h] = r /\ \A g \in Chan \ {h} : chs[g] = chan[g]
      BY <1>1, <2>4, <2>6, <2>7, ZenonT(40)
    <2>9. /\ \A g \in Chan : SameQueues(chan[g], chs[g]) /\ SameNodes(chan[g], chs[g]) /\ chs[g].buf = chan[g].buf
          /\ \A g \in Chan \ {h} : chs[g].closed = chan[g].closed
      BY <2>6, <2>8, ZenonT(40) DEF SameQueues, SameNodes
    <2>10. PICK destroy : destroy = FALSE
      BY Zenon
    <2>11. wake_all(h, chs, nodes, destroy)
      BY <1>3, <2>1, <2>7, <2>10, ZenonT(40)
    <2> QED
      BY <2>3, <2>8, <2>9, <2>11, CalmWakeAll, ZenonT(40)
  <1> QED
    BY <1>2, <1>3, ZenonT(40) DEF coco_channel_close, Crash

\* coco_channel_destroy().
LEMMA CalmDestroy ==
    ASSUME Library, ChanInv, AllCalm(chan), NEW h \in Chan, coco_channel_destroy(h)
    PROVE  AllCalm(chan')
  <1>1. chan \in [Chan -> ChanT]
    BY Types, Zenon
  <1>2. CASE chan' = chan
    BY <1>2, Zenon
  <1>3. CASE wake_all(h, [coco_channel_unref(h) EXCEPT ![h].destroying = TRUE],
                      chan[h].sendSel \o chan[h].recvSel, TRUE)
    <2>1. PICK nodes : nodes = chan[h].sendSel \o chan[h].recvSel
      BY Zenon
    <2>2. /\ chan[h].sendSel \in Seq(Coro \X Nat) /\ chan[h].recvSel \in Seq(Coro \X Nat)
          /\ chan[h].refcount \in Int
      BY <1>1, ChanFields, ZenonT(40)
    <2>3. nodes \in Seq(Coro \X Nat) /\ Range(nodes) = Range(chan[h].sendSel) \cup Range(chan[h].recvSel)
      BY ONLY <2>1, <2>2, RangeFacts, SMTT(40)
    <2>4. PICK n : n = chan[h].refcount - 1
      BY ZenonT(40)
    <2>5. n \in Int
      BY <2>2, <2>4, SMTT(40)
    <2>6. PICK r : r = [chan[h] EXCEPT !.refcount = n, !.destroying = TRUE]
      BY ZenonT(40)
    <2>7. chan[h] \in ChanT
      BY <1>1, Zenon
    <2>8. r \in ChanT /\ r.buf = chan[h].buf /\ SameQueues(chan[h], r) /\ SameNodes(chan[h], r)
      BY ONLY <2>5, <2>6, <2>7, ZenonT(40) DEF ChanT, SameQueues, SameNodes
    <2>9. PICK chs : chs = [chan EXCEPT ![h] = r]
      BY Zenon
    <2>10. chs \in [Chan -> ChanT] /\ chs[h] = r /\ \A g \in Chan \ {h} : chs[g] = chan[g]
      BY <1>1, <2>8, <2>9, ZenonT(40)
    <2>11. /\ \A g \in Chan : SameQueues(chan[g], chs[g]) /\ SameNodes(chan[g], chs[g]) /\ chs[g].buf = chan[g].buf
           /\ \A g \in Chan \ {h} : chs[g].closed = chan[g].closed
      BY <2>8, <2>10, Zenon DEF SameQueues, SameNodes
    <2>12. chs = [coco_channel_unref(h) EXCEPT ![h].destroying = TRUE]
      <3>1. PICK u : u = coco_channel_unref(h)
        BY Zenon
      <3>2. u = [chan EXCEPT ![h].refcount = n]
        BY <2>4, <3>1, ZenonT(40) DEF coco_channel_unref
      <3>3. [u EXCEPT ![h].destroying = TRUE] = chs
        BY <1>1, <2>6, <2>9, <3>2, ZenonT(40)
      <3> QED
        BY <3>1, <3>3, ZenonT(40)
    <2>13. PICK destroy : destroy = TRUE
      BY ZenonT(40)
    <2>14. wake_all(h, chs, nodes, destroy)
      BY <1>3, <2>1, <2>12, <2>13, ZenonT(40)
    <2> QED
      BY <2>3, <2>10, <2>11, <2>14, CalmWakeAll, Zenon
  <1> QED
    BY <1>2, <1>3, ZenonT(40) DEF coco_channel_destroy, Crash

\* coco_cancel() only takes a coroutine out of its queue.
LEMMA CalmCancel ==
    ASSUME Library, ChanInv, AllCalm(chan), NEW c \in Coro, coco_cancel(c)
    PROVE  AllCalm(chan')
  <1>1. chan \in [Chan -> ChanT] /\ coro \in [Coro -> CoroT]
    BY Types, ZenonT(40)
  <1>2. CASE chan' = chan
    BY <1>2, Zenon
  <1>3. CASE /\ coro[c].waits # None
             /\ chan' = coco_channel_remove_waiter(coco_channel_unref(coro[c].waits), coro[c].waits, c)
    <2>1. PICK h : h = coro[c].waits
      BY Zenon
    <2>2. h \in Chan
      BY <1>1, <1>3, <2>1, CoroFields, ZenonT(40)
    <2>3. PICK u : u = coco_channel_unref(h)
      BY Zenon
    <2>4. PICK n : n = chan[h].refcount - 1
      BY Zenon
    <2>5. u = [chan EXCEPT ![h].refcount = n]
      BY <2>3, <2>4, ZenonT(40) DEF coco_channel_unref
    <2>6. u[h] = [chan[h] EXCEPT !.refcount = n] /\ \A g \in Chan \ {h} : u[g] = chan[g]
      BY <1>1, <2>2, <2>5, ZenonT(40)
    <2>7. chan[h] \in ChanT
      BY <1>1, <2>2, ZenonT(40)
    <2>8. /\ u[h].sendQ = chan[h].sendQ /\ u[h].recvQ = chan[h].recvQ
      BY ONLY <2>6, <2>7, ZenonT(40) DEF ChanT
    <2>9. PICK x : x = Without(chan[h].sendQ, {c})
      BY Zenon
    <2>10. PICK y : y = Without(chan[h].recvQ, {c})
      BY Zenon
    <2>11. (chan[h].sendQ = <<>> => x = <<>>) /\ (chan[h].recvQ = <<>> => y = <<>>)
      <3>1. chan[h].sendQ \in Seq(Coro) /\ chan[h].recvQ \in Seq(Coro)
        BY <1>1, <2>2, ChanFields, ZenonT(40)
      <3> QED
        BY ONLY Library, <2>9, <2>10, <3>1, WithoutEmpty, ZenonT(40)
    <2>12. PICK r : r = [chan[h] EXCEPT !.refcount = n, !.sendQ = x, !.recvQ = y]
      BY Zenon
    <2>13. /\ r.buf = chan[h].buf /\ r.closed = chan[h].closed /\ r.sendQ = x /\ r.recvQ = y
           /\ r.sendSel = chan[h].sendSel /\ r.recvSel = chan[h].recvSel
      BY ONLY <2>7, <2>12, ZenonT(40) DEF ChanT
    <2>14. chan'[h] = r /\ \A g \in Chan \ {h} : chan'[g] = chan[g]
      <3>1. chan' = [u EXCEPT ![h].sendQ = Without(@, {c}), ![h].recvQ = Without(@, {c})]
        BY <1>3, <2>1, <2>3, ZenonT(40) DEF coco_channel_remove_waiter
      <3>2. u \in [Chan -> ChanT]
        <4>1. u[h] \in ChanT
          <5>1. n \in Int
            BY <1>1, <2>2, <2>4, ChanFields, SMTT(40)
          <5> QED
            BY ONLY <2>6, <2>7, <5>1, ZenonT(40) DEF ChanT
        <4> QED
          BY <1>1, <2>2, <2>5, <4>1, ZenonT(40)
      <3>3. chan' = [u EXCEPT ![h].sendQ = x, ![h].recvQ = y]
        BY ONLY <2>2, <2>8, <2>9, <2>10, <3>1, <3>2, ZenonT(40)
      <3> QED
        BY <1>1, <2>2, <2>6, <2>12, <3>2, <3>3, ZenonT(40)
    <2>15. \A g \in Chan : Fewer(chan[g], chan'[g])
      <3>1. Fewer(chan[h], r)
        BY ONLY <2>11, <2>13, ZenonT(40) DEF Fewer
      <3> QED
        BY <2>14, <3>1, ZenonT(40) DEF Fewer
    <2> QED
      BY <2>15, CalmFewer, ZenonT(40)
  <1> QED
    BY <1>2, <1>3, ZenonT(40) DEF coco_cancel

\* The timer of a select only takes its nodes out of the queues.
LEMMA CalmTimeout ==
    ASSUME Library, ChanInv, AllCalm(chan), NEW c \in Coro, select_timeout_cb(c)
    PROVE  AllCalm(chan')
  <1>1. chan \in [Chan -> ChanT] /\ chan' = select_dequeue_all(chan, c)
    BY Types, ZenonT(40) DEF select_timeout_cb
  <1> QED
    BY <1>1, DequeueFewer, CalmFewer, ZenonT(40)

\* In a program without batches no step leaves somebody waiting in vain.
LEMMA VainNext ==
    ASSUME Library, ChanInv, AllCalm(chan), [Next]_vars, program.ops \cap Batches = {},
           \A c \in Coro : coro[c].op \notin Looping, running = None
    PROVE  AllCalm(chan')
  <1>0. program.chans \subseteq Chan /\ None \notin Coro
    BY Types, ChannelAssumption, ZenonT(40)
  <1>1. CASE UNCHANGED vars
    BY <1>1, ZenonT(40) DEF vars
  <1>2. ASSUME NEW c \in Coro, NEW h \in program.chans, coco_channel_send(c, h)
        PROVE  AllCalm(chan')
    BY <1>0, <1>2, CalmSend, ZenonT(40)
  <1>3. ASSUME NEW c \in Coro, NEW h \in program.chans, coco_channel_recv(c, h)
        PROVE  AllCalm(chan')
    BY <1>0, <1>3, CalmRecv, ZenonT(40)
  <1>4. \A c \in Coro, h \in program.chans : ~coco_channel_send_batch(c, h) /\ ~coco_channel_recv_batch(c, h)
    BY ZenonT(40) DEF coco_channel_send_batch, coco_channel_recv_batch, Calls, Batches
  <1>6. ASSUME NEW c \in Coro, coco_channel_select(c)
        PROVE  AllCalm(chan')
    BY <1>6, CalmSelect, ZenonT(40)
  <1>7. ASSUME NEW c \in Coro, Resume(c)
        PROVE  AllCalm(chan')
    <2>1. ~resume_send_batch(c) /\ ~resume_recv_batch(c)
      BY Zenon DEF resume_send_batch, resume_recv_batch, Resumes, Looping
    <2> QED
      BY <1>7, <2>1, CalmResume, ZenonT(40) DEF Resume
  <1>8. \A c \in Coro : ~Loop(c)
    BY <1>0, ZenonT(40) DEF Loop, send_batch_loop, recv_batch_loop, recv_batch_more, Loops
  <1>9. ASSUME NEW c \in Coro, select_timeout_cb(c)
        PROVE  AllCalm(chan')
    BY <1>9, CalmTimeout, Zenon
  <1>10. ASSUME NEW c \in Coro, coco_cancel(c)
         PROVE  AllCalm(chan')
    BY <1>10, CalmCancel, Zenon
  <1>11. ASSUME NEW h \in program.chans, coco_channel_close(h)
         PROVE  AllCalm(chan')
    BY <1>0, <1>11, CalmClose, ZenonT(40)
  <1>12. ASSUME NEW h \in program.chans, coco_channel_destroy(h)
         PROVE  AllCalm(chan')
    BY <1>0, <1>12, CalmDestroy, ZenonT(40)
  <1> QED
    BY ONLY [Next]_vars, <1>1, <1>2, <1>3, <1>4, <1>6, <1>7, <1>8, <1>9, <1>10, <1>11, <1>12,
       ZenonT(40)
       DEF Next, Call, vars
=============================================================================
