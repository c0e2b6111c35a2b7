------------------------- MODULE ChannelShapeProofs -------------------------
(***************************************************************************)
(* What the queues, the calls and the selects of Channel are between two   *)
(* steps, whatever the number of coroutines and channels and their         *)
(* capacities: the invariant, and what the ways to enter and to leave a    *)
(* queue, to be woken and to change the references do to it.               *)
(***************************************************************************)
EXTENDS Channel, TLAPS

\* What the proofs take from the library. It is a hypothesis of the lemmas that
\* need it, and is proved at the end of ChannelProofs, where the theorems of the
\* library come into scope.
Library ==
    /\ \A T \in SUBSET Nat : T # {} => \E m \in T : \A k \in T : m <= k
    /\ \A S : IsFiniteSet(S) => Cardinality(S) \in Nat /\ (Cardinality(S) = 0 => S = {})
    /\ \A S : \A T \in SUBSET S : IsFiniteSet(S) => IsFiniteSet(T) /\ Cardinality(T) <= Cardinality(S)
    /\ \A S, x : IsFiniteSet(S) /\ x \notin S => Cardinality(S \cup {x}) = Cardinality(S) + 1
    /\ \A S, x : IsFiniteSet(S) /\ x \in S => Cardinality(S \ {x}) = Cardinality(S) - 1
    /\ Cardinality({}) = 0 /\ \A x : Cardinality({x}) = 1
    /\ \A a, b \in Int : IsFiniteSet(a..b)

\* A set of numbers that is not empty has a least element.
LEMMA LeastExists ==
    ASSUME Library, NEW T, T \subseteq Nat, T # {}
    PROVE  \E m \in T : \A k \in T : m <= k
  BY Zenon DEF Library

\* The sizes of finite sets.
LEMMA FiniteSize == ASSUME Library, NEW S, IsFiniteSet(S) PROVE Cardinality(S) \in Nat
  BY Zenon DEF Library

\* A part of a finite set.
LEMMA FiniteSubset ==
    ASSUME Library, NEW S, IsFiniteSet(S), NEW T \in SUBSET S
    PROVE  IsFiniteSet(T) /\ Cardinality(T) <= Cardinality(S)
  BY Zenon DEF Library

\* One element more.
LEMMA SizeAdd ==
    ASSUME Library, NEW S, NEW x, IsFiniteSet(S), x \notin S
    PROVE  Cardinality(S \cup {x}) = Cardinality(S) + 1
  BY Zenon DEF Library

\* One element less.
LEMMA SizeRemove ==
    ASSUME Library, NEW S, NEW x, IsFiniteSet(S), x \in S
    PROVE  Cardinality(S \ {x}) = Cardinality(S) - 1
  BY Zenon DEF Library

\* The empty set.
LEMMA EmptySize ==
    ASSUME Library
    PROVE  Cardinality({}) = 0 /\ \A S : IsFiniteSet(S) => (Cardinality(S) = 0 => S = {})
  BY Zenon DEF Library

\* A set of one.
LEMMA SingletonSize == ASSUME Library PROVE \A x : Cardinality({x}) = 1
  BY Zenon DEF Library

\* An interval.
LEMMA FiniteInterval == ASSUME Library, NEW a \in Int, NEW b \in Int PROVE IsFiniteSet(a..b)
  BY Zenon DEF Library

-----------------------------------------------------------------------------
(* Queues.                                                                 *)

\* The range of a queue is what stands in its places.
LEMMA InRange ==
    ASSUME NEW S, NEW q \in Seq(S)
    PROVE  \A x : x \in Range(q) <=> \E i \in 1..Len(q) : q[i] = x
  BY DEF Range

\* The range of a queue after it is entered, left or joined to another.
LEMMA RangeFacts ==
    ASSUME NEW S, NEW q \in Seq(S)
    PROVE  /\ Range(q) \subseteq S
           /\ Range(q) = {} <=> q = <<>>
           /\ q # <<>> => Head(q) \in Range(q) /\ Head(q) \in S /\ Tail(q) \in Seq(S)
           /\ q # <<>> => Range(q) = {Head(q)} \cup Range(Tail(q))
           /\ \A x \in S : Append(q, x) \in Seq(S) /\ Range(Append(q, x)) = Range(q) \cup {x}
           /\ \A r \in Seq(S) : q \o r \in Seq(S) /\ Range(q \o r) = Range(q) \cup Range(r)
  <1>1. /\ Range(q) \subseteq S
        /\ Range(q) = {} <=> q = <<>>
    BY SMTT(40) DEF Range
  <1>2. q # <<>> => Head(q) \in Range(q) /\ Head(q) \in S /\ Tail(q) \in Seq(S)
    BY DEF Range
  <1>3. ASSUME q # <<>> PROVE Range(q) = {Head(q)} \cup Range(Tail(q))
    <2>1. \A i \in 1..Len(q) : i = 1 \/ (i - 1 \in 1..Len(Tail(q)) /\ q[i] = Tail(q)[i - 1])
      BY <1>3
    <2>2. \A i \in 1..Len(Tail(q)) : i + 1 \in 1..Len(q) /\ Tail(q)[i] = q[i + 1]
      BY <1>3
    <2>3. Tail(q) \in Seq(S) /\ 1 \in 1..Len(q) /\ Head(q) = q[1]
      BY <1>3
    <2>5. /\ \A x : x \in Range(q) <=> \E i \in 1..Len(q) : q[i] = x
          /\ \A x : x \in Range(Tail(q)) <=> \E i \in 1..Len(Tail(q)) : Tail(q)[i] = x
      BY <2>3, InRange, Zenon
    <2>4. \A x : x \in Range(q) <=> (x = Head(q) \/ x \in Range(Tail(q)))
      BY ONLY <2>1, <2>2, <2>3, <2>5, ZenonT(40)
    <2> QED
      BY <2>4, Zenon
  <1>4. ASSUME NEW x \in S PROVE Append(q, x) \in Seq(S) /\ Range(Append(q, x)) = Range(q) \cup {x}
    <2>1. Append(q, x) \in Seq(S) /\ Len(Append(q, x)) = Len(q) + 1 /\ Append(q, x)[Len(q) + 1] = x
      OBVIOUS
    <2>2. \A i \in 1..Len(q) : Append(q, x)[i] = q[i] /\ i \in 1..(Len(q) + 1)
      OBVIOUS
    <2>3. \A i \in 1..(Len(q) + 1) : i \in 1..Len(q) \/ i = Len(q) + 1
      OBVIOUS
    <2>5. /\ \A y : y \in Range(q) <=> \E i \in 1..Len(q) : q[i] = y
          /\ \A y : y \in Range(Append(q, x)) <=> \E i \in 1..Len(Append(q, x)) : Append(q, x)[i] = y
      BY <2>1, InRange, Zenon
    <2>6. Len(q) + 1 \in 1..(Len(q) + 1)
      OBVIOUS
    <2>4. \A y : y \in Range(Append(q, x)) <=> (y \in Range(q) \/ y = x)
      BY ONLY <2>1, <2>2, <2>3, <2>5, <2>6, Zenon
    <2> QED
      BY <2>1, <2>4, Zenon
  <1>5. ASSUME NEW r \in Seq(S) PROVE q \o r \in Seq(S) /\ Range(q \o r) = Range(q) \cup Range(r)
    <2>1. q \o r \in Seq(S) /\ Len(q \o r) = Len(q) + Len(r)
      OBVIOUS
    <2>2. \A i \in 1..Len(q \o r) : IF i <= Len(q) THEN i \in 1..Len(q) /\ (q \o r)[i] = q[i]
                                    ELSE i - Len(q) \in 1..Len(r) /\ (q \o r)[i] = r[i - Len(q)]
      OBVIOUS
    <2>3. \A i \in 1..Len(q) : i \in 1..Len(q \o r) /\ (q \o r)[i] = q[i]
      OBVIOUS
    <2>4. \A i \in 1..Len(r) : i + Len(q) \in 1..Len(q \o r) /\ (q \o r)[i + Len(q)] = r[i]
      OBVIOUS
    <2>6. /\ \A y : y \in Range(q) <=> \E i \in 1..Len(q) : q[i] = y
          /\ \A y : y \in Range(r) <=> \E i \in 1..Len(r) : r[i] = y
          /\ \A y : y \in Range(q \o r) <=> \E i \in 1..Len(q \o r) : (q \o r)[i] = y
      BY <2>1, InRange, Zenon
    <2>5. \A y : y \in Range(q \o r) <=> (y \in Range(q) \/ y \in Range(r))
      BY ONLY <2>2, <2>3, <2>4, <2>6
    <2> QED
      BY <2>1, <2>5, Zenon
  <1> QED
    BY <1>1, <1>2, <1>3, <1>4, <1>5, Zenon

\* No coroutine is in a queue twice.
Once(q) == \A i, j \in 1..Len(q) : q[i] = q[j] => i = j

\* A queue whose head leaves, or that a newcomer enters, has nobody twice.
LEMMA OnceFacts ==
    ASSUME NEW S, NEW q \in Seq(S), Once(q)
    PROVE  /\ q # <<>> => Once(Tail(q)) /\ Head(q) \notin Range(Tail(q))
           /\ \A x \in S : x \notin Range(q) => Once(Append(q, x))
  <1>1. ASSUME q # <<>> PROVE Once(Tail(q)) /\ Head(q) \notin Range(Tail(q))
    <2>1. \A i \in 1..Len(Tail(q)) : i + 1 \in 1..Len(q) /\ Tail(q)[i] = q[i + 1]
      BY <1>1
    <2>2. 1 \in 1..Len(q) /\ Head(q) = q[1]
      BY <1>1
    <2> QED
      BY <2>1, <2>2 DEF Once, Range
  <1>2. ASSUME NEW x \in S, x \notin Range(q) PROVE Once(Append(q, x))
    BY <1>2 DEF Once, Range
  <1> QED
    BY <1>1, <1>2, Zenon

\* One step of Without(): the i-th member of the queue is looked at.
Keep(k, q, X, i) == IF q[i] \in X THEN k ELSE Append(k, q[i])

\* What has been kept of the first n members.
KeptOf(k, S, q, X, n) ==
    /\ k \in Seq(S) /\ Len(k) <= n
    /\ \A x : x \in Range(k) <=> x \notin X /\ \E i \in 1..n : q[i] = x
    /\ Once(q) => Once(k)

\* One more place of the queue is looked at.
LEMMA KeepOne ==
    ASSUME NEW S, NEW q \in Seq(S), NEW X, NEW n \in 1..Len(q), NEW k, KeptOf(k, S, q, X, n - 1)
    PROVE  KeptOf(Keep(k, q, X, n), S, q, X, n)
  <1>0. /\ k \in Seq(S) /\ Len(k) <= n - 1 /\ q[n] \in S /\ n \in Nat /\ n \in 1..n /\ Len(k) \in Nat
        /\ \A i \in 1..n : i \in 1..(n - 1) \/ i = n
        /\ \A i \in 1..(n - 1) : i \in 1..n /\ i \in 1..Len(q) /\ i # n
    BY DEF KeptOf
  <1>1. CASE q[n] \in X
    <2>1. \A x : x \in Range(k) <=> x \notin X /\ \E i \in 1..n : q[i] = x
      BY <1>0, <1>1, Zenon DEF KeptOf
    <2> QED
      BY <1>0, <1>1, <2>1 DEF KeptOf, Keep
  <1>2. CASE q[n] \notin X
    <2>1. Append(k, q[n]) \in Seq(S) /\ Range(Append(k, q[n])) = Range(k) \cup {q[n]} /\ Len(Append(k, q[n])) <= n
      BY <1>0, RangeFacts
    <2>2. \A x : x \in Range(Append(k, q[n])) <=> x \notin X /\ \E i \in 1..n : q[i] = x
      BY <1>0, <1>2, <2>1, Zenon DEF KeptOf
    <2>3. Once(q) => Once(Append(k, q[n]))
      <3> SUFFICES ASSUME Once(q) PROVE Once(Append(k, q[n]))
        BY Zenon
      <3>1. q[n] \notin Range(k)
        BY <1>0, Zenon DEF KeptOf, Once
      <3> QED
        BY <1>0, <3>1, OnceFacts, Zenon DEF KeptOf
    <2> QED
      BY <1>2, <2>1, <2>2, <2>3, Zenon DEF KeptOf, Keep
  <1> QED
    BY <1>1, <1>2, Zenon

\* Without() keeps the members of a queue that are not in X, in one place each.
LEMMA WithoutFacts ==
    ASSUME Library, NEW S, NEW q \in Seq(S), NEW X
    PROVE  /\ Without(q, X) \in Seq(S) /\ Len(Without(q, X)) <= Len(q)
           /\ Range(Without(q, X)) = Range(q) \ X
           /\ Once(q) => Once(Without(q, X))
  <1> DEFINE G(g) == [i \in 0..Len(q) |->
                         IF i = 0 THEN <<>>
                         ELSE IF q[i] \in X THEN g[i - 1] ELSE Append(g[i - 1], q[i])]
             kept == CHOOSE g : g = G(g)
             Has(n) == \E g : /\ DOMAIN g = 0..n /\ g[0] = <<>>
                              /\ \A i \in 1..n : g[i] = Keep(g[i - 1], q, X, i)
             Bad == {n \in Nat : ~Has(n)}
  <1>0. Len(q) \in Nat /\ \A i \in 1..Len(q) : q[i] \in S
    OBVIOUS
  <1>1. ASSUME NEW n \in Nat PROVE Has(n)
    <2> SUFFICES ASSUME Bad # {} PROVE FALSE
      BY Zenon
    <2>1. PICK m \in Bad : \A k \in Bad : m <= k
      BY LeastExists, Zenon
    <2>2. CASE m = 0
      <3> DEFINE g == [i \in 0..0 |-> <<>>]
      <3>1. DOMAIN g = 0..0 /\ g[0] = <<>> /\ \A i \in 1..0 : g[i] = Keep(g[i - 1], q, X, i)
        OBVIOUS
      <3>2. Has(0)
        BY <3>1, Zenon
      <3> QED
        BY <2>2, <3>2, Zenon
    <2>3. CASE m # 0
      <3>1. m - 1 \in Nat /\ m - 1 \notin Bad
        <4> HIDE DEF Has
        <4>1. m \in Nat /\ m - 1 \in Nat /\ ~(m <= m - 1)
          BY <2>3
        <4> QED
          BY <2>1, <4>1, Zenon
      <3>2. PICK g : /\ DOMAIN g = 0..(m - 1) /\ g[0] = <<>>
                     /\ \A i \in 1..(m - 1) : g[i] = Keep(g[i - 1], q, X, i)
        BY <3>1, Zenon
      <3> DEFINE h == [i \in 0..m |-> IF i = m THEN Keep(g[m - 1], q, X, m) ELSE g[i]]
      <3>3. DOMAIN h = 0..m /\ h[0] = <<>>
        <4>1. 0 \in 0..m
          BY <2>3
        <4> QED
          BY <2>3, <3>2, <4>1, Zenon
      <3>4. ASSUME NEW i \in 1..m PROVE h[i] = Keep(h[i - 1], q, X, i)
        <4>1. i \in 0..m /\ i - 1 \in 0..m /\ i - 1 # m
          OBVIOUS
        <4>2. CASE i = m
          BY <4>1, <4>2, Zenon
        <4>3. CASE i # m
          <5>1. i \in 1..(m - 1)
            BY <4>3
          <5> QED
            BY <3>2, <4>1, <4>3, <5>1, Zenon
        <4> QED
          BY <4>2, <4>3, Zenon
      <3>5. Has(m)
        BY <3>3, <3>4, Zenon
      <3> QED
        BY <3>5, Zenon
    <2> QED
      BY <2>2, <2>3, Zenon
  <1>2. \E g : g = G(g)
    <2>1. PICK g : /\ DOMAIN g = 0..Len(q) /\ g[0] = <<>>
                   /\ \A i \in 1..Len(q) : g[i] = Keep(g[i - 1], q, X, i)
      BY <1>0, <1>1, Zenon
    <2> DEFINE g1 == [i \in 0..Len(q) |-> g[i]]
    <2>2. \A i \in 0..Len(q) : g1[i] = G(g1)[i]
      <3> SUFFICES ASSUME NEW i \in 0..Len(q) PROVE g1[i] = G(g1)[i]
        BY Zenon
      <3>1. CASE i = 0
        BY <2>1, <3>1, Zenon
      <3>2. CASE i # 0
        <4>1. i \in 1..Len(q) /\ i - 1 \in 0..Len(q)
          BY <1>0, <3>2
        <4> QED
          BY <2>1, <3>2, <4>1, Zenon DEF Keep
      <3> QED
        BY <3>1, <3>2, Zenon
    <2>3. g1 = G(g1)
      BY <2>2, Zenon
    <2> QED
      BY <2>3, Zenon
  <1>3. kept = G(kept)
    BY <1>2, Zenon
  <1>4. Without(q, X) = kept[Len(q)]
    BY Zenon DEF Without
  <1> HIDE DEF kept
  <1>5. /\ kept[0] = <<>>
        /\ \A i \in 1..Len(q) : kept[i] = Keep(kept[i - 1], q, X, i)
    <2>1. \A i \in 0..Len(q) : kept[i] = G(kept)[i]
      BY <1>3, Zenon
    <2>2. 0 \in 0..Len(q) /\ \A i \in 1..Len(q) : i \in 0..Len(q) /\ i # 0
      BY <1>0
    <2> QED
      BY <2>1, <2>2, Zenon DEF Keep
  <1> DEFINE Fails == {n \in Nat : n <= Len(q) /\ ~KeptOf(kept[n], S, q, X, n)}
  <1>6. Fails = {}
    <2> SUFFICES ASSUME Fails # {} PROVE FALSE
      BY Zenon
    <2>1. PICK m \in Fails : \A k \in Fails : m <= k
      BY LeastExists, Zenon
    <2>2. CASE m = 0
      <3>1. KeptOf(<<>>, S, q, X, 0)
        BY DEF KeptOf, Range, Once
      <3> QED
        BY <1>5, <2>2, <3>1, Zenon
    <2>3. CASE m # 0
      <3>1. m \in Nat /\ m - 1 \in Nat /\ m \in 1..Len(q) /\ ~(m <= m - 1) /\ m - 1 <= Len(q)
        BY <1>0, <2>3
      <3>2. KeptOf(kept[m - 1], S, q, X, m - 1)
        BY <2>1, <3>1, Zenon
      <3>3. KeptOf(kept[m], S, q, X, m)
        BY <1>5, <3>1, <3>2, KeepOne, Zenon
      <3> QED
        BY <3>3, Zenon
    <2> QED
      BY <2>2, <2>3, Zenon
  <1>7. KeptOf(Without(q, X), S, q, X, Len(q))
    BY <1>0, <1>4, <1>6
  <1>8. \A x : x \in Range(Without(q, X)) <=> x \in Range(q) \ X
    BY <1>7, InRange, Zenon DEF KeptOf
  <1> QED
    BY <1>7, <1>8, Zenon DEF KeptOf

-----------------------------------------------------------------------------
(* The shape of the state, of the channels chs, the coroutines co and the   *)
(* coroutine run that is in a batch loop.                                   *)

Receiving == {"recv", "recv_batch", "recv_batch_more"}
Looping == {"send_batch", "recv_batch", "recv_batch_more"}

\* The types of the values, of a case, of a channel and of a coroutine.
ValueT == Value \cup {None}
CaseT == [on : Chan \cup {None}, send : BOOLEAN, val : ValueT]
ChanT == [buf : Seq(ValueT), sendQ : Seq(Coro), recvQ : Seq(Coro), sendSel : Seq(Coro \X Nat),
          recvSel : Seq(Coro \X Nat), closed : BOOLEAN, destroying : BOOLEAN, refcount : Int]
CoroT == [op : {"none", "select"} \cup Plain, on : Chan \cup {None}, vals : Seq(Value), cnt : Nat, n : Nat,
          waits : Chan \cup {None}, value : ValueT, freed : BOOLEAN, cases : Seq(CaseT), ready : Int,
          timer : BOOLEAN, woken : Int, cancelled : BOOLEAN]

\* What the fields of a coroutine say of one another: its call has a channel, it
\* waits or has been woken, once, and a select is decided when it is woken.
CoroOK(k, busy) ==
    /\ k.op \in Plain => k.on \in Chan
    /\ k.op \notin Plain => k.on = None /\ k.waits = None
    /\ k.op # "select" => ~k.timer /\ k.cases = <<>>
    /\ k.op = "none" => k.woken = 0
    /\ k.op = "select" => IF k.ready = PENDING
                          THEN k.woken = 0 /\ \A i \in 1..Len(k.cases) : k.cases[i].on \in Chan
                          ELSE k.woken = 1 /\ ~k.timer
    /\ busy => k.op \in Looping /\ k.woken = 0 /\ k.waits = None
    /\ k.op \in Plain /\ ~busy => IF k.waits = None THEN k.woken = 1 ELSE k.waits = k.on /\ k.woken = 0

\* A buffer holds no more than its capacity.
BufOK(chs) == \A h \in Chan : Len(chs[h].buf) <= Capacity[h]

\* In the queues of a channel are those who wait for it, once.
QueueOK(chs, co) ==
    \A h \in Chan :
        /\ Once(chs[h].sendQ) /\ Once(chs[h].recvQ)
        /\ \A c \in Coro : c \in Range(chs[h].sendQ) <=> co[c].waits = h /\ co[c].op \in Sending
        /\ \A c \in Coro : c \in Range(chs[h].recvQ) <=> co[c].waits = h /\ co[c].op \in Receiving

\* The nodes of a channel are those of the undecided selects.
Undecided(k) == k.op = "select" /\ k.ready = PENDING
HasNode(k, i, h, send) ==
    Undecided(k) /\ i \in 1..Len(k.cases) /\ k.cases[i].on = h /\ k.cases[i].send = send
SelOK(chs, co) ==
    \A h \in Chan : \A c \in Coro : \A i \in Nat :
        /\ <<c, i>> \in Range(chs[h].sendSel) <=> HasNode(co[c], i, h, TRUE)
        /\ <<c, i>> \in Range(chs[h].recvSel) <=> HasNode(co[c], i, h, FALSE)

\* What the channels and the coroutines are between two steps.
Shape(chs, co, run) ==
    /\ chs \in [Chan -> ChanT] /\ co \in [Coro -> CoroT] /\ run \in Coro \cup {None}
    /\ BufOK(chs)
    /\ \A c \in Coro : CoroOK(co[c], run = c)
    /\ QueueOK(chs, co)
    /\ SelOK(chs, co)

\* A select is not cancelled in the programs considered.
NoCancelledSelect == \A u \in Uses : ~({"cancel", "select"} \subseteq u.ops)

TakenT == [Chan -> Seq(ValueT)]

\* The inductive invariant.
ChanInv ==
    /\ Shape(chan, coro, running)
    /\ program \in Uses /\ made \in 0..program.values
    /\ taken \in TakenT
    /\ "cancel" \in program.ops => \A c \in Coro : coro[c].op # "select"

-----------------------------------------------------------------------------
(* What the steps of channel.c do to the shape.                             *)

\* Nothing that the shape speaks of changes for a coroutine.
SameWait(k, l) ==
    /\ l.op = k.op /\ l.on = k.on /\ l.waits = k.waits /\ l.woken = k.woken
    /\ l.timer = k.timer /\ l.cases = k.cases /\ l.ready = k.ready

SameQueues(q, r) == r.sendQ = q.sendQ /\ r.recvQ = q.recvQ
SameNodes(q, r) == r.sendSel = q.sendSel /\ r.recvSel = q.recvSel

\* Others than c are as they were.
OthersSame(co, co2, c) == \A d \in Coro \ {c} : SameWait(co[d], co2[d])

\* The nodes of a select are its cases.
LEMMA SameNode ==
    ASSUME NEW k, NEW l, l.op = k.op, l.ready = k.ready, l.cases = k.cases
    PROVE  \A i, h, b : HasNode(l, i, h, b) <=> HasNode(k, i, h, b)
  BY Zenon DEF HasNode, Undecided

\* Who is in no undecided select has no node.
LEMMA NoNode ==
    ASSUME NEW k, ~Undecided(k)
    PROVE  \A i, h, b : ~HasNode(k, i, h, b)
  BY Zenon DEF HasNode

\* A coroutine that waits as before is as consistent as before.
LEMMA SameWaitOK ==
    ASSUME NEW k, NEW l, NEW busy \in BOOLEAN, SameWait(k, l), CoroOK(k, busy)
    PROVE  CoroOK(l, busy)
  BY Zenon DEF SameWait, CoroOK

\* Fields of a channel outside its queues.
LEMMA ShapeChan ==
    ASSUME NEW chs, NEW co, NEW run, NEW chs2 \in [Chan -> ChanT], Shape(chs, co, run), BufOK(chs2),
           \A h \in Chan : SameQueues(chs[h], chs2[h]) /\ SameNodes(chs[h], chs2[h])
    PROVE  Shape(chs2, co, run)
  <1>1. QueueOK(chs2, co)
    BY ZenonT(40) DEF Shape, QueueOK, SameQueues
  <1>2. SelOK(chs2, co)
    BY Zenon DEF Shape, SelOK, SameNodes
  <1> QED
    BY <1>1, <1>2, Zenon DEF Shape

\* Fields of the coroutines that say nothing of where they wait.
LEMMA ShapeCoro ==
    ASSUME NEW chs, NEW co, NEW run, NEW co2 \in [Coro -> CoroT], Shape(chs, co, run),
           \A c \in Coro : SameWait(co[c], co2[c])
    PROVE  Shape(chs, co2, run)
  <1>1. QueueOK(chs, co2)
    BY DEF Shape, QueueOK, SameWait
  <1>2. SelOK(chs, co2)
    <2>1. \A c \in Coro : \A i, h, b : HasNode(co2[c], i, h, b) <=> HasNode(co[c], i, h, b)
      BY SameNode, Zenon DEF SameWait
    <2> QED
      BY <2>1, Zenon DEF Shape, SelOK
  <1>3. \A c \in Coro : CoroOK(co2[c], run = c)
    <2> TAKE c \in Coro
    <2>1. CoroOK(co[c], run = c) /\ SameWait(co[c], co2[c])
      BY Zenon DEF Shape
    <2> QED
      BY <2>1, SameWaitOK, Zenon
  <1> QED
    BY <1>1, <1>2, <1>3, Zenon DEF Shape

\* A coroutine that is in no queue starts, goes on with or ends a call.
LEMMA ShapeSelf ==
    ASSUME NEW chs, NEW co, NEW run, NEW run2 \in Coro \cup {None}, NEW co2 \in [Coro -> CoroT], NEW c \in Coro,
           Shape(chs, co, run), OthersSame(co, co2, c),
           \A d \in Coro \ {c} : run = d <=> run2 = d,
           co[c].waits = None, co2[c].waits = None, ~Undecided(co[c]), ~Undecided(co2[c]),
           CoroOK(co2[c], run2 = c)
    PROVE  Shape(chs, co2, run2)
  <1>0. None \notin Chan
    BY ChannelAssumption, Zenon
  <1>1. QueueOK(chs, co2)
    BY <1>0 DEF Shape, QueueOK, SameWait, OthersSame
  <1>2. SelOK(chs, co2)
    <2>1. \A d \in Coro : \A i, h, b : HasNode(co2[d], i, h, b) <=> HasNode(co[d], i, h, b)
      <3> TAKE d \in Coro
      <3>1. CASE d = c
        BY <3>1, NoNode, Zenon
      <3>2. CASE d # c
        BY <3>2, SameNode, Zenon DEF OthersSame, SameWait
      <3> QED
        BY <3>1, <3>2, Zenon
    <2> QED
      BY <2>1, Zenon DEF Shape, SelOK
  <1>3. \A d \in Coro : CoroOK(co2[d], run2 = d)
    <2> TAKE d \in Coro
    <2>1. CASE d = c
      BY <2>1, Zenon
    <2>2. CASE d # c
      <3>1. CoroOK(co[d], run = d) /\ SameWait(co[d], co2[d]) /\ (run = d) = (run2 = d)
        BY <2>2, Zenon DEF Shape, OthersSame
      <3> QED
        BY <3>1, SameWaitOK, Zenon
    <2> QED
      BY <2>1, <2>2, Zenon
  <1> QED
    BY <1>1, <1>2, <1>3, Zenon DEF Shape

\* A coroutine leaves the queue of h it waits in, and is made ready.
Leaves(chs, chs2, h, c) ==
    /\ Once(chs2[h].sendQ) /\ Range(chs2[h].sendQ) = Range(chs[h].sendQ) \ {c}
    /\ Once(chs2[h].recvQ) /\ Range(chs2[h].recvQ) = Range(chs[h].recvQ) \ {c}
    /\ \A g \in Chan \ {h} : SameQueues(chs[g], chs2[g])
    /\ \A g \in Chan : SameNodes(chs[g], chs2[g])

\* Its coroutine is made ready, its wait over ...
IsWoken(k, l) ==
    /\ l.op = k.op /\ l.on = k.on /\ l.waits = None /\ l.woken = k.woken + 1
    /\ l.timer = k.timer /\ l.cases = k.cases /\ l.ready = k.ready

\* A waiter leaves its queue and is made ready.
LEMMA ShapeWake ==
    ASSUME NEW chs, NEW co, NEW run, NEW chs2 \in [Chan -> ChanT], NEW co2 \in [Coro -> CoroT],
           NEW c \in Coro, NEW h \in Chan, Shape(chs, co, run), BufOK(chs2),
           co[c].waits = h, Leaves(chs, chs2, h, c), OthersSame(co, co2, c), IsWoken(co[c], co2[c])
    PROVE  Shape(chs2, co2, run)
  <1>0. None \notin Chan
    BY ChannelAssumption, Zenon
  <1>1. QueueOK(chs2, co2)
    <2> SUFFICES ASSUME NEW g \in Chan
                 PROVE  /\ Once(chs2[g].sendQ) /\ Once(chs2[g].recvQ)
                        /\ \A d \in Coro : d \in Range(chs2[g].sendQ) <=> co2[d].waits = g /\ co2[d].op \in Sending
                        /\ \A d \in Coro : d \in Range(chs2[g].recvQ) <=> co2[d].waits = g /\ co2[d].op \in Receiving
      BY Zenon DEF QueueOK
    <2>1. /\ Once(chs[g].sendQ) /\ Once(chs[g].recvQ)
          /\ \A d \in Coro : d \in Range(chs[g].sendQ) <=> co[d].waits = g /\ co[d].op \in Sending
          /\ \A d \in Coro : d \in Range(chs[g].recvQ) <=> co[d].waits = g /\ co[d].op \in Receiving
      BY Zenon DEF Shape, QueueOK
    <2>2. \A d \in Coro \ {c} : co2[d].waits = co[d].waits /\ co2[d].op = co[d].op
      BY Zenon DEF OthersSame, SameWait
    <2>3. co2[c].waits = None
      BY Zenon DEF IsWoken
    <2>4. CASE g = h
      BY <1>0, <2>1, <2>2, <2>3, <2>4, SMTT(40) DEF Leaves
    <2>5. CASE g # h
      <3>1. chs2[g].sendQ = chs[g].sendQ /\ chs2[g].recvQ = chs[g].recvQ
        BY <2>5, Zenon DEF Leaves, SameQueues
      <3> QED
        BY <1>0, <2>1, <2>2, <2>3, <2>5, <3>1, ZenonT(40)
    <2> QED
      BY <2>4, <2>5, Zenon
  <1>2. SelOK(chs2, co2)
    <2>1. \A d \in Coro : co2[d].op = co[d].op /\ co2[d].ready = co[d].ready /\ co2[d].cases = co[d].cases
      BY Zenon DEF OthersSame, SameWait, IsWoken
    <2>2. \A g \in Chan : chs2[g].sendSel = chs[g].sendSel /\ chs2[g].recvSel = chs[g].recvSel
      BY Zenon DEF Leaves, SameNodes
    <2>3. \A d \in Coro : \A i, g, b : HasNode(co2[d], i, g, b) <=> HasNode(co[d], i, g, b)
      BY <2>1, SameNode, Zenon
    <2> QED
      BY <2>2, <2>3, Zenon DEF Shape, SelOK
  <1>3. \A d \in Coro : CoroOK(co2[d], run = d)
    <2> TAKE d \in Coro
    <2>0. CoroOK(co[d], run = d)
      BY Zenon DEF Shape
    <2>1. CASE d = c
      BY ONLY <1>0, <2>0, <2>1, co[c].waits = h, h \in Chan, IsWoken(co[c], co2[c]), SMTT(40)
         DEF CoroOK,
         IsWoken, Plain
    <2>2. CASE d # c
      BY <2>0, <2>2, SameWaitOK, Zenon DEF OthersSame
    <2> QED
      BY <2>1, <2>2, Zenon
  <1> QED
    BY <1>1, <1>2, <1>3, Zenon DEF Shape

\* An undecided select of c loses its nodes and is made ready.
Decides(chs, chs2, c) ==
    /\ \A g \in Chan : SameQueues(chs[g], chs2[g])
    /\ \A g \in Chan : Range(chs2[g].sendSel) = Range(chs[g].sendSel) \ ({c} \X Nat)
    /\ \A g \in Chan : Range(chs2[g].recvSel) = Range(chs[g].recvSel) \ ({c} \X Nat)

\* ... or its select decided.
IsResolved(k, l) ==
    /\ l.op = k.op /\ l.on = k.on /\ l.waits = k.waits /\ l.woken = k.woken + 1
    /\ l.timer = FALSE /\ l.ready # PENDING

\* An undecided select is decided and its nodes leave all the queues.
LEMMA ShapeResolve ==
    ASSUME NEW chs, NEW co, NEW run, NEW chs2 \in [Chan -> ChanT], NEW co2 \in [Coro -> CoroT],
           NEW c \in Coro, Shape(chs, co, run), BufOK(chs2),
           Undecided(co[c]), Decides(chs, chs2, c), OthersSame(co, co2, c), IsResolved(co[c], co2[c])
    PROVE  Shape(chs2, co2, run)
  <1>1. QueueOK(chs2, co2)
    <2>1. \A d \in Coro : co2[d].op = co[d].op /\ co2[d].waits = co[d].waits
      BY Zenon DEF OthersSame, SameWait, IsResolved
    <2>2. \A g \in Chan : chs2[g].sendQ = chs[g].sendQ /\ chs2[g].recvQ = chs[g].recvQ
      BY Zenon DEF Decides, SameQueues
    <2> QED
      BY <2>1, <2>2 DEF Shape, QueueOK
  <1>2. SelOK(chs2, co2)
    <2> SUFFICES ASSUME NEW g \in Chan, NEW d \in Coro, NEW i \in Nat
                 PROVE  /\ <<d, i>> \in Range(chs2[g].sendSel) <=> HasNode(co2[d], i, g, TRUE)
                        /\ <<d, i>> \in Range(chs2[g].recvSel) <=> HasNode(co2[d], i, g, FALSE)
      BY Zenon DEF SelOK
    <2>1. /\ <<d, i>> \in Range(chs[g].sendSel) <=> HasNode(co[d], i, g, TRUE)
          /\ <<d, i>> \in Range(chs[g].recvSel) <=> HasNode(co[d], i, g, FALSE)
      BY Zenon DEF Shape, SelOK
    <2>2. /\ <<d, i>> \in Range(chs2[g].sendSel) <=> <<d, i>> \in Range(chs[g].sendSel) /\ d # c
          /\ <<d, i>> \in Range(chs2[g].recvSel) <=> <<d, i>> \in Range(chs[g].recvSel) /\ d # c
      BY DEF Decides
    <2>3. CASE d = c
      <3>1. ~Undecided(co2[c])
        BY Zenon DEF IsResolved, Undecided
      <3> QED
        BY <2>2, <2>3, <3>1, NoNode, Zenon
    <2>4. CASE d # c
      <3>1. \A b : HasNode(co2[d], i, g, b) <=> HasNode(co[d], i, g, b)
        BY <2>4, SameNode, Zenon DEF OthersSame, SameWait
      <3> QED
        BY <2>1, <2>2, <2>4, <3>1, Zenon
    <2> QED
      BY <2>3, <2>4, Zenon
  <1>3. \A d \in Coro : CoroOK(co2[d], run = d)
    <2> TAKE d \in Coro
    <2>0. CoroOK(co[d], run = d)
      BY Zenon DEF Shape
    <2>1. CASE d = c
      BY ONLY <2>0, <2>1, Undecided(co[c]), IsResolved(co[c], co2[c]), SMTT(40)
         DEF CoroOK, IsResolved, Undecided, Plain, Looping
    <2>2. CASE d # c
      BY <2>0, <2>2, SameWaitOK, Zenon DEF OthersSame
    <2> QED
      BY <2>1, <2>2, Zenon
  <1> QED
    BY <1>1, <1>2, <1>3, ZenonT(40) DEF Shape

\* A coroutine joins the queue of h on a side and waits there.
Joins(chs, chs2, h, c, side) ==
    /\ IF side = "sendQ"
       THEN chs2[h].sendQ = Append(chs[h].sendQ, c) /\ chs2[h].recvQ = chs[h].recvQ
       ELSE chs2[h].recvQ = Append(chs[h].recvQ, c) /\ chs2[h].sendQ = chs[h].sendQ
    /\ \A g \in Chan \ {h} : SameQueues(chs[g], chs2[g])
    /\ \A g \in Chan : SameNodes(chs[g], chs2[g])

IsWaiting(l, h, side) ==
    /\ l.op \in (IF side = "sendQ" THEN Sending ELSE Receiving)
    /\ l.on = h /\ l.waits = h /\ l.woken = 0 /\ ~l.timer /\ l.cases = <<>>

\* A call blocks: its coroutine enters a queue of the channel.
LEMMA ShapeJoin ==
    ASSUME NEW chs, NEW co, NEW run, NEW chs2 \in [Chan -> ChanT], NEW co2 \in [Coro -> CoroT],
           NEW c \in Coro, NEW h \in Chan, NEW side \in {"sendQ", "recvQ"}, Shape(chs, co, run), BufOK(chs2),
           run \in {None, c}, co[c].waits = None, ~Undecided(co[c]),
           Joins(chs, chs2, h, c, side), OthersSame(co, co2, c), IsWaiting(co2[c], h, side)
    PROVE  Shape(chs2, co2, None)
  <1>0. None \notin Chan /\ None \notin Coro
    BY ChannelAssumption, Zenon
  <1>1. QueueOK(chs2, co2)
    <2> SUFFICES ASSUME NEW g \in Chan
                 PROVE  /\ Once(chs2[g].sendQ) /\ Once(chs2[g].recvQ)
                        /\ \A d \in Coro : d \in Range(chs2[g].sendQ) <=> co2[d].waits = g /\ co2[d].op \in Sending
                        /\ \A d \in Coro : d \in Range(chs2[g].recvQ) <=> co2[d].waits = g /\ co2[d].op \in Receiving
      BY Zenon DEF QueueOK
    <2>1. /\ Once(chs[g].sendQ) /\ Once(chs[g].recvQ)
          /\ \A d \in Coro : d \in Range(chs[g].sendQ) <=> co[d].waits = g /\ co[d].op \in Sending
          /\ \A d \in Coro : d \in Range(chs[g].recvQ) <=> co[d].waits = g /\ co[d].op \in Receiving
      BY Zenon DEF Shape, QueueOK
    <2>2. \A d \in Coro \ {c} : co2[d].waits = co[d].waits /\ co2[d].op = co[d].op
      BY Zenon DEF OthersSame, SameWait
    <2>3. co2[c].waits = h /\ co2[c].op \in (IF side = "sendQ" THEN Sending ELSE Receiving)
      BY Zenon DEF IsWaiting
    <2>4. CASE g # h
      <3>1. chs2[g].sendQ = chs[g].sendQ /\ chs2[g].recvQ = chs[g].recvQ
        BY <2>4, Zenon DEF Joins, SameQueues
      <3> QED
        BY <1>0, <2>1, <2>2, <2>3, <2>4, <3>1, ZenonT(40)
    <2>5. CASE g = h
      <3>1. chs[h].sendQ \in Seq(Coro) /\ chs[h].recvQ \in Seq(Coro)
        BY Zenon DEF Shape, ChanT
      <3>2. c \notin Range(chs[h].sendQ) /\ c \notin Range(chs[h].recvQ)
        BY <1>0, <2>1, <2>5, ZenonT(40)
      <3>3. /\ Once(Append(chs[h].sendQ, c)) /\ Range(Append(chs[h].sendQ, c)) = Range(chs[h].sendQ) \cup {c}
            /\ Once(Append(chs[h].recvQ, c)) /\ Range(Append(chs[h].recvQ, c)) = Range(chs[h].recvQ) \cup {c}
        BY <2>1, <2>5, <3>1, <3>2, OnceFacts, RangeFacts, SMTT(40)
      <3>4. \A o \in Sending : o \notin Receiving
        BY Zenon DEF Sending, Receiving
      <3>5. CASE side = "sendQ"
        <4>1. chs2[h].sendQ = Append(chs[h].sendQ, c) /\ chs2[h].recvQ = chs[h].recvQ
          BY <3>5, Zenon DEF Joins
        <4>2. co2[c].waits = h /\ co2[c].op \in Sending /\ co2[c].op \notin Receiving
          BY <2>3, <3>4, <3>5, Zenon
        <4>3. \A d \in Coro : d \in Range(chs2[h].sendQ) <=> co2[d].waits = h /\ co2[d].op \in Sending
          BY ONLY <2>1, <2>2, <2>5, <3>3, <4>1, <4>2, SMTT(40)
        <4>4. \A d \in Coro : d \in Range(chs2[h].recvQ) <=> co2[d].waits = h /\ co2[d].op \in Receiving
          BY ONLY <2>1, <2>2, <2>5, <3>2, <4>1, <4>2, ZenonT(40)
        <4> QED
          BY ONLY <2>1, <2>5, <3>3, <4>1, <4>3, <4>4, Zenon
      <3>6. CASE side = "recvQ"
        <4>1. chs2[h].recvQ = Append(chs[h].recvQ, c) /\ chs2[h].sendQ = chs[h].sendQ
          BY <3>6, Zenon DEF Joins
        <4>2. co2[c].waits = h /\ co2[c].op \in Receiving /\ co2[c].op \notin Sending
          BY <2>3, <3>4, <3>6, Zenon
        <4>3. \A d \in Coro : d \in Range(chs2[h].recvQ) <=> co2[d].waits = h /\ co2[d].op \in Receiving
          BY ONLY <2>1, <2>2, <2>5, <3>3, <4>1, <4>2, SMTT(40)
        <4>4. \A d \in Coro : d \in Range(chs2[h].sendQ) <=> co2[d].waits = h /\ co2[d].op \in Sending
          BY ONLY <2>1, <2>2, <2>5, <3>2, <4>1, <4>2, Zenon
        <4> QED
          BY ONLY <2>1, <2>5, <3>3, <4>1, <4>3, <4>4, Zenon
      <3> QED
        BY <3>5, <3>6, Zenon
    <2> QED
      BY <2>4, <2>5, Zenon
  <1>2. SelOK(chs2, co2)
    <2>0. ~Undecided(co2[c])
      BY Zenon DEF IsWaiting, Undecided, Sending, Receiving
    <2>1. \A d \in Coro : \A i, g, b : HasNode(co2[d], i, g, b) <=> HasNode(co[d], i, g, b)
      <3> TAKE d \in Coro
      <3>1. CASE d = c
        BY <2>0, <3>1, NoNode, Zenon
      <3>2. CASE d # c
        BY <3>2, SameNode, Zenon DEF OthersSame, SameWait
      <3> QED
        BY <3>1, <3>2, Zenon
    <2>2. \A g \in Chan : chs2[g].sendSel = chs[g].sendSel /\ chs2[g].recvSel = chs[g].recvSel
      BY Zenon DEF Joins, SameNodes
    <2> QED
      BY <2>1, <2>2, Zenon DEF Shape, SelOK
  <1>3. \A d \in Coro : CoroOK(co2[d], None = d)
    <2> TAKE d \in Coro
    <2>0. CoroOK(co[d], run = d)
      BY Zenon DEF Shape
    <2>1. CASE d = c
      BY <1>0, <2>1, Zenon DEF CoroOK, IsWaiting, Plain, Sending, Receiving
    <2>2. CASE d # c
      <3>1. (run = d) = (None = d)
        BY <1>0, <2>2, Zenon
      <3> QED
        BY <2>0, <2>2, <3>1, SameWaitOK, Zenon DEF OthersSame
    <2> QED
      BY <2>1, <2>2, Zenon
  <1> QED
    BY <1>1, <1>2, <1>3, Zenon DEF Shape

\* A select registers the nodes of its cases.
Added(x, c, cs, g, side) == \E i \in 1..Len(cs) : x = <<c, i>> /\ cs[i].on = g /\ cs[i].send = side

Registers(chs, chs2, c, cs) ==
    /\ \A g \in Chan : SameQueues(chs[g], chs2[g])
    /\ \A g \in Chan : \A x :
          /\ x \in Range(chs2[g].sendSel) <=> (x \in Range(chs[g].sendSel) \/ Added(x, c, cs, g, TRUE))
          /\ x \in Range(chs2[g].recvSel) <=> (x \in Range(chs[g].recvSel) \/ Added(x, c, cs, g, FALSE))

\* The coroutine is in an undecided select.
IsSelecting(l, cs) ==
    /\ l.op = "select" /\ l.on = None /\ l.waits = None /\ l.woken = 0 /\ l.ready = PENDING /\ l.cases = cs
    /\ \A i \in 1..Len(cs) : cs[i].on \in Chan

\* A select blocks: its nodes enter the queues of its cases.
LEMMA ShapeRegister ==
    ASSUME NEW chs, NEW co, NEW chs2 \in [Chan -> ChanT], NEW co2 \in [Coro -> CoroT],
           NEW c \in Coro, NEW cs, Shape(chs, co, None), BufOK(chs2), co[c].waits = None, ~Undecided(co[c]),
           Registers(chs, chs2, c, cs), OthersSame(co, co2, c), IsSelecting(co2[c], cs)
    PROVE  Shape(chs2, co2, None)
  <1>0. None \notin Chan /\ None \notin Coro
    BY ChannelAssumption, Zenon
  <1>1. QueueOK(chs2, co2)
    <2>1. \A d \in Coro \ {c} : co2[d].op = co[d].op /\ co2[d].waits = co[d].waits
      BY Zenon DEF OthersSame, SameWait
    <2>2. \A g \in Chan : chs2[g].sendQ = chs[g].sendQ /\ chs2[g].recvQ = chs[g].recvQ
      BY Zenon DEF Registers, SameQueues
    <2>3. co2[c].waits = None
      BY Zenon DEF IsSelecting
    <2>4. QueueOK(chs, co)
      BY Zenon DEF Shape
    <2> QED
      BY ONLY <1>0, <2>1, <2>2, <2>3, <2>4, co[c].waits = None, c \in Coro, SMTT(40) DEF QueueOK
  <1>2. SelOK(chs2, co2)
    <2> SUFFICES ASSUME NEW g \in Chan, NEW d \in Coro, NEW i \in Nat
                 PROVE  /\ <<d, i>> \in Range(chs2[g].sendSel) <=> HasNode(co2[d], i, g, TRUE)
                        /\ <<d, i>> \in Range(chs2[g].recvSel) <=> HasNode(co2[d], i, g, FALSE)
      BY Zenon DEF SelOK
    <2>1. /\ <<d, i>> \in Range(chs[g].sendSel) <=> HasNode(co[d], i, g, TRUE)
          /\ <<d, i>> \in Range(chs[g].recvSel) <=> HasNode(co[d], i, g, FALSE)
      BY Zenon DEF Shape, SelOK
    <2>2. /\ <<d, i>> \in Range(chs2[g].sendSel) <=>
              <<d, i>> \in Range(chs[g].sendSel) \/ (d = c /\ i \in 1..Len(cs) /\ cs[i].on = g /\ cs[i].send = TRUE)
          /\ <<d, i>> \in Range(chs2[g].recvSel) <=>
              <<d, i>> \in Range(chs[g].recvSel) \/ (d = c /\ i \in 1..Len(cs) /\ cs[i].on = g /\ cs[i].send = FALSE)
      <3>1. \A side : Added(<<d, i>>, c, cs, g, side) <=> (d = c /\ i \in 1..Len(cs) /\ cs[i].on = g /\ cs[i].send = side)
        BY Zenon DEF Added
      <3> QED
        BY <3>1, Zenon DEF Registers
    <2>3. CASE d = c
      BY <2>1, <2>2, <2>3, NoNode, Zenon DEF IsSelecting, Undecided, HasNode
    <2>4. CASE d # c
      <3>1. \A b : HasNode(co2[d], i, g, b) <=> HasNode(co[d], i, g, b)
        BY <2>4, SameNode, Zenon DEF OthersSame, SameWait
      <3> QED
        BY <2>1, <2>2, <2>4, <3>1, Zenon
    <2> QED
      BY <2>3, <2>4, Zenon
  <1>3. \A d \in Coro : CoroOK(co2[d], None = d)
    <2> TAKE d \in Coro
    <2>0. CoroOK(co[d], None = d)
      BY Zenon DEF Shape
    <2>1. CASE d = c
      BY <1>0, <2>1, Zenon DEF CoroOK, IsSelecting, Plain
    <2>2. CASE d # c
      BY <2>0, <2>2, SameWaitOK, Zenon DEF OthersSame
    <2> QED
      BY <2>1, <2>2, Zenon
  <1> QED
    BY <1>1, <1>2, <1>3, None \in Coro \cup {None}, Zenon DEF Shape

\* Everyone waiting on h is made ready.
WakesAll(chs, chs2, co, co2, h) ==
    /\ chs2[h].sendQ = <<>> /\ chs2[h].recvQ = <<>>
    /\ \A g \in Chan \ {h} : SameQueues(chs[g], chs2[g])
    /\ \E sel : /\ \A d \in Coro : d \in sel <=> \E i \in Nat : \E b \in BOOLEAN : HasNode(co[d], i, h, b)
                /\ \A g \in Chan : Range(chs2[g].sendSel) = Range(chs[g].sendSel) \ (sel \X Nat)
                /\ \A g \in Chan : Range(chs2[g].recvSel) = Range(chs[g].recvSel) \ (sel \X Nat)
                /\ \A d \in Coro : \/ co[d].waits = h /\ IsWoken(co[d], co2[d])
                                   \/ d \in sel /\ IsResolved(co[d], co2[d])
                                   \/ co[d].waits # h /\ d \notin sel /\ SameWait(co[d], co2[d])

\* All who wait for a channel are made ready.
LEMMA ShapeWakeAll ==
    ASSUME NEW chs, NEW co, NEW chs2 \in [Chan -> ChanT], NEW co2 \in [Coro -> CoroT],
           NEW h \in Chan, Shape(chs, co, None), BufOK(chs2), WakesAll(chs, chs2, co, co2, h)
    PROVE  Shape(chs2, co2, None)
  <1>0. None \notin Chan /\ None \notin Coro
    BY ChannelAssumption, Zenon
  <1>4. PICK sel :
          /\ \A d \in Coro : d \in sel <=> \E i \in Nat : \E b \in BOOLEAN : HasNode(co[d], i, h, b)
          /\ \A g \in Chan : Range(chs2[g].sendSel) = Range(chs[g].sendSel) \ (sel \X Nat)
          /\ \A g \in Chan : Range(chs2[g].recvSel) = Range(chs[g].recvSel) \ (sel \X Nat)
          /\ \A d \in Coro : \/ co[d].waits = h /\ IsWoken(co[d], co2[d])
                             \/ d \in sel /\ IsResolved(co[d], co2[d])
                             \/ co[d].waits # h /\ d \notin sel /\ SameWait(co[d], co2[d])
    BY Zenon DEF WakesAll
  <1>5. \A d \in Coro : CoroOK(co[d], None = d)
    BY Zenon DEF Shape
  <1>6. \A d \in Coro : d \in sel => Undecided(co[d])
    BY <1>4, NoNode, Zenon
  <1>7. \A d \in Coro : Undecided(co[d]) => co[d].waits = None
    BY <1>5, Zenon DEF CoroOK, Undecided, Plain
  <1>1. QueueOK(chs2, co2)
    <2> SUFFICES ASSUME NEW g \in Chan
                 PROVE  /\ Once(chs2[g].sendQ) /\ Once(chs2[g].recvQ)
                        /\ \A d \in Coro : d \in Range(chs2[g].sendQ) <=> co2[d].waits = g /\ co2[d].op \in Sending
                        /\ \A d \in Coro : d \in Range(chs2[g].recvQ) <=> co2[d].waits = g /\ co2[d].op \in Receiving
      BY Zenon DEF QueueOK
    <2>1. /\ Once(chs[g].sendQ) /\ Once(chs[g].recvQ)
          /\ \A d \in Coro : d \in Range(chs[g].sendQ) <=> co[d].waits = g /\ co[d].op \in Sending
          /\ \A d \in Coro : d \in Range(chs[g].recvQ) <=> co[d].waits = g /\ co[d].op \in Receiving
      BY Zenon DEF Shape, QueueOK
    <2>2. \A d \in Coro : co2[d].op = co[d].op /\ co2[d].waits = (IF co[d].waits = h THEN None ELSE co[d].waits)
      BY <1>0, <1>4, <1>6, <1>7, ZenonT(40) DEF SameWait, IsWoken, IsResolved
    <2>3. CASE g # h
      <3>1. chs2[g].sendQ = chs[g].sendQ /\ chs2[g].recvQ = chs[g].recvQ
        BY <2>3, Zenon DEF WakesAll, SameQueues
      <3> QED
        BY <1>0, <2>1, <2>2, <2>3, <3>1, ZenonT(40)
    <2>4. CASE g = h
      <3>1. chs2[g].sendQ = <<>> /\ chs2[g].recvQ = <<>>
        BY <2>4, Zenon DEF WakesAll
      <3>2. Once(<<>>) /\ Range(<<>>) = {}
        BY DEF Once, Range
      <3> QED
        BY <1>0, <2>2, <2>4, <3>1, <3>2, Zenon
    <2> QED
      BY <2>3, <2>4, Zenon
  <1>2. SelOK(chs2, co2)
    <2> SUFFICES ASSUME NEW g \in Chan, NEW d \in Coro, NEW i \in Nat
                 PROVE  /\ <<d, i>> \in Range(chs2[g].sendSel) <=> HasNode(co2[d], i, g, TRUE)
                        /\ <<d, i>> \in Range(chs2[g].recvSel) <=> HasNode(co2[d], i, g, FALSE)
      BY Zenon DEF SelOK
    <2>1. /\ <<d, i>> \in Range(chs[g].sendSel) <=> HasNode(co[d], i, g, TRUE)
          /\ <<d, i>> \in Range(chs[g].recvSel) <=> HasNode(co[d], i, g, FALSE)
      BY Zenon DEF Shape, SelOK
    <2>2. /\ <<d, i>> \in Range(chs2[g].sendSel) <=> <<d, i>> \in Range(chs[g].sendSel) /\ d \notin sel
          /\ <<d, i>> \in Range(chs2[g].recvSel) <=> <<d, i>> \in Range(chs[g].recvSel) /\ d \notin sel
      BY <1>4
    <2>3. CASE d \in sel
      <3>1. ~Undecided(co2[d])
        BY <1>0, <1>4, <1>6, <1>7, <2>3, Zenon DEF IsResolved, Undecided
      <3> QED
        BY <2>2, <2>3, <3>1, NoNode, Zenon
    <2>4. CASE d \notin sel
      <3>1. co2[d].op = co[d].op /\ co2[d].ready = co[d].ready /\ co2[d].cases = co[d].cases
        BY <1>4, <2>4, Zenon DEF IsWoken, SameWait
      <3>2. \A b : HasNode(co2[d], i, g, b) <=> HasNode(co[d], i, g, b)
        BY <3>1, SameNode, Zenon
      <3> QED
        BY <2>1, <2>2, <2>4, <3>2, Zenon
    <2> QED
      BY <2>3, <2>4, Zenon
  <1>3. \A d \in Coro : CoroOK(co2[d], None = d)
    <2> TAKE d \in Coro
    <2>0. CoroOK(co[d], None = d)
      BY <1>5, ZenonT(40)
    <2>1. CASE co[d].waits = h /\ IsWoken(co[d], co2[d])
      BY ONLY <1>0, <2>0, <2>1, h \in Chan, d \in Coro, SMTT(40) DEF CoroOK, IsWoken, Plain
    <2>2. CASE d \in sel /\ IsResolved(co[d], co2[d])
      <3>1. Undecided(co[d])
        BY <1>6, <2>2, Zenon
      <3> QED
        BY ONLY <1>0, <2>0, <2>2, <3>1, d \in Coro, SMTT(40) DEF CoroOK, IsResolved, Undecided,
           Plain
    <2>3. CASE SameWait(co[d], co2[d])
      BY <2>0, <2>3, SameWaitOK, Zenon
    <2> QED
      BY <1>4, <2>1, <2>2, <2>3, Zenon
  <1> QED
    BY <1>1, <1>2, <1>3, Zenon DEF Shape

-----------------------------------------------------------------------------
(* The steps of the calls.                                                 *)

\* The types of the fields of a channel.
LEMMA ChanFields ==
    ASSUME NEW k \in ChanT
    PROVE  /\ k.buf \in Seq(ValueT) /\ k.sendQ \in Seq(Coro) /\ k.recvQ \in Seq(Coro)
           /\ k.sendSel \in Seq(Coro \X Nat) /\ k.recvSel \in Seq(Coro \X Nat)
           /\ k.closed \in BOOLEAN /\ k.destroying \in BOOLEAN /\ k.refcount \in Int
  BY Zenon DEF ChanT

\* The types of the fields of a coroutine.
LEMMA CoroFields ==
    ASSUME NEW k \in CoroT
    PROVE  /\ k.op \in {"none", "select"} \cup Plain /\ k.on \in Chan \cup {None} /\ k.vals \in Seq(Value)
           /\ k.cnt \in Nat /\ k.n \in Nat /\ k.waits \in Chan \cup {None} /\ k.value \in ValueT
           /\ k.freed \in BOOLEAN /\ k.cases \in Seq(CaseT) /\ k.ready \in Int /\ k.timer \in BOOLEAN
           /\ k.woken \in Int /\ k.cancelled \in BOOLEAN
  BY Zenon DEF CoroT

\* No reference is taken or dropped, and no call begins or ends.
SameRefs(chs, co, chs2, co2) ==
    /\ \A g \in Chan : chs2[g].refcount = chs[g].refcount /\ chs2[g].destroying = chs[g].destroying
    /\ \A d \in Coro : co2[d].op = co[d].op /\ co2[d].on = co[d].on

\* Another buffer, within the capacity.
LEMMA SetBuf ==
    ASSUME NEW chs, NEW co, NEW run, Shape(chs, co, run), NEW h \in Chan, NEW b \in Seq(ValueT), Len(b) <= Capacity[h],
           NEW chs2, chs2 = [chs EXCEPT ![h].buf = b]
    PROVE  Shape(chs2, co, run) /\ SameRefs(chs, co, chs2, co)
  <1>1. chs \in [Chan -> ChanT] /\ BufOK(chs)
    BY Zenon DEF Shape
  <1>2. PICK r : r = [chs[h] EXCEPT !.buf = b]
    BY Zenon
  <1>3. chs[h] \in ChanT
    BY <1>1, Zenon
  <1>4. /\ r \in ChanT /\ r.buf = b /\ SameQueues(chs[h], r) /\ SameNodes(chs[h], r)
        /\ r.refcount = chs[h].refcount /\ r.destroying = chs[h].destroying
    BY ONLY <1>2, <1>3, b \in Seq(ValueT), Zenon DEF ChanT, SameQueues, SameNodes
  <1>5. chs2 \in [Chan -> ChanT] /\ chs2[h] = r /\ \A g \in Chan \ {h} : chs2[g] = chs[g]
    BY <1>1, <1>2, <1>4, Zenon
  <1>6. BufOK(chs2) /\ \A g \in Chan : SameQueues(chs[g], chs2[g]) /\ SameNodes(chs[g], chs2[g])
    BY <1>1, <1>4, <1>5, Zenon DEF BufOK, SameQueues, SameNodes
  <1>7. Shape(chs2, co, run)
    BY ONLY <1>5, <1>6, Shape(chs, co, run), ShapeChan, Zenon
  <1> QED
    BY <1>4, <1>5, <1>7, Zenon DEF SameRefs

\* Another wait_node.value.
LEMMA SetValue ==
    ASSUME NEW chs, NEW co, NEW run, Shape(chs, co, run), NEW c \in Coro, NEW v \in ValueT,
           NEW co2, co2 = [co EXCEPT ![c].value = v]
    PROVE  Shape(chs, co2, run) /\ SameRefs(chs, co, chs, co2)
  <1>1. co \in [Coro -> CoroT]
    BY Zenon DEF Shape
  <1>2. PICK r : r = [co[c] EXCEPT !.value = v]
    BY Zenon
  <1>3. co[c] \in CoroT
    BY <1>1, Zenon
  <1>4. r \in CoroT /\ SameWait(co[c], r)
    BY ONLY <1>2, <1>3, v \in ValueT, Zenon DEF CoroT, SameWait
  <1>5. co2 \in [Coro -> CoroT] /\ co2[c] = r /\ \A d \in Coro \ {c} : co2[d] = co[d]
    BY <1>1, <1>2, <1>4, Zenon
  <1>6. \A d \in Coro : SameWait(co[d], co2[d])
    BY <1>4, <1>5, Zenon DEF SameWait
  <1>7. Shape(chs, co2, run)
    BY ONLY <1>5, <1>6, Shape(chs, co, run), ShapeCoro, Zenon
  <1> QED
    BY <1>6, <1>7, Zenon DEF SameRefs, SameWait

\* The head of a plain queue is dequeued and woken.
LEMMA WakeHead ==
    ASSUME NEW chs, NEW co, NEW run, Shape(chs, co, run), NEW h \in Chan, NEW side \in {"sendQ", "recvQ"},
           chs[h][side] # <<>>,
           NEW chs2, chs2 = IF side = "sendQ" THEN [chs EXCEPT ![h].sendQ = Tail(@)]
                                              ELSE [chs EXCEPT ![h].recvQ = Tail(@)],
           NEW co2, co2 = Woken(co, Head(chs[h][side]))
    PROVE  Shape(chs2, co2, run) /\ SameRefs(chs, co, chs2, co2)
  <1> DEFINE q == chs[h][side]
             s == Head(q)
  <1>1. chs \in [Chan -> ChanT] /\ co \in [Coro -> CoroT] /\ BufOK(chs)
    BY Zenon DEF Shape
  <1>2. chs[h].sendQ \in Seq(Coro) /\ chs[h].recvQ \in Seq(Coro) /\ q \in Seq(Coro)
    BY <1>1, ChanFields, Zenon
  <1>3. s \in Coro /\ s \in Range(q) /\ Tail(q) \in Seq(Coro) /\ Range(q) = {s} \cup Range(Tail(q))
    BY <1>2, RangeFacts
  <1>4. Once(q) /\ Once(chs[h].sendQ) /\ Once(chs[h].recvQ)
    BY Zenon DEF Shape, QueueOK
  <1>5. Once(Tail(q)) /\ s \notin Range(Tail(q))
    BY <1>2, <1>4, OnceFacts, Zenon
  <1>6. co[s].waits = h /\ co[s].op \in (IF side = "sendQ" THEN Sending ELSE Receiving)
    BY <1>3, Zenon DEF Shape, QueueOK
  <1>7. s \notin Range(IF side = "sendQ" THEN chs[h].recvQ ELSE chs[h].sendQ)
    <2>1. CASE side = "sendQ"
      BY <1>3, <1>6, <2>1, Zenon DEF Shape, QueueOK, Sending, Receiving
    <2>2. CASE side = "recvQ"
      BY <1>3, <1>6, <2>2, ZenonT(40) DEF Shape, QueueOK, Sending, Receiving
    <2> QED
      BY <2>1, <2>2, Zenon
  <1> HIDE DEF s
  <1>8. PICK r : r = IF side = "sendQ" THEN [chs[h] EXCEPT !.sendQ = Tail(q)]
                                       ELSE [chs[h] EXCEPT !.recvQ = Tail(q)]
    BY Zenon
  <1>9. r \in ChanT
    BY <1>1, <1>3, <1>8, ZenonT(40) DEF ChanT
  <1>10. chs2 = [chs EXCEPT ![h] = r]
    BY <1>1, <1>8, Zenon
  <1>11. /\ chs2 \in [Chan -> ChanT] /\ chs2[h] = r /\ \A g \in Chan \ {h} : chs2[g] = chs[g]
    BY <1>1, <1>9, <1>10, Zenon
  <1>12. /\ r.buf = chs[h].buf /\ r.sendSel = chs[h].sendSel /\ r.recvSel = chs[h].recvSel
         /\ r.sendQ = (IF side = "sendQ" THEN Tail(q) ELSE chs[h].sendQ)
         /\ r.recvQ = (IF side = "recvQ" THEN Tail(q) ELSE chs[h].recvQ)
         /\ r.refcount = chs[h].refcount /\ r.destroying = chs[h].destroying
    BY <1>1, <1>8, Zenon DEF ChanT
  <1>13. BufOK(chs2)
    BY <1>1, <1>11, <1>12, Zenon DEF BufOK
  <1>14. Leaves(chs, chs2, h, s)
    <2>1. \A x : x \in Range(r.sendQ) <=> x \in Range(chs[h].sendQ) \ {s}
      BY <1>3, <1>5, <1>7, <1>12, Zenon
    <2>2. \A x : x \in Range(r.recvQ) <=> x \in Range(chs[h].recvQ) \ {s}
      BY <1>3, <1>5, <1>7, <1>12, ZenonT(40)
    <2> QED
      BY <1>4, <1>5, <1>11, <1>12, <2>1, <2>2, ZenonT(40) DEF Leaves, SameQueues, SameNodes
  <1>15. PICK k : k = [co[s] EXCEPT !.waits = None, !.woken = @ + 1]
    BY Zenon
  <1> DEFINE woken == co[s].woken + 1
  <1>22. co[s] \in CoroT /\ woken \in Int /\ k = [co[s] EXCEPT !.waits = None, !.woken = woken]
    BY <1>1, <1>3, <1>15, CoroFields, SMTT(40)
  <1> HIDE DEF woken
  <1>16. k \in CoroT
    BY ONLY <1>22, Zenon DEF CoroT
  <1>17. co2 = [co EXCEPT ![s] = k]
    BY <1>1, <1>3, <1>15, Zenon DEF Woken, s
  <1>18. co2 \in [Coro -> CoroT] /\ co2[s] = k /\ \A d \in Coro \ {s} : co2[d] = co[d]
    BY <1>1, <1>3, <1>16, <1>17, Zenon
  <1>19. IsWoken(co[s], co2[s]) /\ OthersSame(co, co2, s)
    <2>1. IsWoken(co[s], k)
      BY ONLY <1>22, Zenon DEF IsWoken, CoroT, woken
    <2> QED
      BY <1>18, <2>1, Zenon DEF OthersSame, SameWait
  <1>20. Shape(chs2, co2, run)
    <2>1. s \in Coro /\ co[s].waits = h /\ chs2 \in [Chan -> ChanT] /\ co2 \in [Coro -> CoroT]
      BY <1>3, <1>6, <1>11, <1>18, ZenonT(40)
    <2> QED
      BY ONLY <1>13, <1>14, <1>19, <2>1, h \in Chan, Shape(chs, co, run), ShapeWake, ZenonT(40)
  <1>21. SameRefs(chs, co, chs2, co2)
    BY <1>11, <1>12, <1>18, <1>19, ZenonT(40) DEF SameRefs, IsWoken
  <1> QED
    BY <1>20, <1>21, Zenon

\* An undecided select is dequeued everywhere and decided.
LEMMA ResolveOne ==
    ASSUME Library, NEW chs, NEW co, NEW run, Shape(chs, co, run), NEW s \in Coro, Undecided(co[s]),
           NEW i \in Int, i # PENDING,
           NEW chs2, chs2 = select_dequeue_all(chs, s), NEW co2, co2 = Resolved(co, s, i)
    PROVE  Shape(chs2, co2, run) /\ SameRefs(chs, co, chs2, co2)
  <1>1. co \in [Coro -> CoroT] /\ chs \in [Chan -> ChanT] /\ BufOK(chs)
    BY Zenon DEF Shape
  <1>2. \A g \in Chan : /\ chs[g].sendSel \in Seq(Coro \X Nat) /\ chs[g].recvSel \in Seq(Coro \X Nat)
                        /\ Without(chs[g].sendSel, {s} \X Nat) \in Seq(Coro \X Nat)
                        /\ Without(chs[g].recvSel, {s} \X Nat) \in Seq(Coro \X Nat)
                        /\ Range(Without(chs[g].sendSel, {s} \X Nat)) = Range(chs[g].sendSel) \ ({s} \X Nat)
                        /\ Range(Without(chs[g].recvSel, {s} \X Nat)) = Range(chs[g].recvSel) \ ({s} \X Nat)
    <2> TAKE g \in Chan
    <2>1. chs[g].sendSel \in Seq(Coro \X Nat) /\ chs[g].recvSel \in Seq(Coro \X Nat)
      BY <1>1, ChanFields, Zenon
    <2>2. /\ Without(chs[g].sendSel, {s} \X Nat) \in Seq(Coro \X Nat)
          /\ Range(Without(chs[g].sendSel, {s} \X Nat)) = Range(chs[g].sendSel) \ ({s} \X Nat)
      BY ONLY Library, <2>1, WithoutFacts, Zenon
    <2>3. /\ Without(chs[g].recvSel, {s} \X Nat) \in Seq(Coro \X Nat)
          /\ Range(Without(chs[g].recvSel, {s} \X Nat)) = Range(chs[g].recvSel) \ ({s} \X Nat)
      BY ONLY Library, <2>1, WithoutFacts, Zenon
    <2> QED
      BY <2>1, <2>2, <2>3, Zenon
  <1>3. \A g \in Chan : /\ chs2[g] \in ChanT /\ SameQueues(chs[g], chs2[g]) /\ chs2[g].buf = chs[g].buf
                        /\ chs2[g].sendSel = Without(chs[g].sendSel, {s} \X Nat)
                        /\ chs2[g].recvSel = Without(chs[g].recvSel, {s} \X Nat)
                        /\ chs2[g].refcount = chs[g].refcount /\ chs2[g].destroying = chs[g].destroying
    <2> TAKE g \in Chan
    <2>1. PICK x : x = Without(chs[g].sendSel, {s} \X Nat)
      BY Zenon
    <2>2. PICK y : y = Without(chs[g].recvSel, {s} \X Nat)
      BY Zenon
    <2>3. x \in Seq(Coro \X Nat) /\ y \in Seq(Coro \X Nat)
      BY <1>2, <2>1, <2>2, Zenon
    <2>4. chs2[g] = [chs[g] EXCEPT !.sendSel = x, !.recvSel = y]
      BY <2>1, <2>2, Zenon DEF select_dequeue_all
    <2>5. chs[g] \in ChanT
      BY <1>1, Zenon
    <2>6. /\ chs2[g] \in ChanT /\ SameQueues(chs[g], chs2[g]) /\ chs2[g].buf = chs[g].buf
          /\ chs2[g].sendSel = x /\ chs2[g].recvSel = y
          /\ chs2[g].refcount = chs[g].refcount /\ chs2[g].destroying = chs[g].destroying
      BY ONLY <2>3, <2>4, <2>5, Zenon DEF ChanT, SameQueues
    <2> QED
      BY <2>1, <2>2, <2>6, Zenon
  <1>4. chs2 \in [Chan -> ChanT]
    BY <1>3, Zenon DEF select_dequeue_all
  <1>5. BufOK(chs2)
    BY <1>1, <1>3, Zenon DEF BufOK
  <1>6. Decides(chs, chs2, s)
    BY <1>2, <1>3, Zenon DEF Decides, SameQueues, SameNodes
  <1>7. PICK k : k = [co[s] EXCEPT !.ready = i, !.timer = FALSE, !.woken = @ + 1]
    BY Zenon
  <1> DEFINE woken == co[s].woken + 1
  <1>14. /\ co[s] \in CoroT /\ woken \in Int
         /\ k = [co[s] EXCEPT !.ready = i, !.timer = FALSE, !.woken = woken]
    BY <1>1, <1>7, CoroFields, SMTT(40)
  <1> HIDE DEF woken
  <1>8. k \in CoroT
    BY ONLY <1>14, i \in Int, Zenon DEF CoroT
  <1>9. co2 = [co EXCEPT ![s] = k]
    BY <1>1, <1>7, Zenon DEF Resolved
  <1>10. co2 \in [Coro -> CoroT] /\ co2[s] = k /\ \A d \in Coro \ {s} : co2[d] = co[d]
    BY <1>1, <1>8, <1>9, Zenon
  <1>11. IsResolved(co[s], co2[s]) /\ OthersSame(co, co2, s)
    <2>1. IsResolved(co[s], k)
      BY ONLY <1>14, i \in Int, i # PENDING, Zenon DEF IsResolved, CoroT, woken
    <2> QED
      BY <1>10, <2>1, Zenon DEF OthersSame, SameWait
  <1>12. Shape(chs2, co2, run)
    <2>1. chs2 \in [Chan -> ChanT] /\ co2 \in [Coro -> CoroT]
      BY <1>4, <1>10, Zenon
    <2> QED
      BY ONLY <1>5, <1>6, <1>11, <2>1, s \in Coro, Undecided(co[s]), Shape(chs, co, run),
         ShapeResolve, ZenonT(40)
  <1>13. SameRefs(chs, co, chs2, co2)
    BY <1>3, <1>10, <1>11, Zenon DEF SameRefs, IsResolved
  <1> QED
    BY <1>12, <1>13, Zenon

\* Two steps that touch no reference are one.
LEMMA SameRefsTrans ==
    ASSUME NEW chs, NEW co, NEW chs1, NEW co1, NEW chs2, NEW co2,
           SameRefs(chs, co, chs1, co1), SameRefs(chs1, co1, chs2, co2)
    PROVE  SameRefs(chs, co, chs2, co2)
  BY Zenon DEF SameRefs

\* The first node of a select queue is one of an undecided select.
LEMMA FirstNode ==
    ASSUME NEW chs, NEW co, NEW run, Shape(chs, co, run), NEW h \in Chan
    PROVE  /\ chs[h].sendSel # <<>> =>
                /\ Head(chs[h].sendSel)[1] \in Coro /\ Head(chs[h].sendSel)[2] \in Nat
                /\ HasNode(co[Head(chs[h].sendSel)[1]], Head(chs[h].sendSel)[2], h, TRUE)
           /\ chs[h].recvSel # <<>> =>
                /\ Head(chs[h].recvSel)[1] \in Coro /\ Head(chs[h].recvSel)[2] \in Nat
                /\ HasNode(co[Head(chs[h].recvSel)[1]], Head(chs[h].recvSel)[2], h, FALSE)
  <1>1. chs[h] \in ChanT /\ SelOK(chs, co)
    BY Zenon DEF Shape
  <1>2. chs[h].sendSel \in Seq(Coro \X Nat) /\ chs[h].recvSel \in Seq(Coro \X Nat)
    BY <1>1, ChanFields, Zenon
  <1>3. ASSUME NEW q \in Seq(Coro \X Nat), q # <<>>
        PROVE  /\ Head(q) \in Range(q) /\ Head(q)[1] \in Coro /\ Head(q)[2] \in Nat
               /\ Head(q) = <<Head(q)[1], Head(q)[2]>>
    <2>1. Head(q) \in Range(q) /\ Head(q) \in Coro \X Nat
      BY <1>3, RangeFacts, Zenon
    <2> QED
      BY <2>1
  <1>4. ASSUME chs[h].sendSel # <<>>
        PROVE  /\ Head(chs[h].sendSel)[1] \in Coro /\ Head(chs[h].sendSel)[2] \in Nat
               /\ HasNode(co[Head(chs[h].sendSel)[1]], Head(chs[h].sendSel)[2], h, TRUE)
    <2>1. PICK q \in Seq(Coro \X Nat) : q = chs[h].sendSel
      BY <1>2, Zenon
    <2>2. PICK s, i : s = Head(q)[1] /\ i = Head(q)[2]
      BY Zenon
    <2>3. s \in Coro /\ i \in Nat /\ <<s, i>> \in Range(chs[h].sendSel)
      BY <1>3, <1>4, <2>1, <2>2, Zenon
    <2>4. HasNode(co[s], i, h, TRUE)
      BY <1>1, <2>3, Zenon DEF SelOK
    <2> QED
      BY <2>1, <2>2, <2>3, <2>4, Zenon
  <1>5. ASSUME chs[h].recvSel # <<>>
        PROVE  /\ Head(chs[h].recvSel)[1] \in Coro /\ Head(chs[h].recvSel)[2] \in Nat
               /\ HasNode(co[Head(chs[h].recvSel)[1]], Head(chs[h].recvSel)[2], h, FALSE)
    <2>1. PICK q \in Seq(Coro \X Nat) : q = chs[h].recvSel
      BY <1>2, Zenon
    <2>2. PICK s, i : s = Head(q)[1] /\ i = Head(q)[2]
      BY Zenon
    <2>3. s \in Coro /\ i \in Nat /\ <<s, i>> \in Range(chs[h].recvSel)
      BY <1>3, <1>5, <2>1, <2>2, Zenon
    <2>4. HasNode(co[s], i, h, FALSE)
      BY <1>1, <2>3, Zenon DEF SelOK
    <2> QED
      BY <2>1, <2>2, <2>3, <2>4, Zenon
  <1> QED
    BY <1>4, <1>5, Zenon

\* The case of a node is a case of its select, and not PENDING or TIMEOUT.
LEMMA NodeFacts ==
    ASSUME NEW k \in CoroT, NEW i \in Nat, NEW h, NEW b, HasNode(k, i, h, b)
    PROVE  Undecided(k) /\ i \in Int /\ i # PENDING /\ i # TIMEOUT /\ i \in 1..Len(k.cases)
           /\ k.cases[i] \in CaseT /\ k.cases[i].val \in ValueT
  <1>1. k.cases \in Seq(CaseT)
    BY CoroFields, Zenon
  <1>2. Undecided(k) /\ i \in 1..Len(k.cases)
    BY Zenon DEF HasNode
  <1>3. k.cases[i] \in CaseT
    BY <1>1, <1>2
  <1>4. k.cases[i].val \in ValueT
    BY <1>3, Zenon DEF CaseT
  <1> QED
    BY <1>2, <1>3, <1>4, SMTT(40) DEF PENDING, TIMEOUT

\* A value is given to the first receiver.
LEMMA ToReceiver ==
    ASSUME Library, NEW chs, NEW co, NEW run, Shape(chs, co, run), NEW h \in Chan, NEW v \in ValueT,
           chs[h].recvQ = chan[h].recvQ, chs[h].recvSel = chan[h].recvSel, taken \in TakenT,
           to_receiver(h, v, chs, co)
    PROVE  Shape(chan', coro', run) /\ SameRefs(chs, co, chan', coro') /\ taken' \in TakenT
  <1>1. chs[h] \in ChanT /\ co \in [Coro -> CoroT]
    BY Zenon DEF Shape
  <1>2. taken' \in TakenT
    <2>1. taken' = [taken EXCEPT ![h] = Append(@, v)]
      BY Zenon DEF to_receiver
    <2>2. taken[h] \in Seq(ValueT) /\ Append(taken[h], v) \in Seq(ValueT)
      BY DEF TakenT
    <2> QED
      BY <2>1, <2>2, Zenon DEF TakenT
  <1>3. CASE chan[h].recvQ # <<>>
    <2>1. PICK r : r = Head(chs[h].recvQ)
      BY Zenon
    <2>2. r \in Coro
      BY <1>1, <1>3, <2>1, ChanFields, RangeFacts, ZenonT(40)
    <2>3. PICK co1 : co1 = [co EXCEPT ![r].value = v]
      BY Zenon
    <2>4. Shape(chs, co1, run) /\ SameRefs(chs, co, chs, co1)
      BY ONLY <2>2, <2>3, Shape(chs, co, run), v \in ValueT, SetValue, Zenon
    <2>5. chan' = [chs EXCEPT ![h].recvQ = Tail(@)] /\ coro' = Woken(co1, Head(chs[h].recvQ))
      BY <1>3, <2>1, <2>3, Zenon DEF to_receiver
    <2>6. chs[h]["recvQ"] # <<>> /\ coro' = Woken(co1, Head(chs[h]["recvQ"]))
      BY <1>3, <2>5, Zenon
    <2>7. Shape(chan', coro', run) /\ SameRefs(chs, co1, chan', coro')
      BY ONLY <2>4, <2>5, <2>6, h \in Chan, WakeHead, ZenonT(40)
    <2> QED
      BY <1>2, <2>4, <2>7, SameRefsTrans, ZenonT(40)
  <1>4. CASE chan[h].recvQ = <<>>
    <2>1. PICK s, i : s = Head(chs[h].recvSel)[1] /\ i = Head(chs[h].recvSel)[2]
      BY Zenon
    <2>2. /\ chs[h].recvSel # <<>> /\ chan' = select_dequeue_all(chs, s)
          /\ coro' = Resolved([co EXCEPT ![s].value = v], s, i)
      BY <1>4, <2>1, Zenon DEF to_receiver
    <2>3. s \in Coro /\ i \in Nat /\ HasNode(co[s], i, h, FALSE)
      BY <2>1, <2>2, FirstNode, ZenonT(40)
    <2>4. PICK co1 : co1 = [co EXCEPT ![s].value = v]
      BY Zenon
    <2>5. Shape(chs, co1, run) /\ SameRefs(chs, co, chs, co1)
      BY ONLY <2>3, <2>4, Shape(chs, co, run), v \in ValueT, SetValue, ZenonT(40)
    <2>6. Undecided(co1[s]) /\ i \in Int /\ i # PENDING
      <3>1. co[s] \in CoroT /\ Undecided(co[s]) /\ i \in Int /\ i # PENDING
        BY <1>1, <2>3, NodeFacts, Zenon
      <3>2. co1[s] = [co[s] EXCEPT !.value = v]
        BY <1>1, <2>3, <2>4, Zenon
      <3> QED
        BY ONLY <3>1, <3>2, Zenon DEF Undecided, CoroT
    <2>7. Shape(chan', coro', run) /\ SameRefs(chs, co1, chan', coro')
      BY ONLY Library, <2>2, <2>3, <2>4, <2>5, <2>6, ResolveOne, ZenonT(40)
    <2> QED
      BY <1>2, <2>5, <2>7, SameRefsTrans, Zenon
  <1> QED
    BY <1>3, <1>4, Zenon

\* A value is taken from the first sender.
LEMMA FromSender ==
    ASSUME Library, NEW co, NEW run, Shape(chan, co, run), NEW h \in Chan, coro \in [Coro -> CoroT],
           \A s \in Coro : coro[s].cases = co[s].cases,
           taken \in TakenT, from_sender(h, co)
    PROVE  Shape(chan', coro', run) /\ SameRefs(chan, co, chan', coro') /\ taken' \in TakenT
  <1>1. chan[h] \in ChanT /\ co \in [Coro -> CoroT]
    BY Zenon DEF Shape
  <1>2. \A v \in ValueT : [taken EXCEPT ![h] = Append(@, v)] \in TakenT
    <2> TAKE v \in ValueT
    <2>2. taken[h] \in Seq(ValueT) /\ Append(taken[h], v) \in Seq(ValueT)
      BY DEF TakenT
    <2> QED
      BY <2>2, Zenon DEF TakenT
  <1>3. CASE chan[h].sendQ # <<>>
    <2>1. PICK s : s = Head(chan[h].sendQ)
      BY Zenon
    <2>2. s \in Coro
      BY <1>1, <1>3, <2>1, ChanFields, RangeFacts, ZenonT(40)
    <2>5. /\ chan' = [chan EXCEPT ![h].sendQ = Tail(@)] /\ coro' = Woken(co, Head(chan[h].sendQ))
          /\ taken' = [taken EXCEPT ![h] = Append(@, coro[s].value)]
      BY <1>3, <2>1, Zenon DEF from_sender
    <2>6. chan[h]["sendQ"] # <<>> /\ coro' = Woken(co, Head(chan[h]["sendQ"]))
      BY <1>3, <2>5, Zenon
    <2>7. Shape(chan', coro', run) /\ SameRefs(chan, co, chan', coro')
      BY ONLY <2>5, <2>6, h \in Chan, Shape(chan, co, run), WakeHead, ZenonT(40)
    <2>8. coro[s].value \in ValueT
      BY <2>2, CoroFields, Zenon
    <2> QED
      BY <1>2, <2>5, <2>7, <2>8, ZenonT(40)
  <1>4. CASE chan[h].sendQ = <<>>
    <2>1. PICK s, i : s = Head(chan[h].sendSel)[1] /\ i = Head(chan[h].sendSel)[2]
      BY Zenon
    <2>2. /\ chan[h].sendSel # <<>> /\ chan' = select_dequeue_all(chan, s)
          /\ coro' = Resolved(co, s, i)
          /\ taken' = [taken EXCEPT ![h] = Append(@, coro[s].cases[i].val)]
      BY <1>4, <2>1, Zenon DEF from_sender
    <2>3. s \in Coro /\ i \in Nat /\ HasNode(co[s], i, h, TRUE)
      BY <2>1, <2>2, FirstNode, Zenon
    <2>6. Undecided(co[s]) /\ i \in Int /\ i # PENDING /\ co[s].cases[i].val \in ValueT
      BY <1>1, <2>3, NodeFacts, Zenon
    <2>7. Shape(chan', coro', run) /\ SameRefs(chan, co, chan', coro')
      BY ONLY Library, <2>2, <2>3, <2>6, Shape(chan, co, run), ResolveOne, ZenonT(40)
    <2> QED
      BY <1>2, <2>2, <2>3, <2>6, <2>7, ZenonT(40)
  <1> QED
    BY <1>3, <1>4, Zenon

\* The first values of a sequence, and the others.
LEMMA SubSeqFacts ==
    ASSUME NEW S, NEW q \in Seq(S), NEW k \in 0..Len(q)
    PROVE  /\ SubSeq(q, 1, k) \in Seq(S) /\ Len(SubSeq(q, 1, k)) = k
           /\ \A i \in 1..k : SubSeq(q, 1, k)[i] = q[i]
           /\ SubSeq(q, k + 1, Len(q)) \in Seq(S) /\ Len(SubSeq(q, k + 1, Len(q))) = Len(q) - k
           /\ \A i \in 1..(Len(q) - k) : SubSeq(q, k + 1, Len(q))[i] = q[k + i]
  OBVIOUS

\* Values are taken from the buffer, and the first sender fills the place.
LEMMA FromBuffer ==
    ASSUME Library, NEW co, NEW run, Shape(chan, co, run), NEW h \in Chan, coro \in [Coro -> CoroT],
           \A s \in Coro : coro[s].cases = co[s].cases,
           taken \in TakenT, NEW k \in 1..Len(chan[h].buf), from_buffer(h, k, co)
    PROVE  Shape(chan', coro', run) /\ SameRefs(chan, co, chan', coro') /\ taken' \in TakenT
  <1>1. chan \in [Chan -> ChanT] /\ co \in [Coro -> CoroT] /\ Len(chan[h].buf) <= Capacity[h]
    BY Zenon DEF Shape, BufOK
  <1>0. chan[h].buf \in Seq(ValueT) /\ chan[h].sendQ \in Seq(Coro)
    BY <1>1, ChanFields, Zenon
  <1>10. Capacity[h] \in Nat
    BY ChannelAssumption, Zenon
  <1>2. PICK rest, got : rest = SubSeq(chan[h].buf, k + 1, Len(chan[h].buf)) /\ got = SubSeq(chan[h].buf, 1, k)
    BY Zenon
  <1>3. rest \in Seq(ValueT) /\ Len(rest) = Len(chan[h].buf) - k /\ got \in Seq(ValueT)
    BY <1>0, <1>2, SubSeqFacts, SMTT(40)
  <1>4. taken' \in TakenT
    <2>1. taken' = [taken EXCEPT ![h] = @ \o got]
      BY <1>2, Zenon DEF from_buffer
    <2>2. taken[h] \in Seq(ValueT) /\ taken[h] \o got \in Seq(ValueT)
      BY <1>3, SMTT(40) DEF TakenT
    <2> QED
      BY <2>1, <2>2, Zenon DEF TakenT
  <1>5. \A v \in ValueT : Append(rest, v) \in Seq(ValueT) /\ Len(Append(rest, v)) <= Capacity[h]
    BY <1>0, <1>1, <1>3, <1>10, SMTT(40)
  <1>6. Len(rest) <= Capacity[h]
    BY <1>0, <1>1, <1>3, <1>10, SMTT(40)
  <1>7. CASE chan[h].sendQ # <<>>
    <2>1. PICK s : s = Head(chan[h].sendQ)
      BY Zenon
    <2>2. s \in Coro
      BY <1>0, <1>7, <2>1, RangeFacts, ZenonT(40)
    <2>3. PICK b : b = Append(rest, coro[s].value)
      BY Zenon
    <2>4. b \in Seq(ValueT) /\ Len(b) <= Capacity[h]
      BY <1>5, <2>2, <2>3, CoroFields, ZenonT(40)
    <2>5. PICK chs1 : chs1 = [chan EXCEPT ![h].buf = b]
      BY Zenon
    <2>6. Shape(chs1, co, run) /\ SameRefs(chan, co, chs1, co)
      BY ONLY <2>4, <2>5, h \in Chan, Shape(chan, co, run), SetBuf, ZenonT(40)
    <2>7. /\ chan' = [chan EXCEPT ![h].buf = b, ![h].sendQ = Tail(@)]
          /\ coro' = Woken(co, s)
      BY <1>2, <1>7, <2>1, <2>3, ZenonT(40) DEF from_buffer
    <2>8. chs1[h].sendQ = chan[h].sendQ
      BY <1>1, <2>5, Zenon DEF ChanT
    <2>9. chan' = [chs1 EXCEPT ![h].sendQ = Tail(@)]
      BY <1>1, <2>5, <2>7, ZenonT(40)
    <2>10. chs1[h]["sendQ"] # <<>> /\ coro' = Woken(co, Head(chs1[h]["sendQ"]))
      BY <1>7, <2>1, <2>7, <2>8, ZenonT(40)
    <2>11. Shape(chan', coro', run) /\ SameRefs(chs1, co, chan', coro')
      BY ONLY <2>6, <2>9, <2>10, h \in Chan, WakeHead, ZenonT(40)
    <2> QED
      BY <1>4, <2>6, <2>11, SameRefsTrans, ZenonT(40)
  <1>8. CASE chan[h].sendQ = <<>> /\ chan[h].sendSel # <<>>
    <2>1. PICK s, i : s = Head(chan[h].sendSel)[1] /\ i = Head(chan[h].sendSel)[2]
      BY Zenon
    <2>2. s \in Coro /\ i \in Nat /\ HasNode(co[s], i, h, TRUE)
      BY <1>8, <2>1, FirstNode, ZenonT(40)
    <2>3. Undecided(co[s]) /\ i \in Int /\ i # PENDING /\ co[s].cases[i].val \in ValueT
      BY <1>1, <2>2, NodeFacts, ZenonT(40)
    <2>4. PICK b : b = Append(rest, coro[s].cases[i].val)
      BY Zenon
    <2>5. b \in Seq(ValueT) /\ Len(b) <= Capacity[h]
      BY <1>5, <2>2, <2>3, <2>4, ZenonT(40)
    <2>6. PICK chs1 : chs1 = [chan EXCEPT ![h].buf = b]
      BY Zenon
    <2>7. Shape(chs1, co, run) /\ SameRefs(chan, co, chs1, co)
      BY ONLY <2>5, <2>6, h \in Chan, Shape(chan, co, run), SetBuf, Zenon
    <2>8. chan' = select_dequeue_all(chs1, s) /\ coro' = Resolved(co, s, i)
      BY <1>2, <1>8, <2>1, <2>4, <2>6, ZenonT(40) DEF from_buffer
    <2>9. Shape(chan', coro', run) /\ SameRefs(chs1, co, chan', coro')
      BY ONLY Library, <2>2, <2>3, <2>7, <2>8, ResolveOne, ZenonT(40)
    <2> QED
      BY <1>4, <2>7, <2>9, SameRefsTrans, Zenon
  <1>9. CASE chan[h].sendQ = <<>> /\ chan[h].sendSel = <<>>
    <2>1. chan' = [chan EXCEPT ![h].buf = rest] /\ coro' = co
      BY <1>2, <1>9, Zenon DEF from_buffer
    <2>2. Shape(chan', coro', run) /\ SameRefs(chan, co, chan', coro')
      BY ONLY <1>3, <1>6, <2>1, h \in Chan, Shape(chan, co, run), SetBuf, ZenonT(40)
    <2> QED
      BY <1>4, <2>2, Zenon
  <1> QED
    BY <1>7, <1>8, <1>9, ZenonT(40)

\* A coroutine in no queue, which is idle or in a batch loop, blocks.
LEMMA Blocks ==
    ASSUME NEW chs, NEW co, NEW run, Shape(chs, co, run), NEW c \in Coro, NEW h \in Chan, NEW v \in ValueT,
           NEW side \in {"sendQ", "recvQ"}, run \in {None, c}, co[c].waits = None, ~Undecided(co[c]),
           NEW co1 \in [Coro -> CoroT], OthersSame(co, co1, c),
           co1[c].op \in (IF side = "sendQ" THEN Sending ELSE Receiving), co1[c].on = h,
           co1[c].woken = 0, ~co1[c].timer, co1[c].cases = <<>>,
           block(c, h, side, v, chs, co1)
    PROVE  /\ Shape(chan', coro', None)
           /\ chan'[h].refcount = chs[h].refcount + 1
           /\ \A g \in Chan : chan'[g].destroying = chs[g].destroying
           /\ \A g \in Chan \ {h} : chan'[g].refcount = chs[g].refcount
           /\ coro'[c].op = co1[c].op /\ coro'[c].on = h
           /\ \A d \in Coro \ {c} : coro'[d].op = co[d].op /\ coro'[d].on = co[d].on
  <1>1. chs \in [Chan -> ChanT] /\ chs[h] \in ChanT /\ BufOK(chs)
    BY Zenon DEF Shape
  <1>2. chs[h].sendQ \in Seq(Coro) /\ chs[h].recvQ \in Seq(Coro) /\ chs[h].refcount \in Int
    BY <1>1, ChanFields, Zenon
  <1>3. PICK q : q = Append(chs[h][side], c)
    BY Zenon
  <1>4. q \in Seq(Coro)
    BY <1>2, <1>3, RangeFacts, ZenonT(40)
  <1>5. PICK n : n = chs[h].refcount + 1
    BY Zenon
  <1>6. n \in Int
    BY <1>2, <1>5, SMTT(40)
  <1>7. PICK r : r = IF side = "sendQ" THEN [chs[h] EXCEPT !.sendQ = q, !.refcount = n]
                                       ELSE [chs[h] EXCEPT !.recvQ = q, !.refcount = n]
    BY Zenon
  <1>8. /\ r \in ChanT /\ r.buf = chs[h].buf /\ SameNodes(chs[h], r) /\ r.refcount = n
        /\ r.destroying = chs[h].destroying
        /\ r.sendQ = (IF side = "sendQ" THEN q ELSE chs[h].sendQ)
        /\ r.recvQ = (IF side = "recvQ" THEN q ELSE chs[h].recvQ)
    BY ONLY <1>1, <1>4, <1>6, <1>7, side \in {"sendQ", "recvQ"}, ZenonT(40) DEF ChanT, SameNodes
  <1>9. chan' = [chs EXCEPT ![h] = r]
    <2>1. CASE side = "sendQ"
      BY <1>1, <1>3, <1>5, <1>7, <2>1, ZenonT(40) DEF block
    <2>2. CASE side = "recvQ"
      BY <1>1, <1>3, <1>5, <1>7, <2>2, ZenonT(40) DEF block
    <2> QED
      BY <2>1, <2>2, Zenon
  <1>10. chan' \in [Chan -> ChanT] /\ chan'[h] = r /\ \A g \in Chan \ {h} : chan'[g] = chs[g]
    BY <1>1, <1>8, <1>9, ZenonT(40)
  <1>11. BufOK(chan')
    BY <1>1, <1>8, <1>10, ZenonT(40) DEF BufOK
  <1>12. Joins(chs, chan', h, c, side)
    BY <1>3, <1>8, <1>10, ZenonT(40) DEF Joins, SameQueues, SameNodes
  <1>13. PICK k : k = [co1[c] EXCEPT !.waits = h, !.value = v, !.freed = FALSE]
    BY Zenon
  <1>14. co1[c] \in CoroT
    BY Zenon
  <1>15. /\ k \in CoroT /\ k.waits = h /\ k.op = co1[c].op /\ k.on = co1[c].on /\ k.woken = co1[c].woken
         /\ k.timer = co1[c].timer /\ k.cases = co1[c].cases
    BY ONLY <1>13, <1>14, v \in ValueT, h \in Chan, ZenonT(40) DEF CoroT
  <1>16. coro' = [co1 EXCEPT ![c] = k]
    BY <1>13, Zenon DEF block
  <1>17. coro' \in [Coro -> CoroT] /\ coro'[c] = k /\ \A d \in Coro \ {c} : coro'[d] = co1[d]
    BY <1>15, <1>16, Zenon
  <1>18. IsWaiting(coro'[c], h, side)
    BY <1>15, <1>17, Zenon DEF IsWaiting
  <1>19. OthersSame(co, coro', c)
    BY <1>17, ZenonT(40) DEF OthersSame
  <1>20. Shape(chan', coro', None)
    BY ONLY <1>10, <1>11, <1>12, <1>17, <1>18, <1>19, Shape(chs, co, run), c \in Coro, h \in Chan,
            side \in {"sendQ", "recvQ"}, run \in {None, c}, co[c].waits = None, ~Undecided(co[c]), ShapeJoin, SMTT(40)
  <1> QED
    BY <1>5, <1>8, <1>10, <1>15, <1>17, <1>19, <1>20, ZenonT(40) DEF OthersSame, SameWait

-----------------------------------------------------------------------------
(* References.                                                             *)

Holders(co, run, h) == {c \in Coro : co[c].op # "none" /\ run # c /\ co[c].on = h}

SameCounts(chs, chs2, h) == chs2[h].refcount = chs[h].refcount /\ chs2[h].destroying = chs[h].destroying

\* What a step does to the references: nothing; a call blocks and takes one; a
\* call resumes and drops its own; the owner drops its own.
RefNone(chs, co, run, chs2, co2, run2) ==
    \A g \in Chan : SameCounts(chs, chs2, g) /\ Holders(co2, run2, g) = Holders(co, run, g)
RefTake(chs, co, run, chs2, co2, run2) ==
    \E c \in Coro, h \in Chan :
        /\ chs2[h].refcount = chs[h].refcount + 1 /\ chs2[h].destroying = chs[h].destroying
        /\ c \notin Holders(co, run, h) /\ Holders(co2, run2, h) = Holders(co, run, h) \cup {c}
        /\ \A g \in Chan \ {h} : SameCounts(chs, chs2, g) /\ Holders(co2, run2, g) = Holders(co, run, g)
RefDrop(chs, co, run, chs2, co2, run2) ==
    \E c \in Coro, h \in Chan :
        /\ chs2[h].refcount = chs[h].refcount - 1 /\ chs2[h].destroying = chs[h].destroying
        /\ c \in Holders(co, run, h) /\ Holders(co2, run2, h) = Holders(co, run, h) \ {c}
        /\ \A g \in Chan \ {h} : SameCounts(chs, chs2, g) /\ Holders(co2, run2, g) = Holders(co, run, g)
RefOwner(chs, co, run, chs2, co2, run2) ==
    \E h \in Chan :
        /\ chs2[h].refcount = chs[h].refcount - 1 /\ ~chs[h].destroying /\ chs2[h].destroying
        /\ Holders(co2, run2, h) = Holders(co, run, h)
        /\ \A g \in Chan \ {h} : SameCounts(chs, chs2, g) /\ Holders(co2, run2, g) = Holders(co, run, g)
RefStep(chs, co, run, chs2, co2, run2) ==
    \/ RefNone(chs, co, run, chs2, co2, run2)
    \/ RefTake(chs, co, run, chs2, co2, run2)
    \/ RefDrop(chs, co, run, chs2, co2, run2)
    \/ RefOwner(chs, co, run, chs2, co2, run2)

\* The count of the references: one for the owner, one for every call that
\* has blocked.
RefOK(chs, co, run) ==
    \A h \in Chan : chs[h].refcount = (IF chs[h].destroying THEN 0 ELSE 1) + Cardinality(Holders(co, run, h))

\* Each of the four things a step does to the references keeps their count
\* right.
LEMMA RefPreserved ==
    ASSUME Library, IsFiniteSet(Coro), NEW chs \in [Chan -> ChanT], NEW co, NEW run, NEW chs2 \in [Chan -> ChanT],
           NEW co2, NEW run2,
           RefStep(chs, co, run, chs2, co2, run2), RefOK(chs, co, run)
    PROVE  RefOK(chs2, co2, run2)
  <1>1. \A g \in Chan : IsFiniteSet(Holders(co, run, g)) /\ Cardinality(Holders(co, run, g)) \in Nat
    <2> TAKE g \in Chan
    <2>1. Holders(co, run, g) \subseteq Coro
      BY Zenon DEF Holders
    <2>2. IsFiniteSet(Holders(co, run, g))
      BY <2>1, FiniteSubset, Zenon
    <2> QED
      BY <2>2, FiniteSize, ZenonT(40)
  <1>2. \A g \in Chan : /\ chs[g].refcount \in Int /\ chs[g].destroying \in BOOLEAN
                        /\ chs2[g].refcount \in Int /\ chs2[g].destroying \in BOOLEAN
    BY ChanFields, Zenon
  <1>3. \A g \in Chan : chs[g].refcount = (IF chs[g].destroying THEN 0 ELSE 1) + Cardinality(Holders(co, run, g))
    BY Zenon DEF RefOK
  <1> SUFFICES ASSUME NEW g \in Chan
               PROVE  chs2[g].refcount = (IF chs2[g].destroying THEN 0 ELSE 1) + Cardinality(Holders(co2, run2, g))
    BY Zenon DEF RefOK
  <1>4. CASE SameCounts(chs, chs2, g) /\ Holders(co2, run2, g) = Holders(co, run, g)
    BY <1>3, <1>4, Zenon DEF SameCounts
  <1>5. CASE RefTake(chs, co, run, chs2, co2, run2)
    <2>1. PICK c \in Coro, h \in Chan :
            /\ chs2[h].refcount = chs[h].refcount + 1 /\ chs2[h].destroying = chs[h].destroying
            /\ c \notin Holders(co, run, h) /\ Holders(co2, run2, h) = Holders(co, run, h) \cup {c}
            /\ \A f \in Chan \ {h} : SameCounts(chs, chs2, f) /\ Holders(co2, run2, f) = Holders(co, run, f)
      BY <1>5, ZenonT(40) DEF RefTake
    <2>2. CASE g = h
      <3>1. Cardinality(Holders(co2, run2, g)) = Cardinality(Holders(co, run, g)) + 1
        BY <1>1, <2>1, <2>2, SizeAdd, SMTT(40)
      <3> QED
        BY <1>1, <1>2, <1>3, <2>1, <2>2, <3>1, SMTT(40)
    <2> QED
      BY <1>4, <2>1, <2>2, ZenonT(40)
  <1>6. CASE RefDrop(chs, co, run, chs2, co2, run2)
    <2>1. PICK c \in Coro, h \in Chan :
            /\ chs2[h].refcount = chs[h].refcount - 1 /\ chs2[h].destroying = chs[h].destroying
            /\ c \in Holders(co, run, h) /\ Holders(co2, run2, h) = Holders(co, run, h) \ {c}
            /\ \A f \in Chan \ {h} : SameCounts(chs, chs2, f) /\ Holders(co2, run2, f) = Holders(co, run, f)
      BY <1>6, Zenon DEF RefDrop
    <2>2. CASE g = h
      <3>1. Cardinality(Holders(co2, run2, g)) = Cardinality(Holders(co, run, g)) - 1
        BY <1>1, <2>1, <2>2, SizeRemove, ZenonT(40)
      <3> QED
        BY <1>1, <1>2, <1>3, <2>1, <2>2, <3>1, SMTT(40)
    <2> QED
      BY <1>4, <2>1, <2>2, ZenonT(40)
  <1>7. CASE RefOwner(chs, co, run, chs2, co2, run2)
    <2>1. PICK h \in Chan :
            /\ chs2[h].refcount = chs[h].refcount - 1 /\ ~chs[h].destroying /\ chs2[h].destroying
            /\ Holders(co2, run2, h) = Holders(co, run, h)
            /\ \A f \in Chan \ {h} : SameCounts(chs, chs2, f) /\ Holders(co2, run2, f) = Holders(co, run, f)
      BY <1>7, Zenon DEF RefOwner
    <2>2. CASE g = h
      BY <1>1, <1>2, <1>3, <2>1, <2>2, SMTT(40)
    <2> QED
      BY <1>4, <2>1, <2>2, ZenonT(40)
  <1> QED
    BY <1>4, <1>5, <1>6, <1>7, ZenonT(40) DEF RefStep, RefNone

\* A step that touches no reference keeps the count.
LEMMA RefSame ==
    ASSUME NEW chs, NEW co, NEW run, NEW chs2, NEW co2, SameRefs(chs, co, chs2, co2)
    PROVE  RefStep(chs, co, run, chs2, co2, run)
  <1>1. \A g \in Chan : Holders(co2, run, g) = Holders(co, run, g)
    BY Zenon DEF SameRefs, Holders
  <1> QED
    BY <1>1, Zenon DEF SameRefs, RefStep, RefNone, SameCounts

\* A coroutine that holds no reference starts, goes on with or ends a call.
LEMMA RefLocal ==
    ASSUME NEW chs, NEW co, NEW run, NEW chs2, NEW co2, NEW run2, NEW c \in Coro,
           \A g \in Chan : SameCounts(chs, chs2, g),
           \A d \in Coro \ {c} : co2[d].op = co[d].op /\ co2[d].on = co[d].on,
           \A d \in Coro \ {c} : run = d <=> run2 = d,
           co[c].op = "none" \/ run = c \/ co[c].on \notin Chan,
           co2[c].op = "none" \/ run2 = c \/ co2[c].on \notin Chan
    PROVE  RefStep(chs, co, run, chs2, co2, run2)
  <1>1. \A g \in Chan : Holders(co2, run2, g) = Holders(co, run, g)
    BY ZenonT(40) DEF Holders
  <1> QED
    BY <1>1, Zenon DEF RefStep, RefNone

\* A call that blocks takes a reference.
LEMMA RefBlocks ==
    ASSUME NEW chs, NEW co, NEW run, NEW chs2, NEW co2, NEW c \in Coro, NEW h \in Chan,
           run \in {None, c},
           chs2[h].refcount = chs[h].refcount + 1, \A g \in Chan : chs2[g].destroying = chs[g].destroying,
           \A g \in Chan \ {h} : chs2[g].refcount = chs[g].refcount,
           \A d \in Coro \ {c} : co2[d].op = co[d].op /\ co2[d].on = co[d].on,
           co[c].op = "none" \/ run = c,
           co2[c].op # "none", co2[c].on = h
    PROVE  RefStep(chs, co, run, chs2, co2, None)
  <1>0. None \notin Coro
    BY ChannelAssumption, Zenon
  <1>1. \A g \in Chan \ {h} : Holders(co2, None, g) = Holders(co, run, g)
    BY <1>0, SMTT(40) DEF Holders
  <1>2. c \notin Holders(co, run, h) /\ Holders(co2, None, h) = Holders(co, run, h) \cup {c}
    BY <1>0 DEF Holders
  <1>3. RefTake(chs, co, run, chs2, co2, None)
    BY <1>1, <1>2, ZenonT(40) DEF RefTake, SameCounts
  <1> QED
    BY <1>3, Zenon DEF RefStep

\* A call that resumes drops its reference.
LEMMA RefResumes ==
    ASSUME NEW chs, NEW co, NEW chs2, NEW co2, NEW run2 \in Coro \cup {None}, NEW c \in Coro, NEW h \in Chan,
           run2 \in {None, c},
           chs2[h].refcount = chs[h].refcount - 1, \A g \in Chan : chs2[g].destroying = chs[g].destroying,
           \A g \in Chan \ {h} : chs2[g].refcount = chs[g].refcount,
           \A d \in Coro \ {c} : co2[d].op = co[d].op /\ co2[d].on = co[d].on,
           co[c].op # "none", co[c].on = h,
           co2[c].op = "none" \/ run2 = c
    PROVE  RefStep(chs, co, None, chs2, co2, run2)
  <1>0. None \notin Coro
    BY ChannelAssumption, Zenon
  <1>1. \A g \in Chan \ {h} : Holders(co2, run2, g) = Holders(co, None, g)
    BY <1>0, SMTT(40) DEF Holders
  <1>2. c \in Holders(co, None, h) /\ Holders(co2, run2, h) = Holders(co, None, h) \ {c}
    BY <1>0, SMTT(40) DEF Holders
  <1>3. RefDrop(chs, co, None, chs2, co2, run2)
    BY <1>1, <1>2, Zenon DEF RefDrop, SameCounts
  <1> QED
    BY <1>3, Zenon DEF RefStep

-----------------------------------------------------------------------------
(* The actions.                                                            *)

\* What a step keeps; in a program without batches nobody gets into a batch.
MayLoop(c) == coro[c].op \in Looping \/ program.ops \cap Batches # {}

\* What is shown of every step.
StepOK ==
    /\ Shape(chan', coro', running')
    /\ "cancel" \notin program.ops => RefStep(chan, coro, running, chan', coro', running')
    /\ made' \in 0..program.values
    /\ taken' \in TakenT
    /\ \A d \in Coro : coro'[d].op = "select" => coro[d].op = "select" \/ "select" \in program.ops
    /\ \A d \in Coro : coro'[d].op \in Looping => MayLoop(d)

\* A coroutine outside the calls of coco_channel_* waits for nothing.
LEMMA IdleFacts ==
    ASSUME ChanInv, NEW c \in Coro, coro[c].op = "none"
    PROVE  /\ coro[c].waits = None /\ ~Undecided(coro[c]) /\ coro[c].on = None
           /\ coro[c].woken = 0 /\ ~coro[c].timer /\ coro[c].cases = <<>> /\ running # c
  <1>1. CoroOK(coro[c], running = c)
    BY Zenon DEF ChanInv, Shape
  <1> QED
    BY ONLY <1>1, coro[c].op = "none", Zenon DEF CoroOK, Undecided, Plain, Looping

\* The types of the variables.
LEMMA Types ==
    ASSUME ChanInv
    PROVE  /\ chan \in [Chan -> ChanT] /\ coro \in [Coro -> CoroT] /\ BufOK(chan) /\ taken \in TakenT
           /\ program \in Uses /\ made \in 0..program.values /\ Shape(chan, coro, running)
           /\ program.values \in 0..MaxValues /\ MaxValues \in Nat /\ program.chans \subseteq Chan
  BY ChannelAssumption, Zenon DEF ChanInv, Shape

\* A step that changes nothing the invariant speaks of.
LEMMA Stays ==
    ASSUME ChanInv, UNCHANGED <<chan, coro, running, made, taken>>
    PROVE  StepOK
  <1>1. SameRefs(chan, coro, chan', coro')
    BY Zenon DEF SameRefs
  <1>2. RefStep(chan, coro, running, chan', coro', running')
    BY <1>1, RefSame, Zenon
  <1> QED
    BY <1>2, Zenon DEF StepOK, ChanInv, MayLoop

\* A step that touches no reference.
LEMMA SameStep ==
    ASSUME ChanInv, NEW chs, NEW co, SameRefs(chan, coro, chs, co), SameRefs(chs, co, chan', coro'),
           Shape(chan', coro', running), running' = running, made' \in 0..program.values, taken' \in TakenT
    PROVE  StepOK
  <1>1. SameRefs(chan, coro, chan', coro')
    BY SameRefsTrans, Zenon
  <1>2. RefStep(chan, coro, running, chan', coro', running')
    BY <1>1, RefSame, Zenon
  <1> QED
    BY <1>1, <1>2, Zenon DEF StepOK, SameRefs, MayLoop

\* Doing nothing touches no reference.
LEMMA Reflexive == \A chs, co : SameRefs(chs, co, chs, co)
  BY Zenon DEF SameRefs

-----------------------------------------------------------------------------
(* The cases of a select.                                                  *)

\* The nodes that a select registers with a side of h.
LEMMA NodesFacts ==
    ASSUME Library, NEW c \in Coro, NEW cs \in Seq(CaseT), NEW h, NEW side
    PROVE  /\ Nodes(c, cs, h, side) \in Seq(Coro \X Nat)
           /\ \A x : x \in Range(Nodes(c, cs, h, side)) <=>
                     \E i \in 1..Len(cs) : x = <<c, i>> /\ cs[i].on = h /\ cs[i].send = side
  <1>1. PICK q, X : /\ q = [i \in 1..Len(cs) |-> <<c, i>>]
                    /\ X = {<<c, i>> : i \in {j \in 1..Len(cs) : cs[j].on # h \/ cs[j].send # side}}
    BY Zenon
  <1>2. Len(cs) \in Nat /\ \A i \in 1..Len(cs) : <<c, i>> \in Coro \X Nat
    OBVIOUS
  <1>3. q \in Seq(Coro \X Nat) /\ Len(q) = Len(cs) /\ \A i \in 1..Len(cs) : q[i] = <<c, i>>
    BY <1>1, <1>2, SMTT(40)
  <1>4. Nodes(c, cs, h, side) = Without(q, X)
    BY <1>1, Zenon DEF Nodes
  <1>5. Without(q, X) \in Seq(Coro \X Nat) /\ Range(Without(q, X)) = Range(q) \ X
    BY ONLY Library, <1>3, WithoutFacts, ZenonT(40)
  <1>6. \A x : x \in Range(q) <=> \E i \in 1..Len(cs) : x = <<c, i>>
    <2>1. \A x : x \in Range(q) <=> \E i \in 1..Len(q) : q[i] = x
      BY ONLY <1>3, InRange, Zenon
    <2> QED
      BY <1>3, <2>1, Zenon
  <1>7. \A i \in 1..Len(cs) : <<c, i>> \in X <=> (cs[i].on # h \/ cs[i].send # side)
    BY <1>1, Zenon
  <1>8. \A x : x \in Range(q) \ X <=> \E i \in 1..Len(cs) : x = <<c, i>> /\ cs[i].on = h /\ cs[i].send = side
    BY <1>6, <1>7, ZenonT(40)
  <1> QED
    BY <1>4, <1>5, <1>8, ZenonT(40)

\* The values that the send cases of a list carry are those of the range that
\* the caller made for them.
LEMMA CaseValues ==
    ASSUME Library, NEW m \in Nat, NEW top \in Nat, top <= MaxValues, NEW n \in Nat, NEW sends, sends \subseteq 1..n,
           m + Cardinality(sends) <= top
    PROVE  /\ m + Cardinality(sends) \in 0..top
           /\ \A i \in sends : m + Cardinality(sends \cap 1..i) \in Value
  <1>1. IsFiniteSet(sends) /\ Cardinality(sends) \in Nat
    <2>1. PICK a : a = 1
      BY Zenon
    <2>2. IsFiniteSet(a..n)
      BY ONLY Library, <2>1, n \in Nat, a \in Int, n \in Int, FiniteInterval, ZenonT(40)
    <2>3. sends \subseteq a..n
      BY <2>1, Zenon
    <2>4. IsFiniteSet(sends)
      BY ONLY Library, <2>2, <2>3, FiniteSubset, ZenonT(40)
    <2> QED
      BY ONLY Library, <2>4, FiniteSize, ZenonT(40)
  <1>2. ASSUME NEW i \in sends
        PROVE  m + Cardinality(sends \cap 1..i) \in Value
    <2>1. PICK p : p = sends \cap 1..i
      BY Zenon
    <2>2. p \subseteq sends /\ i \in p
      BY <2>1, SMTT(40)
    <2>3. IsFiniteSet(p) /\ Cardinality(p) \in Nat /\ Cardinality(p) <= Cardinality(sends)
      BY ONLY Library, <1>1, <2>2, FiniteSubset, FiniteSize, ZenonT(40)
    <2>4. Cardinality(p) # 0
      BY ONLY Library, <2>2, <2>3, EmptySize, ZenonT(40)
    <2>5. MaxValues \in Nat
      BY ChannelAssumption, ZenonT(40)
    <2>6. m + Cardinality(p) \in 1..MaxValues
      BY ONLY <1>1, <2>3, <2>4, <2>5, m \in Nat, top \in Nat, top <= MaxValues,
         m + Cardinality(sends) <= top, SMTT(40)
    <2> QED
      BY <2>1, <2>6, ZenonT(40) DEF Value
  <1> QED
    BY <1>1, <1>2, SMTT(40)

\* What select does with the cases cs that it has checked.
SelectTries(c, cs) ==
    \/ \E i \in 1..Len(cs) :
         /\ CaseReady(cs, i)
         /\ IF cs[i].send THEN select_send(cs[i].on, cs[i].val) ELSE select_recv(cs[i].on)
    \/ /\ \A i \in 1..Len(cs) : ~CaseReady(cs, i)
       /\ select_register(c, cs)

\* coco_channel_select() fills its cases in and tries them.
LEMMA SelectPlan ==
    ASSUME Library, ChanInv, NEW c \in Coro, coco_channel_select(c)
    PROVE  \/ Crash("use after free")
           \/ /\ running' = running /\ made' \in 0..program.values
              /\ \E cs \in Seq(CaseT) :
                   /\ \A i \in 1..Len(cs) : cs[i].on \in Chan /\ cs[i].val \in ValueT
                   /\ SelectTries(c, cs)
  <1>1. /\ taken \in TakenT /\ made \in 0..program.values
        /\ program.values \in 0..MaxValues /\ MaxValues \in Nat
    BY Types, Zenon
  <1>3. PICK list \in SelectCases :
         LET sends == {i \in DOMAIN list : list[i].send}
             cs == [i \in DOMAIN list |->
                      [on |-> list[i].on, send |-> list[i].send,
                       val |-> IF i \in sends
                               THEN made + Cardinality(sends \cap 1..i) ELSE None]]
         IN  /\ made + Cardinality(sends) <= program.values
             /\ IF \E i \in DOMAIN list : Dangling(list[i].on) THEN Crash("use after free") ELSE
                /\ made' = made + Cardinality(sends)
                /\ \/ \E i \in DOMAIN cs :
                         /\ FirstReady(cs, i)
                         /\ IF cs[i].send THEN select_send(cs[i].on, cs[i].val)
                                          ELSE select_recv(cs[i].on)
                   \/ /\ \A i \in DOMAIN cs : ~CaseReady(cs, i)
                      /\ select_register(c, cs)
                /\ UNCHANGED <<running, fault>>
    BY Zenon DEF coco_channel_select
  <1>4. PICK sends : sends = {i \in DOMAIN list : list[i].send}
    BY Zenon
  <1>5. PICK cs : cs = [i \in DOMAIN list |->
                      [on |-> list[i].on, send |-> list[i].send,
                       val |-> IF i \in sends THEN made + Cardinality(sends \cap 1..i) ELSE None]]
    BY Zenon
  <1>6. /\ made + Cardinality(sends) <= program.values
        /\ \/ Crash("use after free")
           \/ /\ made' = made + Cardinality(sends)
              /\ \/ \E i \in DOMAIN cs :
                         /\ FirstReady(cs, i)
                         /\ IF cs[i].send THEN select_send(cs[i].on, cs[i].val)
                                          ELSE select_recv(cs[i].on)
                 \/ /\ \A i \in DOMAIN cs : ~CaseReady(cs, i)
                    /\ select_register(c, cs)
              /\ UNCHANGED <<running, fault>>
    BY <1>3, <1>4, <1>5, ZenonT(40)
  <1>7. /\ list \in Seq([on : Chan, send : BOOLEAN])
    BY <1>1, ChannelAssumption, Zenon
  <1>8. /\ DOMAIN list = 1..Len(list) /\ Len(list) \in Nat /\ sends \subseteq 1..Len(list)
        /\ \A i \in 1..Len(list) : list[i].on \in Chan /\ list[i].send \in BOOLEAN
    <2>1. /\ DOMAIN list = 1..Len(list) /\ Len(list) \in Nat
          /\ \A i \in 1..Len(list) : list[i] \in [on : Chan, send : BOOLEAN]
      <3>1. PICK S : S = [on : Chan, send : BOOLEAN]
        BY Zenon
      <3>2. list \in Seq(S)
        BY <1>7, <3>1, ZenonT(40)
      <3>3. DOMAIN list = 1..Len(list) /\ Len(list) \in Nat /\ \A i \in 1..Len(list) : list[i] \in S
        BY ONLY <3>2, SMTT(40)
      <3> QED
        BY <3>1, <3>3, Zenon
    <2>2. sends \subseteq 1..Len(list)
      BY ONLY <1>4, <2>1, ZenonT(40)
    <2>3. ASSUME NEW i \in 1..Len(list)
          PROVE  list[i].on \in Chan /\ list[i].send \in BOOLEAN
      <3>1. list[i] \in [on : Chan, send : BOOLEAN]
        BY <2>1, Zenon
      <3> QED
        BY ONLY <3>1, Zenon
    <2> QED
      BY ONLY <2>1, <2>2, <2>3, ZenonT(40)
  <1>9. /\ made + Cardinality(sends) \in 0..program.values
        /\ \A i \in sends : made + Cardinality(sends \cap 1..i) \in Value
    <2>1. PICK m, top, n : m = made /\ top = program.values /\ n = Len(list)
      BY Zenon
    <2>2. m \in Nat /\ top \in Nat /\ top <= MaxValues /\ n \in Nat /\ sends \subseteq 1..n /\ m + Cardinality(sends) <= top
      <3>1. m \in Nat /\ top \in Nat /\ top <= MaxValues
        BY ONLY <1>1, <2>1, SMTT(40)
      <3>2. n \in Nat /\ sends \subseteq 1..n
        BY ONLY <1>8, <2>1, Zenon
      <3>3. m + Cardinality(sends) <= top
        BY ONLY <1>6, <2>1, Zenon
      <3> QED
        BY ONLY <3>1, <3>2, <3>3, ZenonT(40)
    <2>3. /\ m + Cardinality(sends) \in 0..top
          /\ \A i \in sends : m + Cardinality(sends \cap 1..i) \in Value
      BY ONLY Library, <2>2, CaseValues, ZenonT(40)
    <2> QED
      BY <2>1, <2>3, Zenon
  <1>10. /\ cs \in Seq(CaseT) /\ Len(cs) = Len(list) /\ DOMAIN cs = 1..Len(cs)
         /\ \A i \in 1..Len(cs) : cs[i].on \in Chan /\ cs[i].val \in ValueT
    <2>1. \A i \in 1..Len(list) : (IF i \in sends THEN made + Cardinality(sends \cap 1..i) ELSE None) \in ValueT
      BY <1>9, Zenon DEF ValueT
    <2>2. \A i \in 1..Len(list) : cs[i] \in CaseT /\ cs[i].on \in Chan /\ cs[i].val \in ValueT
      BY <1>5, <1>8, <2>1, ZenonT(40) DEF CaseT
    <2>3. cs \in [1..Len(list) -> CaseT]
      BY <1>5, <1>8, <2>2, ZenonT(40)
    <2> QED
      BY <1>8, <2>2, <2>3, SMTT(40)
  <1>11. CASE Crash("use after free")
    BY <1>11, Zenon
  <1>12. ASSUME NEW i \in DOMAIN cs, FirstReady(cs, i), made' = made + Cardinality(sends), UNCHANGED running,
                IF cs[i].send THEN select_send(cs[i].on, cs[i].val) ELSE select_recv(cs[i].on)
         PROVE  SelectTries(c, cs)
    BY <1>10, <1>12, ZenonT(40) DEF FirstReady, SelectTries
  <1>13. ASSUME select_register(c, cs), \A i \in DOMAIN cs : ~CaseReady(cs, i)
         PROVE  SelectTries(c, cs)
    BY <1>10, <1>13, Zenon DEF SelectTries
  <1>14. CASE SelectTries(c, cs) /\ made' = made + Cardinality(sends) /\ UNCHANGED running
    BY <1>9, <1>10, <1>14, ZenonT(40)
  <1> QED
    BY <1>6, <1>11, <1>12, <1>13, <1>14, ZenonT(40)
=============================================================================
