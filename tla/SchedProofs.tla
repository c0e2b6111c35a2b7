----------------------------- MODULE SchedProofs ----------------------------
(***************************************************************************)
(* Proofs about the single-threaded scheduler, for any number of           *)
(* coroutines, any aging parameters and any repertoire of calls, provided  *)
(* that no coroutine is cancelled inside coco_sleep(): the inductive       *)
(* invariant, and what enqueue_ready(), the moves between levels,          *)
(* dequeue_ready() and every action do to it. Every step is a step of      *)
(* PriorityFifo, the priority queue of include/coco.h, or leaves lines and *)
(* running coroutine alone. And coro_count, which decides when             *)
(* coco_sched_run() returns, counts the coroutines that have not finished. *)
(***************************************************************************)
EXTENDS Sched, TLAPS

-----------------------------------------------------------------------------
(* The ready lists.                                                        *)

\* What holds of the control variables: the running coroutine is the current
\* one and runs only while pc = "coro"; dequeue_ready() is only entered with
\* something to dequeue.
ControlInv ==
    /\ pc \in {"coro", "ret"} => current \in Coro
    /\ pc = "coro" => state[current] = "RUNNING"
    /\ pc = "ret" => state[current] \in {"READY", "WAITING", "DEAD", "OVERFLOW",
                                         "OVERFLOW_RESUME"}
    /\ \A c \in Coro : state[c] = "RUNNING" => pc = "coro" /\ c = current
    /\ \A c \in Coro : state[c] = "OVERFLOW_RESUME" => pc = "ret" /\ c = current
    /\ pc \in {"age", "pick"} => ready_count > 0
    /\ pc = "age" => scan > 0
    /\ \A c \in Coro : Exists(c) => c \in table
    /\ pc # "crash"

\* The inductive invariant.
SchedInv ==
    /\ TypeOK
    /\ SummariesAgree
    /\ ReadyExactlyOnce
    /\ WaitersAreReachable
    /\ ControlInv

-----------------------------------------------------------------------------
(* Facts about the list operations.                                        *)

\* Unlink(s, i) is s with its i-th element taken out.
LEMMA UnlinkFacts ==
    ASSUME NEW S, NEW s \in Seq(S), NEW i \in 1..Len(s)
    PROVE  /\ Unlink(s, i) \in Seq(S)
           /\ Len(Unlink(s, i)) = Len(s) - 1
           /\ DOMAIN Unlink(s, i) = 1..(Len(s) - 1)
           /\ \A j \in 1..(Len(s) - 1) :
                 Unlink(s, i)[j] = IF j < i THEN s[j] ELSE s[j + 1]
  <1> DEFINE n == Len(s) - 1
             f == [j \in 1..n |-> IF j < i THEN s[j] ELSE s[j + 1]]
  <1>1. n \in Nat
    BY DEF n
  <1>2. \A j \in 1..n : f[j] \in S
    BY <1>1 DEF f
  <1>3. f \in [1..n -> S]
    BY <1>2, Zenon DEF f
  <1>4. f \in Seq(S) /\ Len(f) = n
    BY <1>1, <1>3
  <1>5. Unlink(s, i) = f
    BY Zenon DEF Unlink, f, n
  <1> QED
    BY <1>1, <1>3, <1>4, <1>5, Zenon DEF f

\* The four levels, one by one.
LEMMA PrioCases == Prio = {0, 1, 2, 3}
  BY DEF Prio

\* The most urgent level with its bit set.
LEMMA LeastFacts ==
    ASSUME NEW B \in SUBSET Prio, B # {}
    PROVE  Least(B) \in B /\ \A q \in B : Least(B) =< q
  <1>1. \E x \in B : \A y \in B : x =< y
    <2>1. \A y \in B : y = 0 \/ y = 1 \/ y = 2 \/ y = 3
      BY PrioCases, Zenon
    <2>2. CASE 0 \in B
      BY <2>1, <2>2
    <2>3. CASE 0 \notin B /\ 1 \in B
      BY <2>1, <2>3
    <2>4. CASE 0 \notin B /\ 1 \notin B /\ 2 \in B
      BY <2>1, <2>4
    <2>5. CASE 0 \notin B /\ 1 \notin B /\ 2 \notin B
      BY <2>1, <2>5
    <2> QED
      BY <2>2, <2>3, <2>4, <2>5, Zenon
  <1> QED
    BY <1>1, Zenon DEF Least

\* enqueue_ready() of a coroutine that is not READY keeps the lists and their
\* summaries in order.
LEMMA EnqueueFacts ==
    ASSUME TypeOK, SummariesAgree, ReadyExactlyOnce,
           NEW c \in Coro, state[c] # "READY", enqueue_ready(c),
           priority' = priority
    PROVE  /\ SummariesAgree'
           /\ ReadyExactlyOnce'
           /\ ready' \in [Prio -> Seq(Coro)]
           /\ ready_counts' \in [Prio -> Nat]
           /\ ready_count' \in Nat
           /\ ready_bitmap' \in SUBSET Prio
           /\ state' \in [Coro -> States]
           /\ age' \in [Coro -> Nat]
           /\ ready_count' > 0
  <1> DEFINE p == priority[c]
             n == Len(ready[p])
  <1>a. /\ ready \in [Prio -> Seq(Coro)]
        /\ ready_counts \in [Prio -> Nat] /\ ready_count \in Nat
        /\ ready_bitmap \in SUBSET Prio /\ priority \in [Coro -> Prio]
        /\ state \in [Coro -> States] /\ age \in [Coro -> Nat]
    BY ZenonT(30) DEF TypeOK
  <1>p. p \in Prio
    BY <1>a
  <1>s. ready[p] \in Seq(Coro)
    BY <1>a, <1>p
  <1>n. n \in Nat
    BY <1>s
  <1>1. /\ p \in Prio /\ ready \in [Prio -> Seq(Coro)] /\ ready[p] \in Seq(Coro) /\ n \in Nat
        /\ ready_counts \in [Prio -> Nat] /\ ready_count \in Nat
        /\ ready_bitmap \in SUBSET Prio /\ priority \in [Coro -> Prio]
        /\ state \in [Coro -> States] /\ age \in [Coro -> Nat]
    BY <1>a, <1>p, <1>s, <1>n, Zenon
  <1>2. /\ ready' = [ready EXCEPT ![p] = Append(ready[p], c)]
        /\ ready_counts' = [ready_counts EXCEPT ![p] = ready_counts[p] + 1]
        /\ ready_count' = ready_count + 1
        /\ ready_bitmap' = ready_bitmap \cup {p}
        /\ state' = [state EXCEPT ![c] = "READY"]
        /\ age' = [age EXCEPT ![c] = 0]
    BY Zenon DEF enqueue_ready
  <1>3. DOMAIN ready[p] = 1..n
    BY <1>1
  <1>4. \A q \in Prio : \A i \in DOMAIN ready[q] : ready[q][i] # c /\ ready[q][i] \in Coro
    BY <1>1 DEF ReadyExactlyOnce
  <1> HIDE DEF p
  <1>5. /\ Append(ready[p], c) \in Seq(Coro)
        /\ Len(Append(ready[p], c)) = n + 1
        /\ \A i \in 1..n : Append(ready[p], c)[i] = ready[p][i]
        /\ Append(ready[p], c)[n + 1] = c
    BY <1>1
  <1> HIDE DEF n
  <1>6. /\ ready'[p] = Append(ready[p], c)
        /\ \A q \in Prio : q # p => ready'[q] = ready[q]
        /\ ready' \in [Prio -> Seq(Coro)]
    BY <1>1, <1>2, <1>5, Zenon
  <1>7. /\ Len(ready'[p]) = n + 1
        /\ DOMAIN ready'[p] = 1..(n + 1)
        /\ \A i \in 1..n : ready'[p][i] = ready[p][i]
        /\ ready'[p][n + 1] = c
    <2>1. DOMAIN ready'[p] = 1..Len(ready'[p])
      BY <1>1, <1>6
    <2> QED
      BY <2>1, <1>5, <1>6, ZenonT(30)
  <1>8. /\ ready_counts' \in [Prio -> Nat]
        /\ ready_count' \in Nat
        /\ ready_count' > 0
        /\ ready_bitmap' \in SUBSET Prio
    BY <1>1, <1>2
  <1>9. state' \in [Coro -> States] /\ age' \in [Coro -> Nat]
    BY <1>1, <1>2, Zenon DEF States
  <1>10. SummariesAgree'
    <2>1. ready'[p] # <<>>
      BY <1>1, <1>7
    <2>2. ready_bitmap' = {q \in Prio : ready'[q] # <<>>}
      BY <1>1, <1>2, <1>6, <2>1, ZenonT(30) DEF SummariesAgree
    <2>3. \A q \in Prio : ready_counts'[q] = Len(ready'[q])
      <3>1. ready_counts[p] = n
        BY <1>1, Zenon DEF SummariesAgree, n
      <3>2. ready_counts'[p] = Len(ready'[p])
        BY <1>1, <1>2, <1>7, <3>1, Zenon
      <3>3. \A q \in Prio : q # p => ready_counts'[q] = Len(ready'[q])
        BY <1>1, <1>2, <1>6, Zenon DEF SummariesAgree
      <3> QED
        BY <3>2, <3>3, Zenon
    <2>4. ready_count' = ready_counts'[0] + ready_counts'[1] + ready_counts'[2] + ready_counts'[3]
      <3>1. ready_count = ready_counts[0] + ready_counts[1] + ready_counts[2] + ready_counts[3]
        BY Zenon DEF SummariesAgree
      <3>2. p = 0 \/ p = 1 \/ p = 2 \/ p = 3
        BY <1>1, PrioCases, Zenon
      <3>3. ready_counts' = [ready_counts EXCEPT ![p] = ready_counts[p] + 1]
            /\ ready_count' = ready_count + 1 /\ ready_counts \in [Prio -> Nat]
        BY <1>a, <1>2, Zenon
      <3>4. /\ 0 \in Prio /\ 1 \in Prio /\ 2 \in Prio /\ 3 \in Prio
            /\ ready_counts[0] \in Nat /\ ready_counts[1] \in Nat
            /\ ready_counts[2] \in Nat /\ ready_counts[3] \in Nat
        BY <1>a, PrioCases, Zenon
      <3> QED
        BY <3>1, <3>2, <3>3, <3>4
    <2> QED
      BY <2>2, <2>3, <2>4, Zenon DEF SummariesAgree
  <1>11. ReadyExactlyOnce'
    <2>1. \A q \in Prio : \A i \in DOMAIN ready'[q] :
             state'[ready'[q][i]] = "READY" /\ priority'[ready'[q][i]] = q
      <3> SUFFICES ASSUME NEW q \in Prio, NEW i \in DOMAIN ready'[q]
                   PROVE  state'[ready'[q][i]] = "READY" /\ priority'[ready'[q][i]] = q
        BY Zenon
      <3>1. CASE q = p /\ i = n + 1
        BY <1>1, <1>2, <1>7, <3>1 DEF p
      <3>2. CASE q = p /\ i # n + 1
        <4>1. i \in 1..n /\ ready'[q][i] = ready[q][i]
          BY <1>n, <1>7, <3>2
        <4>2. i \in DOMAIN ready[q]
          BY <1>3, <3>2, <4>1, ZenonT(30)
        <4>3. ready[q][i] # c /\ ready[q][i] \in Coro
          BY <1>4, <4>2, Zenon
        <4>4. state[ready[q][i]] = "READY" /\ priority[ready[q][i]] = q
          BY <4>2, Zenon DEF ReadyExactlyOnce
        <4> QED
          BY <1>a, <1>2, <4>1, <4>3, <4>4, ZenonT(30)
      <3>3. CASE q # p
        BY <1>1, <1>2, <1>4, <1>6, <3>3 DEF ReadyExactlyOnce
      <3> QED
        BY <3>1, <3>2, <3>3, Zenon
    <2>2. \A q \in Prio : \A i, j \in DOMAIN ready'[q] : ready'[q][i] = ready'[q][j] => i = j
      <3> SUFFICES ASSUME NEW q \in Prio, NEW i \in DOMAIN ready'[q], NEW j \in DOMAIN ready'[q],
                          ready'[q][i] = ready'[q][j]
                   PROVE  i = j
        BY Zenon
      <3>1. CASE q = p
        <4>0. \A a, b \in DOMAIN ready[p] : ready[p][a] = ready[p][b] => a = b
          BY <1>p, ZenonT(20) DEF ReadyExactlyOnce
        <4>1. \A a, b \in 1..n : ready[p][a] = ready[p][b] => a = b
          BY <1>3, <4>0, Zenon
        <4>2. \A a \in 1..n : ready[p][a] # c
          BY <1>1, <1>3, <1>4, Zenon
        <4>3. (i \in 1..n \/ i = n + 1) /\ (j \in 1..n \/ j = n + 1)
          <5>1. DOMAIN ready'[q] = 1..(n + 1) /\ n \in Nat
            BY <1>1, <1>7, <3>1, Zenon
          <5> QED
            BY <5>1
        <4> QED
          BY <1>7, <3>1, <4>1, <4>2, <4>3, Zenon
      <3>2. CASE q # p
        BY <1>6, <3>2 DEF ReadyExactlyOnce
      <3> QED
        BY <3>1, <3>2, Zenon
    <2>3. ASSUME NEW d \in Coro, state'[d] = "READY"
          PROVE  \E i \in DOMAIN ready'[priority'[d]] : ready'[priority'[d]][i] = d
      <3>1. CASE d = c
        <4>1. n + 1 \in DOMAIN ready'[p] /\ ready'[p][n + 1] = d
          BY <1>1, <1>7, <3>1, SMTT(40)
        <4> QED
          BY <3>1, <4>1, Zenon DEF p
      <3>2. CASE d # c
        <4>1. state[d] = "READY" /\ priority[d] \in Prio
          BY <1>1, <1>2, <2>3, <3>2, Zenon
        <4>2. PICK i \in DOMAIN ready[priority[d]] : ready[priority[d]][i] = d
          BY <4>1, Zenon DEF ReadyExactlyOnce
        <4>3. CASE priority[d] = p
          <5>1. i \in 1..n /\ i \in 1..(n + 1)
            BY <1>1, <1>3, <4>2, <4>3
          <5> QED
            BY <1>7, <4>2, <4>3, <5>1, Zenon
        <4>4. CASE priority[d] # p
          BY <1>6, <4>1, <4>2, <4>4, Zenon
        <4> QED
          BY <4>3, <4>4, Zenon
      <3> QED
        BY <3>1, <3>2, Zenon
    <2> QED
      BY <2>1, <2>2, <2>3, Zenon DEF ReadyExactlyOnce
  <1> QED
    BY <1>6, <1>8, <1>9, <1>10, <1>11, Zenon

\* Moving a READY coroutine to another level keeps the lists and their
\* summaries in order.
LEMMA MoveFacts ==
    ASSUME TypeOK, SummariesAgree, ReadyExactlyOnce,
           NEW p \in Prio, NEW q \in Prio, p # q,
           NEW i \in DOMAIN ready[p], MoveLevel(p, i, q),
           state' = state
    PROVE  /\ SummariesAgree'
           /\ ReadyExactlyOnce'
           /\ ready' \in [Prio -> Seq(Coro)]
           /\ ready_counts' \in [Prio -> Nat]
           /\ ready_count' = ready_count
           /\ ready_bitmap' \in SUBSET Prio
           /\ priority' = [priority EXCEPT ![ready[p][i]] = q]
           /\ priority' \in [Coro -> Prio]
  <1> DEFINE c == ready[p][i]
             n == Len(ready[p])
             m == Len(ready[q])
             rest == Unlink(ready[p], i)
             longer == Append(ready[q], c)
  <1>a. /\ ready \in [Prio -> Seq(Coro)]
        /\ ready_counts \in [Prio -> Nat] /\ ready_count \in Nat
        /\ ready_bitmap \in SUBSET Prio /\ priority \in [Coro -> Prio]
        /\ state \in [Coro -> States]
    BY ZenonT(30) DEF TypeOK
  <1>s. ready[p] \in Seq(Coro) /\ ready[q] \in Seq(Coro)
    BY <1>a
  <1>n. n \in Nat /\ m \in Nat /\ DOMAIN ready[p] = 1..n /\ DOMAIN ready[q] = 1..m
    BY <1>s
  <1>i. i \in 1..n
    BY <1>n
  <1>c. c \in Coro
    BY <1>s
  <1>1. /\ rest \in Seq(Coro)
        /\ Len(rest) = n - 1
        /\ \A j \in 1..(n - 1) : rest[j] = IF j < i THEN ready[p][j] ELSE ready[p][j + 1]
    BY <1>s, <1>i, UnlinkFacts, ZenonT(30)
  <1>2. /\ longer \in Seq(Coro)
        /\ Len(longer) = m + 1
        /\ \A j \in 1..m : longer[j] = ready[q][j]
        /\ longer[m + 1] = c
    BY <1>s, <1>c
  <1>3. /\ DOMAIN rest = 1..(n - 1)
        /\ DOMAIN longer = 1..(m + 1)
    BY <1>1, <1>2, <1>n
  <1>4. /\ ready' = [ready EXCEPT ![p] = rest, ![q] = longer]
        /\ priority' = [priority EXCEPT ![c] = q]
        /\ ready_count' = ready_count
        /\ ready_counts' = [ready_counts EXCEPT ![p] = ready_counts[p] - 1,
                                               ![q] = ready_counts[q] + 1]
        /\ ready_bitmap' = (IF rest = <<>> THEN ready_bitmap \ {p}
                                           ELSE ready_bitmap) \cup {q}
    BY <1>a DEF MoveLevel
  <1>o. /\ state[c] = "READY" /\ priority[c] = p
        /\ \A r \in Prio : \A j \in DOMAIN ready[r] :
              /\ ready[r][j] \in Coro
              /\ state[ready[r][j]] = "READY"
              /\ priority[ready[r][j]] = r
    BY <1>a DEF ReadyExactlyOnce
  <1>u. /\ \A j, k \in DOMAIN ready[p] : ready[p][j] = ready[p][k] => j = k
        /\ \A j, k \in DOMAIN ready[q] : ready[q][j] = ready[q][k] => j = k
    BY ZenonT(20) DEF ReadyExactlyOnce
  <1>v. \A j \in 1..n : ready[p][j] = c => j = i
    BY <1>u, <1>n, <1>i
  <1>w. \A r \in Prio : \A j \in DOMAIN ready[r] : r # p => ready[r][j] # c
    BY <1>o
  <1> HIDE DEF c, n, m, rest, longer
  <1>5. /\ ready'[p] = rest
        /\ ready'[q] = longer
        /\ \A r \in Prio : r # p /\ r # q => ready'[r] = ready[r]
        /\ ready' \in [Prio -> Seq(Coro)]
    BY <1>a, <1>1, <1>2, <1>4, ZenonT(30)
  <1>6. priority' \in [Coro -> Prio] /\ priority'[c] = q
        /\ \A d \in Coro : d # c => priority'[d] = priority[d]
    BY <1>a, <1>c, <1>4, Zenon
  <1>7. ready_counts[p] = n /\ n > 0
    <2>1. ready_counts[p] = n
      BY Zenon DEF SummariesAgree, n
    <2> QED
      BY <1>n, <1>i, <2>1
  <1>8. ready_counts' \in [Prio -> Nat] /\ ready_bitmap' \in SUBSET Prio
    <2>1. ready_counts[p] - 1 \in Nat /\ ready_counts[q] + 1 \in Nat
      BY <1>a, <1>n, <1>7
    <2>2. ready_counts' \in [Prio -> Nat]
      BY <1>a, <1>4, <2>1, ZenonT(30)
    <2>3. ready_bitmap' \in SUBSET Prio
      BY <1>a, <1>4, Zenon
    <2> QED
      BY <2>2, <2>3, Zenon
  <1>9. SummariesAgree'
    <2>1. longer # <<>>
      BY <1>2, <1>n
    <2>2. ready_bitmap' = {r \in Prio : ready'[r] # <<>>}
      <3>1. ready_bitmap = {r \in Prio : ready[r] # <<>>}
        BY Zenon DEF SummariesAgree
      <3>2. \A r \in Prio : r \in ready_bitmap' <=> ready'[r] # <<>>
        <4> SUFFICES ASSUME NEW r \in Prio
                     PROVE  r \in ready_bitmap' <=> ready'[r] # <<>>
          BY Zenon
        <4>1. CASE r = p
          <5>1. ready[p] # <<>>
            BY <1>i, <1>n DEF n
          <5> QED
            BY <1>4, <1>5, <3>1, <4>1, <5>1, Zenon
        <4>2. CASE r = q
          BY <1>4, <1>5, <2>1, <4>2, Zenon
        <4>3. CASE r # p /\ r # q
          BY <1>4, <1>5, <3>1, <4>3, Zenon
        <4> QED
          BY <4>1, <4>2, <4>3, Zenon
      <3> QED
        BY <1>8, <3>2, Zenon
    <2>3. \A r \in Prio : ready_counts'[r] = Len(ready'[r])
      <3>1. ready_counts[q] = m /\ \A r \in Prio : ready_counts[r] = Len(ready[r])
        BY Zenon DEF SummariesAgree, m
      <3>2. ready_counts'[p] = n - 1 /\ ready_counts'[q] = m + 1
        BY <1>a, <1>4, <1>7, <3>1, Zenon
      <3>3. \A r \in Prio : r # p /\ r # q => ready_counts'[r] = ready_counts[r]
        BY <1>a, <1>4, Zenon
      <3>4. Len(ready'[p]) = n - 1 /\ Len(ready'[q]) = m + 1
        BY <1>1, <1>2, <1>5, Zenon
      <3> QED
        BY <1>5, <3>1, <3>2, <3>3, <3>4, ZenonT(30)
    <2>4. ready_count' = ready_counts'[0] + ready_counts'[1] + ready_counts'[2] + ready_counts'[3]
      <3>1. ready_count = ready_counts[0] + ready_counts[1] + ready_counts[2] + ready_counts[3]
        BY Zenon DEF SummariesAgree
      <3>2. /\ p = 0 \/ p = 1 \/ p = 2 \/ p = 3
            /\ q = 0 \/ q = 1 \/ q = 2 \/ q = 3
        BY PrioCases, Zenon
      <3>3. /\ ready_counts' = [ready_counts EXCEPT ![p] = ready_counts[p] - 1,
                                                   ![q] = ready_counts[q] + 1]
            /\ ready_count' = ready_count /\ ready_counts \in [Prio -> Nat]
        BY <1>a, <1>4, Zenon
      <3>4. /\ 0 \in Prio /\ 1 \in Prio /\ 2 \in Prio /\ 3 \in Prio
            /\ ready_counts[0] \in Nat /\ ready_counts[1] \in Nat
            /\ ready_counts[2] \in Nat /\ ready_counts[3] \in Nat
        BY <1>a, PrioCases, Zenon
      <3> QED
        BY <3>1, <3>2, <3>3, <3>4
    <2> QED
      BY <2>2, <2>3, <2>4, Zenon DEF SummariesAgree
  <1>10. \A j \in 1..(n - 1) :
            \E k \in 1..n : k # i /\ rest[j] = ready[p][k] /\ k = IF j < i THEN j ELSE j + 1
    BY <1>1, <1>n, <1>i, SMTT(40)
  <1>11. \A r \in Prio : \A j \in DOMAIN ready'[r] :
             state'[ready'[r][j]] = "READY" /\ priority'[ready'[r][j]] = r
    <2> SUFFICES ASSUME NEW r \in Prio, NEW j \in DOMAIN ready'[r]
                 PROVE  state[ready'[r][j]] = "READY" /\ priority'[ready'[r][j]] = r
      BY Zenon
    <2>1. CASE r = p
      <3>1. PICK k \in 1..n : k # i /\ rest[j] = ready[p][k]
        BY <1>3, <1>5, <1>10, <2>1, Zenon
      <3>2. k \in DOMAIN ready[p] /\ ready[p][k] # c
        BY <1>n, <1>v, <3>1, Zenon
      <3>3. /\ ready[p][k] \in Coro /\ state[ready[p][k]] = "READY"
            /\ priority[ready[p][k]] = p
        BY <1>o, <3>2, ZenonT(40)
      <3>4. ready'[r][j] = ready[p][k]
        BY <1>5, <2>1, <3>1, Zenon
      <3> QED
        BY <1>6, <2>1, <3>2, <3>3, <3>4, Zenon
    <2>2. CASE r = q /\ j = m + 1
      BY <1>2, <1>5, <1>6, <1>o, <2>2, Zenon
    <2>3. CASE r = q /\ j # m + 1
      <3>1. j \in 1..m
        BY <1>3, <1>5, <1>n, <2>3
      <3>2. j \in DOMAIN ready[q] /\ ready'[q][j] = ready[q][j]
        BY <1>2, <1>5, <1>n, <3>1, Zenon
      <3> QED
        BY <1>6, <1>o, <1>w, <2>3, <3>2
    <2>4. CASE r # p /\ r # q
      <3>1. ready'[r] = ready[r] /\ j \in DOMAIN ready[r]
        BY <1>5, <2>4, Zenon
      <3>2. /\ ready[r][j] \in Coro /\ state[ready[r][j]] = "READY"
            /\ priority[ready[r][j]] = r /\ ready[r][j] # c
        BY <1>o, <1>w, <2>4, <3>1, Zenon
      <3> QED
        BY <1>6, <3>1, <3>2, Zenon
    <2> QED
      BY <2>1, <2>2, <2>3, <2>4, Zenon
  <1>12. \A r \in Prio : \A j, k \in DOMAIN ready'[r] : ready'[r][j] = ready'[r][k] => j = k
    <2> SUFFICES ASSUME NEW r \in Prio, NEW j \in DOMAIN ready'[r], NEW k \in DOMAIN ready'[r],
                        ready'[r][j] = ready'[r][k]
                 PROVE  j = k
      BY Zenon
    <2>1. CASE r = p
      <3>1. j \in 1..(n - 1) /\ k \in 1..(n - 1) /\ rest[j] = rest[k]
        BY <1>3, <1>5, <2>1, Zenon
      <3>2. PICK a \in 1..n : rest[j] = ready[p][a] /\ a = IF j < i THEN j ELSE j + 1
        BY <1>10, <3>1, Zenon
      <3>3. PICK b \in 1..n : rest[k] = ready[p][b] /\ b = IF k < i THEN k ELSE k + 1
        BY <1>10, <3>1, Zenon
      <3>4. a = b
        BY <1>u, <1>n, <3>1, <3>2, <3>3, ZenonT(30)
      <3> QED
        BY <1>n, <1>i, <3>1, <3>2, <3>3, <3>4
    <2>2. CASE r = q
      <3>1. (j \in 1..m \/ j = m + 1) /\ (k \in 1..m \/ k = m + 1)
        BY <1>3, <1>5, <1>n, <2>2, SMTT(40)
      <3>2. \A a \in 1..m : longer[a] # c
        BY <1>2, <1>n, <1>w, Zenon
      <3>3. longer[j] = longer[k]
        BY <1>5, <2>2, Zenon
      <3> QED
        BY <1>2, <1>n, <1>u, <3>1, <3>2, <3>3, Zenon
    <2>3. CASE r # p /\ r # q
      <3>1. ready'[r] = ready[r]
        BY <1>5, <2>3, Zenon
      <3>2. \A a, b \in DOMAIN ready[r] : ready[r][a] = ready[r][b] => a = b
        BY Zenon DEF ReadyExactlyOnce
      <3>3. j \in DOMAIN ready[r] /\ k \in DOMAIN ready[r] /\ ready[r][j] = ready[r][k]
        BY <3>1, Zenon
      <3> QED
        BY <3>2, <3>3, Zenon
    <2> QED
      BY <2>1, <2>2, <2>3, Zenon
  <1>13. ASSUME NEW d \in Coro, state'[d] = "READY"
         PROVE  \E j \in DOMAIN ready'[priority'[d]] : ready'[priority'[d]][j] = d
    <2>1. CASE d = c
      <3>1. m + 1 \in DOMAIN ready'[q] /\ ready'[q][m + 1] = d
        BY <1>2, <1>3, <1>5, <1>n, <2>1
      <3> QED
        BY <1>6, <2>1, <3>1, Zenon
    <2>2. CASE d # c
      <3>1. state[d] = "READY" /\ priority'[d] = priority[d] /\ priority[d] \in Prio
        BY <1>a, <1>6, <1>13, <2>2, Zenon
      <3>2. PICK j \in DOMAIN ready[priority[d]] : ready[priority[d]][j] = d
        BY <3>1, Zenon DEF ReadyExactlyOnce
      <3>3. CASE priority[d] = p
        <4>1. j \in 1..n /\ j # i
          BY <1>n, <2>2, <3>2, <3>3, Zenon DEF c
        <4> DEFINE k == IF j < i THEN j ELSE j - 1
        <4>2. k \in 1..(n - 1) /\ (k < i <=> j < i) /\ (~ (j < i) => k + 1 = j) /\ (j < i => k = j)
          BY <1>n, <1>i, <4>1
        <4> HIDE DEF k
        <4>3. rest[k] = ready[p][j]
          BY <1>1, <4>2, Zenon
        <4> QED
          BY <1>3, <1>5, <3>1, <3>2, <3>3, <4>2, <4>3, Zenon
      <3>4. CASE priority[d] = q
        <4>1. j \in 1..m /\ j \in 1..(m + 1)
          BY <1>n, <3>2, <3>4
        <4> QED
          BY <1>2, <1>3, <1>5, <3>1, <3>2, <3>4, <4>1, Zenon
      <3>5. CASE priority[d] # p /\ priority[d] # q
        BY <1>5, <3>1, <3>2, <3>5, Zenon
      <3> QED
        BY <3>3, <3>4, <3>5, Zenon
    <2> QED
      BY <2>1, <2>2, Zenon
  <1>14. ReadyExactlyOnce'
    BY <1>11, <1>12, <1>13, Zenon DEF ReadyExactlyOnce
  <1> QED
    BY <1>4, <1>5, <1>6, <1>8, <1>9, <1>14, ZenonT(30) DEF c

\* dequeue_ready() takes the first coroutine of the most urgent level.
LEMMA DequeueFacts ==
    ASSUME SchedInv, dequeue_and_switch
    PROVE  \E p \in Prio :
              LET c == Head(ready[p])
              IN  /\ p = Least(ready_bitmap)
                  /\ ready[p] \in Seq(Coro)
                  /\ ready[p] # <<>>
                  /\ c \in Coro
                  /\ state[c] = "READY"
                  /\ pc' = "coro"
                  /\ self' = c
                  /\ current' = c
                  /\ state' = [state EXCEPT ![c] = "RUNNING"]
                  /\ ready' = [ready EXCEPT ![p] = Tail(ready[p])]
                  /\ ready' \in [Prio -> Seq(Coro)]
                  /\ ready_counts' \in [Prio -> Nat]
                  /\ ready_count' \in Nat
                  /\ ready_bitmap' \in SUBSET Prio
                  /\ SummariesAgree'
                  /\ ReadyExactlyOnce'
  <1> DEFINE p == Least(ready_bitmap)
             s == ready[p]
             n == Len(s)
             c == Head(s)
             rest == Tail(s)
  <1>a. /\ ready \in [Prio -> Seq(Coro)]
        /\ ready_counts \in [Prio -> Nat] /\ ready_count \in Nat
        /\ ready_bitmap \in SUBSET Prio /\ priority \in [Coro -> Prio]
        /\ state \in [Coro -> States]
    BY Zenon DEF SchedInv, TypeOK
  <1>b. /\ ready_bitmap = {q \in Prio : ready[q] # <<>>}
        /\ \A q \in Prio : ready_counts[q] = Len(ready[q])
        /\ ready_count = ready_counts[0] + ready_counts[1] + ready_counts[2] + ready_counts[3]
    BY DEF SchedInv, SummariesAgree
  <1>d. ready_count > 0
    BY DEF SchedInv, ControlInv, dequeue_and_switch
  <1>e. ready_bitmap # {}
    <2> SUFFICES ASSUME ready_bitmap = {} PROVE FALSE
      BY Zenon
    <2>1. ready[0] = <<>> /\ ready[1] = <<>> /\ ready[2] = <<>> /\ ready[3] = <<>>
      BY <1>b, PrioCases, Zenon
    <2>2. ready_counts[0] = 0 /\ ready_counts[1] = 0 /\ ready_counts[2] = 0 /\ ready_counts[3] = 0
      BY <1>b, <2>1, PrioCases, Zenon
    <2> QED
      BY <1>b, <1>d, <2>2
  <1>p. p \in Prio /\ p \in ready_bitmap
    BY <1>a, <1>e, LeastFacts, ZenonT(30)
  <1> HIDE DEF p
  <1>s. s \in Seq(Coro) /\ s # <<>>
    BY <1>a, <1>b, <1>p
  <1>n. n \in Nat /\ n > 0 /\ DOMAIN s = 1..n
    BY <1>s
  <1>c. c \in Coro /\ c = s[1]
    BY <1>s
  <1>r. /\ rest \in Seq(Coro)
        /\ Len(rest) = n - 1
        /\ \A j \in 1..(n - 1) : rest[j] = s[j + 1]
    BY <1>s
  <1>t. DOMAIN rest = 1..(n - 1)
    BY <1>r, <1>n
  <1>1. /\ ready' = [ready EXCEPT ![p] = rest]
        /\ ready_bitmap' = IF rest = <<>> THEN ready_bitmap \ {p} ELSE ready_bitmap
        /\ ready_counts' = [ready_counts EXCEPT ![p] = ready_counts[p] - 1]
        /\ ready_count' = ready_count - 1
        /\ state' = [state EXCEPT ![c] = "RUNNING"]
        /\ priority' = priority
        /\ self' = c
        /\ current' = c
        /\ pc' = "coro"
    BY <1>e, <1>s DEF dequeue_and_switch, p
  <1>o. \A r \in Prio : \A j \in DOMAIN ready[r] :
              /\ ready[r][j] \in Coro
              /\ state[ready[r][j]] = "READY"
              /\ priority[ready[r][j]] = r
    BY <1>a DEF SchedInv, ReadyExactlyOnce
  <1>u. \A j, k \in DOMAIN s : s[j] = s[k] => j = k
    BY <1>p, ZenonT(20) DEF SchedInv, ReadyExactlyOnce
  <1>v. state[c] = "READY" /\ priority[c] = p
    <2>1. 1 \in DOMAIN ready[p]
      BY <1>n
    <2> QED
      BY <1>c, <1>o, <1>p, <2>1
  <1> HIDE DEF s, n, c, rest
  <1>2. /\ ready'[p] = rest
        /\ \A r \in Prio : r # p => ready'[r] = ready[r]
        /\ ready' \in [Prio -> Seq(Coro)]
    BY <1>a, <1>p, <1>r, <1>1, Zenon
  <1>3. ready_counts[p] = n
    BY <1>b, <1>p, Zenon DEF n, s
  <1>4. /\ ready_counts' \in [Prio -> Nat]
        /\ ready_counts'[p] = n - 1
        /\ \A r \in Prio : r # p => ready_counts'[r] = ready_counts[r]
    <2>1. n - 1 \in Nat
      BY <1>n
    <2> QED
      BY <1>a, <1>p, <1>1, <1>3, <2>1, Zenon
  <1>5. ready_count' \in Nat
    BY <1>a, <1>d, <1>1
  <1>6. ready_bitmap' \in SUBSET Prio
    BY <1>a, <1>1, Zenon
  <1>7. SummariesAgree'
    <2>1. ready_bitmap' = {r \in Prio : ready'[r] # <<>>}
      <3>1. \A r \in Prio : r \in ready_bitmap' <=> ready'[r] # <<>>
        <4> SUFFICES ASSUME NEW r \in Prio
                     PROVE  r \in ready_bitmap' <=> ready'[r] # <<>>
          BY Zenon
        <4>1. CASE r = p
          BY <1>p, <1>1, <1>2, <4>1, Zenon
        <4>2. CASE r # p
          BY <1>b, <1>1, <1>2, <4>2, Zenon
        <4> QED
          BY <4>1, <4>2, Zenon
      <3> QED
        BY <1>6, <3>1, Zenon
    <2>2. \A r \in Prio : ready_counts'[r] = Len(ready'[r])
      BY <1>b, <1>r, <1>2, <1>4, ZenonT(30)
    <2>3. ready_count' = ready_counts'[0] + ready_counts'[1] + ready_counts'[2] + ready_counts'[3]
      <3>1. p = 0 \/ p = 1 \/ p = 2 \/ p = 3
        BY <1>p, PrioCases, Zenon
      <3>2. /\ ready_counts' = [ready_counts EXCEPT ![p] = ready_counts[p] - 1]
            /\ ready_count' = ready_count - 1 /\ ready_counts \in [Prio -> Nat]
        BY <1>a, <1>1, Zenon
      <3>3. /\ 0 \in Prio /\ 1 \in Prio /\ 2 \in Prio /\ 3 \in Prio
            /\ ready_counts[0] \in Nat /\ ready_counts[1] \in Nat
            /\ ready_counts[2] \in Nat /\ ready_counts[3] \in Nat
        BY <1>a, PrioCases, Zenon
      <3>4. ready_count = ready_counts[0] + ready_counts[1] + ready_counts[2] + ready_counts[3]
        BY <1>b, Zenon
      <3> QED
        BY <3>1, <3>2, <3>3, <3>4
    <2> QED
      BY <2>1, <2>2, <2>3, Zenon DEF SummariesAgree
  <1>8. \A j \in 1..(n - 1) : j + 1 \in 1..n /\ rest[j] = s[j + 1] /\ rest[j] # c
    <2> SUFFICES ASSUME NEW j \in 1..(n - 1)
                 PROVE  j + 1 \in 1..n /\ rest[j] = s[j + 1] /\ rest[j] # c
      BY Zenon
    <2>1. j + 1 \in 1..n /\ 1 \in 1..n /\ j + 1 # 1
      BY <1>n
    <2> QED
      BY <1>c, <1>n, <1>r, <1>u, <2>1, ZenonT(30)
  <1>9. \A r \in Prio : \A j \in DOMAIN ready'[r] :
             state'[ready'[r][j]] = "READY" /\ priority'[ready'[r][j]] = r
    <2> SUFFICES ASSUME NEW r \in Prio, NEW j \in DOMAIN ready'[r]
                 PROVE  state'[ready'[r][j]] = "READY" /\ priority[ready'[r][j]] = r
      BY <1>1
    <2>1. CASE r = p
      <3>1. /\ ready'[r][j] = rest[j] /\ rest[j] # c
            /\ rest[j] = s[j + 1] /\ j + 1 \in DOMAIN s
        BY <1>2, <1>n, <1>t, <1>8, <2>1, Zenon
      <3>2. rest[j] \in Coro /\ state[rest[j]] = "READY" /\ priority[rest[j]] = p
        BY <1>o, <1>p, <3>1 DEF s
      <3> QED
        BY <1>1, <1>a, <2>1, <3>1, <3>2, Zenon
    <2>2. CASE r # p
      <3>1. ready'[r] = ready[r] /\ j \in DOMAIN ready[r]
        BY <1>2, <2>2, Zenon
      <3>2. /\ ready[r][j] \in Coro /\ state[ready[r][j]] = "READY"
            /\ priority[ready[r][j]] = r
        BY <1>o, <3>1, Zenon
      <3>3. ready[r][j] # c
        BY <1>v, <2>2, <3>2, Zenon
      <3> QED
        BY <1>1, <1>a, <3>1, <3>2, <3>3, Zenon
    <2> QED
      BY <2>1, <2>2, Zenon
  <1>10. \A r \in Prio : \A j, k \in DOMAIN ready'[r] : ready'[r][j] = ready'[r][k] => j = k
    <2> SUFFICES ASSUME NEW r \in Prio, NEW j \in DOMAIN ready'[r], NEW k \in DOMAIN ready'[r],
                        ready'[r][j] = ready'[r][k]
                 PROVE  j = k
      BY Zenon
    <2>1. CASE r = p
      <3>1. j \in 1..(n - 1) /\ k \in 1..(n - 1) /\ rest[j] = rest[k]
        BY <1>2, <1>t, <2>1, Zenon
      <3>2. j + 1 = k + 1
        BY <1>n, <1>u, <1>8, <3>1, SMTT(40)
      <3> QED
        BY <1>n, <3>1, <3>2
    <2>2. CASE r # p
      <3>1. ready'[r] = ready[r]
        BY <1>2, <2>2, Zenon
      <3>2. \A a, b \in DOMAIN ready[r] : ready[r][a] = ready[r][b] => a = b
        BY Zenon DEF SchedInv, ReadyExactlyOnce
      <3>3. j \in DOMAIN ready[r] /\ k \in DOMAIN ready[r] /\ ready[r][j] = ready[r][k]
        BY <3>1, Zenon
      <3> QED
        BY <3>2, <3>3, Zenon
    <2> QED
      BY <2>1, <2>2, Zenon
  <1>11. ASSUME NEW d \in Coro, state'[d] = "READY"
         PROVE  \E j \in DOMAIN ready'[priority'[d]] : ready'[priority'[d]][j] = d
    <2>1. d # c /\ state[d] = "READY" /\ priority[d] \in Prio
      BY <1>a, <1>c, <1>1, <1>11, Zenon
    <2>2. PICK j \in DOMAIN ready[priority[d]] : ready[priority[d]][j] = d
      BY <2>1, Zenon DEF SchedInv, ReadyExactlyOnce
    <2>3. CASE priority[d] = p
      <3>1. j \in 1..n /\ j # 1 /\ s[j] = d
        BY <1>c, <1>n, <2>1, <2>2, <2>3, Zenon DEF s
      <3>2. j - 1 \in 1..(n - 1) /\ (j - 1) + 1 = j
        BY <1>n, <3>1
      <3>3. rest[j - 1] = d
        BY <1>r, <3>1, <3>2, Zenon
      <3> QED
        BY <1>1, <1>2, <1>t, <2>3, <3>2, <3>3
    <2>4. CASE priority[d] # p
      BY <1>1, <1>2, <2>1, <2>2, <2>4, Zenon
    <2> QED
      BY <2>3, <2>4, Zenon
  <1>12. ReadyExactlyOnce'
    BY <1>9, <1>10, <1>11, Zenon DEF ReadyExactlyOnce
  <1>13. p = Least(ready_bitmap)
    BY Zenon DEF p
  <1> USE DEF s, c, rest
  <1> QED
    BY <1>p, <1>s, <1>c, <1>v, <1>1, <1>2, <1>4, <1>5, <1>6, <1>7, <1>12, <1>13, ZenonT(30)

-----------------------------------------------------------------------------
(* The actions.                                                            *)

\* A step that leaves the lists alone, and makes no coroutine READY or not
\* READY, keeps what is said of them.
LEMMA QueueFrame ==
    ASSUME TypeOK, SummariesAgree, ReadyExactlyOnce,
           UNCHANGED <<queueVars, priority>>,
           \A c \in Coro : state'[c] = "READY" <=> state[c] = "READY"
    PROVE  SummariesAgree' /\ ReadyExactlyOnce'
  <1>1. /\ ready' = ready /\ ready_counts' = ready_counts /\ ready_count' = ready_count
        /\ ready_bitmap' = ready_bitmap /\ priority' = priority
    BY Zenon DEF queueVars
  <1>2. SummariesAgree'
    BY <1>1, Zenon DEF SummariesAgree
  <1>3. \A p \in Prio : \A i \in DOMAIN ready[p] : ready[p][i] \in Coro
    <2>1. ready \in [Prio -> Seq(Coro)]
      BY Zenon DEF TypeOK
    <2> QED
      BY <2>1
  <1>4. ReadyExactlyOnce'
    BY <1>1, <1>3 DEF ReadyExactlyOnce
  <1> QED
    BY <1>2, <1>4, Zenon

\* The waiting coroutines stay reachable through a step that changes neither
\* the timers nor the fd_table nor who waits.
LEMMA WaitFrame ==
    ASSUME WaitersAreReachable, UNCHANGED waitVars,
           \A c \in Coro : state'[c] = "WAITING" <=> state[c] = "WAITING"
    PROVE  WaitersAreReachable'
  BY ZenonT(30) DEF WaitersAreReachable, waitVars

\* Steps of the scheduler that only move control, and the clock.
LEMMA ControlSteps ==
    ASSUME SchedInv,
           \/ coco_sched_run \/ coco_sched_run_once \/ dequeue_begin \/ apply_aging_next
           \/ sched_idle \/ sched_run_return \/ poll_return \/ Clock \/ UNCHANGED vars
    PROVE  SchedInv'
  <1> USE DEF SchedInv
  <1>1. UNCHANGED <<state, priority, cancelled, joining, queueVars, coro_count, memVars,
                    waitVars, self, current>>
    BY Zenon DEF coco_sched_run, coco_sched_run_once, dequeue_begin, apply_aging_next, sched_idle,
           sched_run_return, poll_return, Clock, vars
  <1>2. SummariesAgree' /\ ReadyExactlyOnce'
    BY <1>1, QueueFrame, Zenon
  <1>3. WaitersAreReachable'
    BY <1>1, WaitFrame, Zenon
  <1>4. /\ dequeue_count' \in 0..(AgingInterval - 1) /\ lag' \in 0..(MaxSleep + 1)
        /\ age' \in [Coro -> Nat] /\ scan' \in Prio /\ once' \in BOOLEAN
        /\ pc' \in Places
    <2>1. /\ dequeue_count \in 0..(AgingInterval - 1) /\ lag \in 0..(MaxSleep + 1)
          /\ age \in [Coro -> Nat] /\ scan \in Prio /\ once \in BOOLEAN
          /\ pc \in Places
      BY ZenonT(40) DEF TypeOK
    <2>2. dequeue_count' \in 0..(AgingInterval - 1)
      BY <2>1, SchedAssumption, SMTT(40)
         DEF coco_sched_run, coco_sched_run_once, dequeue_begin, apply_aging_next, sched_idle,
             sched_run_return, poll_return, Clock, vars
    <2>3. lag' \in 0..(MaxSleep + 1)
      BY <2>1, SchedAssumption, SMTT(40)
         DEF coco_sched_run, coco_sched_run_once, dequeue_begin, apply_aging_next, sched_idle,
             sched_run_return, poll_return, Clock, vars
    <2>4. age' \in [Coro -> Nat]
      BY <2>1, SMTT(40)
         DEF coco_sched_run, coco_sched_run_once, dequeue_begin, apply_aging_next, sched_idle,
             sched_run_return, poll_return, Clock, vars
    <2>5. scan' \in Prio
      BY <2>1
         DEF coco_sched_run, coco_sched_run_once, dequeue_begin, apply_aging_next, sched_idle,
             sched_run_return, poll_return, Clock, vars, Prio
    <2>6. once' \in BOOLEAN
      BY <2>1, ZenonT(30)
         DEF coco_sched_run, coco_sched_run_once, dequeue_begin, apply_aging_next, sched_idle,
             sched_run_return, poll_return, Clock, vars
    <2>7. pc' \in Places
      BY <2>1, Zenon
         DEF Places, coco_sched_run, coco_sched_run_once, dequeue_begin, apply_aging_next, sched_idle,
             sched_run_return, poll_return, Clock, vars
    <2> QED
      BY <2>2, <2>3, <2>4, <2>5, <2>6, <2>7, Zenon
  <1>5. TypeOK'
    BY <1>1, <1>4, ZenonT(30) DEF TypeOK, queueVars, memVars, waitVars
  <1>6. /\ pc' \in {"coro", "ret"} <=> pc \in {"coro", "ret"}
        /\ pc' = "coro" <=> pc = "coro"
        /\ pc' # "crash"
        /\ pc' \in {"age", "pick"} => ready_count > 0
        /\ pc' = "age" => scan' > 0
    <2>1. /\ pc \in {"age", "pick"} => ready_count > 0
          /\ pc = "age" => scan > 0
          /\ pc # "crash"
          /\ scan \in 0..3
      BY Zenon DEF ControlInv, TypeOK, Prio
    <2> QED
      BY <2>1
         DEF coco_sched_run, coco_sched_run_once, dequeue_begin, apply_aging_next, sched_idle,
             sched_run_return, poll_return, Clock, vars
  <1>7. ControlInv'
    BY <1>1, <1>6, Zenon DEF ControlInv, Exists, queueVars, memVars
  <1> QED
    BY <1>2, <1>3, <1>5, <1>7, Zenon

\* The running coroutine gives up the processor: the steps of coco_yield(),
\* coco_join(), coco_exit(), coco_sleep(), coco_read() and the overflow handler.
LEMMA YieldSteps ==
    ASSUME SchedInv, coco_yield \/ join_begin \/ join_again
    PROVE  SchedInv'
  <1> USE DEF SchedInv
  <1>1. /\ enqueue_ready(current) /\ pc = "coro" /\ pc' = "ret" /\ joining' \in [Coro -> Coro \cup {None}]
        /\ UNCHANGED <<priority, cancelled, coro_count, dequeue_count, memVars, waitVars, lag,
                       self, current, scan, once>>
    <2>1. joining \in [Coro -> Coro \cup {None}]
      BY Zenon DEF TypeOK
    <2> QED
      BY <2>1, Zenon DEF coco_yield, join_begin, join_again, YieldStep, InCoro
  <1>2. current \in Coro /\ state[current] = "RUNNING"
    BY <1>1, Zenon DEF ControlInv
  <1>3. /\ SummariesAgree' /\ ReadyExactlyOnce'
        /\ ready' \in [Prio -> Seq(Coro)] /\ ready_counts' \in [Prio -> Nat]
        /\ ready_count' \in Nat /\ ready_bitmap' \in SUBSET Prio
        /\ state' \in [Coro -> States] /\ age' \in [Coro -> Nat]
    BY <1>1, <1>2, EnqueueFacts, Zenon
  <1>4. TypeOK'
    BY <1>1, <1>3, ZenonT(30) DEF Places, TypeOK, memVars, waitVars
  <1>5. state' = [state EXCEPT ![current] = "READY"] /\ state \in [Coro -> States]
    BY <1>1, Zenon DEF enqueue_ready, TypeOK
  <1>6. WaitersAreReachable'
    BY <1>1, <1>2, <1>5, WaitFrame, Zenon
  <1>7. ControlInv'
    BY <1>1, <1>2, <1>5, Zenon DEF ControlInv, Exists, memVars
  <1> QED
    BY <1>3, <1>4, <1>6, <1>7, Zenon

\* A coroutine that exits or overflows leaves the processor and is in no list.
LEMMA LeaveSteps ==
    ASSUME SchedInv, coco_exit \/ stack_overflow
    PROVE  SchedInv'
  <1> USE DEF SchedInv
  <1>1. /\ pc = "coro" /\ pc' = "ret" /\ self' \in Coro \cup {None}
        /\ UNCHANGED <<priority, cancelled, age, joining, queueVars, coro_count,
                       dequeue_count, memVars, waitVars, lag, current, scan, once>>
    BY Zenon DEF coco_exit, stack_overflow, InCoro, TypeOK
  <1>2. current \in Coro /\ state[current] = "RUNNING" /\ state \in [Coro -> States]
    BY <1>1, Zenon DEF ControlInv, TypeOK
  <1>3. PICK s \in {"DEAD", "OVERFLOW", "OVERFLOW_RESUME"} :
            state' = [state EXCEPT ![current] = s]
    BY Zenon DEF coco_exit, stack_overflow
  <1>4. state' \in [Coro -> States]
    BY <1>2, <1>3, Zenon DEF States
  <1>5. TypeOK'
    BY <1>1, <1>4, ZenonT(30) DEF Places, TypeOK, queueVars, memVars, waitVars
  <1>6. SummariesAgree' /\ ReadyExactlyOnce'
    <2>1. \A c \in Coro : state'[c] = "READY" <=> state[c] = "READY"
      BY <1>2, <1>3, Zenon
    <2> QED
      BY <1>1, <2>1, QueueFrame, Zenon
  <1>7. WaitersAreReachable'
    BY <1>1, <1>2, <1>3, WaitFrame, Zenon
  <1>8. ControlInv'
    BY <1>1, <1>2, <1>3, Zenon DEF ControlInv, Exists, memVars, queueVars
  <1> QED
    BY <1>5, <1>6, <1>7, <1>8, Zenon

\* A coroutine that sleeps or waits for a descriptor becomes WAITING and is
\* recorded in exactly one place.
LEMMA WaitSteps ==
    ASSUME SchedInv, coco_sleep \/ wait_fd
    PROVE  SchedInv'
  <1> USE DEF SchedInv
  <1>1. /\ pc = "coro" /\ pc' = "ret"
        /\ state' = [state EXCEPT ![current] = "WAITING"]
        /\ UNCHANGED <<priority, cancelled, age, joining, queueVars, coro_count,
                       dequeue_count, memVars, lag, self, current, scan, once>>
    BY Zenon DEF coco_sleep, wait_fd, InCoro
  <1>2. current \in Coro /\ state[current] = "RUNNING" /\ state \in [Coro -> States]
        /\ timers \in [Coro -> Seq(Nat)] /\ polled \in SUBSET Coro
    BY <1>1, Zenon DEF ControlInv, TypeOK
  <1>3. timers[current] = <<>> /\ current \notin polled
    BY <1>2, Zenon DEF WaitersAreReachable
  <1>4. /\ timers' \in [Coro -> Seq(Nat)] /\ polled' \in SUBSET Coro
        /\ \A c \in Coro \ {current} : timers'[c] = timers[c] /\ (c \in polled' <=> c \in polled)
        /\ Len(timers'[current]) + (IF current \in polled' THEN 1 ELSE 0) = 1
    <2>1. CASE wait_fd
      BY <1>2, <1>3, <2>1 DEF wait_fd
    <2>2. CASE coco_sleep
      <3>1. PICK ms \in 0..MaxSleep : timers' = [timers EXCEPT ![current] = Append(timers[current], ms)]
        BY <2>2, ZenonT(30) DEF coco_sleep
      <3>2. ms \in Nat /\ polled' = polled
        BY <2>2, SchedAssumption DEF coco_sleep
      <3>3. Append(timers[current], ms) \in Seq(Nat) /\ Len(Append(timers[current], ms)) = 1
        BY <1>2, <1>3, <3>2
      <3> QED
        BY <1>2, <1>3, <3>1, <3>2, <3>3
    <2> QED
      BY <2>1, <2>2, ZenonT(30)
  <1>5. TypeOK'
    <2>1. state' \in [Coro -> States]
      BY <1>1, <1>2, Zenon DEF States
    <2> QED
      BY <1>1, <1>4, <2>1, ZenonT(30) DEF Places, TypeOK, queueVars, memVars
  <1>6. SummariesAgree' /\ ReadyExactlyOnce'
    <2>1. \A c \in Coro : state'[c] = "READY" <=> state[c] = "READY"
      BY <1>1, <1>2, Zenon
    <2> QED
      BY <1>1, <2>1, QueueFrame, Zenon
  <1>7. WaitersAreReachable'
    BY <1>1, <1>2, <1>4, Zenon DEF WaitersAreReachable
  <1>8. ControlInv'
    BY <1>1, <1>2, Zenon DEF ControlInv, Exists, memVars, queueVars
  <1> QED
    BY <1>5, <1>6, <1>7, <1>8, Zenon

\* dequeue_ready() finds a coroutine, takes it off its list and makes it RUNNING.
LEMMA SwitchStep ==
    ASSUME SchedInv, dequeue_and_switch
    PROVE  SchedInv'
  <1> USE DEF SchedInv
  <1>1. PICK p \in Prio :
              LET c == Head(ready[p])
              IN  /\ c \in Coro
                  /\ state[c] = "READY"
                  /\ pc' = "coro"
                  /\ self' = c
                  /\ current' = c
                  /\ state' = [state EXCEPT ![c] = "RUNNING"]
                  /\ ready' \in [Prio -> Seq(Coro)]
                  /\ ready_counts' \in [Prio -> Nat]
                  /\ ready_count' \in Nat
                  /\ ready_bitmap' \in SUBSET Prio
                  /\ SummariesAgree'
                  /\ ReadyExactlyOnce'
    BY DequeueFacts, ZenonT(30)
  <1> DEFINE c == Head(ready[p])
  <1>2. /\ pc = "pick"
        /\ UNCHANGED <<priority, cancelled, age, joining, coro_count, dequeue_count,
                       memVars, waitVars, lag, scan, once>>
    BY Zenon DEF dequeue_and_switch
  <1> HIDE DEF c
  <1>3. /\ c \in Coro /\ state[c] = "READY" /\ pc' = "coro" /\ self' = c /\ current' = c
        /\ state' = [state EXCEPT ![c] = "RUNNING"] /\ state \in [Coro -> States]
    BY <1>1, Zenon DEF c, TypeOK
  <1>4. TypeOK'
    <2>1. state' \in [Coro -> States]
      BY <1>3, Zenon DEF States
    <2> QED
      BY <1>1, <1>2, <1>3, <2>1, ZenonT(30) DEF Places, TypeOK, memVars, waitVars
  <1>5. WaitersAreReachable'
    BY <1>2, <1>3, WaitFrame, Zenon
  <1>6. ControlInv'
    BY <1>2, <1>3, Zenon DEF ControlInv, Exists, memVars
  <1> QED
    BY <1>1, <1>4, <1>5, <1>6, Zenon

\* handle_coro_return() finds a state it knows and keeps the lists.
LEMMA ReturnStep ==
    ASSUME SchedInv, handle_coro_return
    PROVE  SchedInv'
  <1> USE DEF SchedInv
  <1>1. /\ pc = "ret" /\ pc' \in {"main", "loop"}
        /\ coro_count' \in Int
        /\ UNCHANGED <<priority, cancelled, joining, dequeue_count, memVars, waitVars,
                       lag, self, current, scan, once>>
    BY DEF handle_coro_return, TypeOK
  <1>2. current \in Coro /\ state \in [Coro -> States]
    BY <1>1, Zenon DEF ControlInv, TypeOK
  <1>3. CASE state[current] = "OVERFLOW_RESUME"
    <2>1. enqueue_ready(current)
      BY <1>3, Zenon DEF handle_coro_return
    <2>2. /\ SummariesAgree' /\ ReadyExactlyOnce'
          /\ ready' \in [Prio -> Seq(Coro)] /\ ready_counts' \in [Prio -> Nat]
          /\ ready_count' \in Nat /\ ready_bitmap' \in SUBSET Prio
          /\ state' \in [Coro -> States] /\ age' \in [Coro -> Nat]
      BY <1>1, <1>2, <1>3, <2>1, EnqueueFacts, Zenon
    <2>3. state' = [state EXCEPT ![current] = "READY"]
      BY <2>1, Zenon DEF enqueue_ready
    <2>4. TypeOK'
      BY <1>1, <2>2, ZenonT(30) DEF Places, TypeOK, memVars, waitVars
    <2>5. WaitersAreReachable'
      BY <1>1, <1>2, <1>3, <2>3, WaitFrame, Zenon
    <2>6. ControlInv'
      BY <1>1, <1>2, <1>3, <2>3, Zenon DEF ControlInv, Exists, memVars
    <2> QED
      BY <2>2, <2>4, <2>5, <2>6, Zenon
  <1>4. CASE state[current] # "OVERFLOW_RESUME"
    <2>1. UNCHANGED <<state, age, queueVars>>
      BY <1>4, Zenon DEF handle_coro_return
    <2>2. TypeOK'
      BY <1>1, <2>1, Zenon DEF Places, TypeOK, memVars, waitVars, queueVars
    <2>3. SummariesAgree' /\ ReadyExactlyOnce'
      BY <1>1, <2>1, QueueFrame, Zenon
    <2>4. WaitersAreReachable'
      BY <1>1, <2>1, WaitFrame, Zenon
    <2>5. ControlInv'
      BY <1>1, <1>2, <1>4, <2>1, Zenon DEF ControlInv, Exists, memVars
    <2> QED
      BY <2>2, <2>3, <2>4, <2>5, Zenon
  <1> QED
    BY <1>3, <1>4, Zenon

\* A WAITING coroutine is woken: by its timer, by its descriptor or by
\* coco_cancel().
LEMMA WakeFacts ==
    ASSUME SchedInv, NEW c \in Coro, state[c] \in {"NONE", "WAITING"}, enqueue_ready(c),
           timers' \in [Coro -> Seq(Nat)], polled' \in SUBSET Coro,
           \A d \in Coro \ {c} : timers'[d] = timers[d] /\ (d \in polled' <=> d \in polled),
           timers'[c] = <<>>, c \notin polled',
           cancelled' \in [Coro -> BOOLEAN], coro_count' \in Int,
           table' \in SUBSET Coro, table \subseteq table', c \in table', pc' = pc,
           UNCHANGED <<priority, joining, dequeue_count, frees, lag, self, current, scan, once>>
    PROVE  SchedInv'
  <1> USE DEF SchedInv
  <1>1. /\ SummariesAgree' /\ ReadyExactlyOnce'
        /\ ready' \in [Prio -> Seq(Coro)] /\ ready_counts' \in [Prio -> Nat]
        /\ ready_count' \in Nat /\ ready_bitmap' \in SUBSET Prio
        /\ state' \in [Coro -> States] /\ age' \in [Coro -> Nat] /\ ready_count' > 0
    BY EnqueueFacts, Zenon
  <1>2. state' = [state EXCEPT ![c] = "READY"] /\ state \in [Coro -> States]
    BY Zenon DEF enqueue_ready, TypeOK
  <1>3. TypeOK'
    BY <1>1, ZenonT(30) DEF TypeOK
  <1>4. WaitersAreReachable'
    BY <1>2, ZenonT(30) DEF WaitersAreReachable
  <1>5. ControlInv'
    BY <1>1, <1>2 DEF ControlInv, Exists
  <1> QED
    BY <1>1, <1>3, <1>4, <1>5, Zenon

\* A sleep timer that fires moves its coroutine from the wheel to a ready list.
LEMMA TimerFireStep ==
    ASSUME SchedInv, timer_fire
    PROVE  SchedInv'
  <1> USE DEF SchedInv
  <1>1. PICK c \in Coro : \E i \in DOMAIN timers[c] :
            timers' = [timers EXCEPT ![c] = Unlink(timers[c], i)] /\ enqueue_ready(c)
    BY ZenonT(30) DEF timer_fire
  <1>2. PICK i \in DOMAIN timers[c] :
            timers' = [timers EXCEPT ![c] = Unlink(timers[c], i)]
    BY <1>1, ZenonT(30)
  <1>3. timers \in [Coro -> Seq(Nat)] /\ polled \in SUBSET Coro /\ timers[c] \in Seq(Nat)
    BY ZenonT(30) DEF TypeOK
  <1>4. i \in 1..Len(timers[c]) /\ Len(timers[c]) \in Nat
    BY <1>3
  <1>5. timers[c] # <<>>
    BY <1>4
  <1>6. state[c] = "WAITING" /\ Len(timers[c]) = 1 /\ c \notin polled
    <2>1. state[c] = "WAITING"
      BY <1>5, ZenonT(30) DEF WaitersAreReachable
    <2>2. Len(timers[c]) + (IF c \in polled THEN 1 ELSE 0) = 1
      BY <2>1, ZenonT(30) DEF WaitersAreReachable
    <2>3. CASE c \in polled
      <3>1. Len(timers[c]) + 1 = 1
        BY <2>2, <2>3, Zenon
      <3> QED
        BY <1>4, <3>1
    <2>4. CASE c \notin polled
      <3>1. Len(timers[c]) + 0 = 1
        BY <2>2, <2>4, Zenon
      <3> QED
        BY <1>4, <2>1, <2>4, <3>1
    <2> QED
      BY <2>3, <2>4, Zenon
  <1>7. Unlink(timers[c], i) \in Seq(Nat) /\ Len(Unlink(timers[c], i)) = 0
    <2>1. Unlink(timers[c], i) \in Seq(Nat) /\ Len(Unlink(timers[c], i)) = Len(timers[c]) - 1
      BY <1>3, <1>4, UnlinkFacts, Zenon
    <2> QED
      BY <1>6, <2>1
  <1>8. Unlink(timers[c], i) = <<>>
    BY <1>7
  <1>9. /\ timers' \in [Coro -> Seq(Nat)] /\ timers'[c] = <<>>
        /\ \A d \in Coro \ {c} : timers'[d] = timers[d]
    BY <1>2, <1>3, <1>7, <1>8, Zenon
  <1>10. /\ pc' = pc /\ polled' = polled /\ table' = table
         /\ UNCHANGED <<priority, cancelled, joining, coro_count, dequeue_count, frees, lag,
                        self, current, scan, once>>
    BY Zenon DEF timer_fire, memVars
  <1>11. c \in table /\ table \in SUBSET Coro /\ cancelled \in [Coro -> BOOLEAN]
         /\ coro_count \in Int
    BY <1>6, ZenonT(30) DEF ControlInv, Exists, TypeOK
  <1> QED
    BY <1>1, <1>3, <1>6, <1>9, <1>10, <1>11, WakeFacts, Zenon

\* A descriptor event moves its coroutine from the fd_table to a ready list.
LEMMA PollEventStep ==
    ASSUME SchedInv, poll_event
    PROVE  SchedInv'
  <1> USE DEF SchedInv
  <1>1. PICK c \in polled : state[c] = "WAITING" /\ enqueue_ready(c) /\ polled' = polled \ {c}
    BY Zenon DEF poll_event
  <1>2. timers \in [Coro -> Seq(Nat)] /\ polled \in SUBSET Coro /\ c \in Coro
    BY ZenonT(30) DEF TypeOK
  <1>3. timers[c] = <<>>
    <2>1. Len(timers[c]) + 1 = 1 /\ timers[c] \in Seq(Nat)
      BY <1>1, <1>2, Zenon DEF WaitersAreReachable
    <2> QED
      BY <2>1
  <1>4. /\ pc' = pc /\ timers' = timers /\ table' = table
        /\ UNCHANGED <<priority, cancelled, joining, coro_count, dequeue_count, frees, lag,
                       self, current, scan, once>>
    BY Zenon DEF poll_event, memVars
  <1>5. c \in table /\ table \in SUBSET Coro /\ cancelled \in [Coro -> BOOLEAN]
        /\ coro_count \in Int
    BY <1>1, <1>2, ZenonT(30) DEF ControlInv, Exists, TypeOK
  <1> QED
    BY <1>1, <1>2, <1>3, <1>4, <1>5, WakeFacts, Zenon

\* A created coroutine joins the list of its priority.
LEMMA CreateStep ==
    ASSUME SchedInv, coco_create
    PROVE  SchedInv'
  <1> USE DEF SchedInv
  <1>1. PICK c \in Coro : state[c] = "NONE" /\ enqueue_ready(c) /\ table' = table \cup {c}
    BY Zenon DEF coco_create
  <1>2. /\ timers \in [Coro -> Seq(Nat)] /\ polled \in SUBSET Coro
        /\ table \in SUBSET Coro /\ cancelled \in [Coro -> BOOLEAN] /\ coro_count \in Int
    BY ZenonT(30) DEF TypeOK
  <1>3. timers[c] = <<>> /\ c \notin polled
    BY <1>1, ZenonT(30) DEF WaitersAreReachable
  <1>4. /\ pc' = pc /\ timers' = timers /\ polled' = polled /\ coro_count' \in Int
        /\ UNCHANGED <<priority, cancelled, joining, dequeue_count, frees, lag,
                       self, current, scan, once>>
    BY <1>2 DEF coco_create, waitVars
  <1> QED
    BY <1>1, <1>2, <1>3, <1>4, WakeFacts, Zenon

\* coco_cancel() of a coroutine that does not sleep.
LEMMA CancelStep ==
    ASSUME SchedInv, coco_cancel, CancelSleeping = FALSE
    PROVE  SchedInv'
  <1> USE DEF SchedInv
  <1>1. PICK c \in Coro :
          /\ Exists(c)
          /\ timers[c] = <<>>
          /\ cancelled' = [cancelled EXCEPT ![c] = TRUE]
          /\ IF state[c] = "WAITING"
             THEN polled' = polled \ {c} /\ enqueue_ready(c)
             ELSE UNCHANGED <<state, age, queueVars, polled>>
    BY ZenonT(30) DEF coco_cancel
  <1>2. /\ timers \in [Coro -> Seq(Nat)] /\ polled \in SUBSET Coro
        /\ table \in SUBSET Coro /\ coro_count \in Int /\ cancelled' \in [Coro -> BOOLEAN]
        /\ c \in table
    BY <1>1, ZenonT(30) DEF TypeOK, ControlInv
  <1>3. /\ pc' = pc /\ timers' = timers /\ table' = table
        /\ UNCHANGED <<priority, joining, coro_count, dequeue_count, frees, lag,
                       self, current, scan, once>>
    BY Zenon DEF coco_cancel, memVars
  <1>4. CASE state[c] = "WAITING"
    BY <1>1, <1>2, <1>3, <1>4, WakeFacts, Zenon
  <1>5. CASE state[c] # "WAITING"
    <2>1. UNCHANGED <<state, age, queueVars, polled>>
      BY <1>1, <1>5, Zenon
    <2>2. TypeOK'
      BY <1>2, <1>3, <2>1, ZenonT(30) DEF TypeOK, queueVars
    <2>3. SummariesAgree' /\ ReadyExactlyOnce'
      BY <1>3, <2>1, QueueFrame, Zenon
    <2>4. WaitersAreReachable'
      BY <1>3, <2>1, ZenonT(30) DEF WaitersAreReachable
    <2>5. ControlInv'
      BY <1>3, <2>1, Zenon DEF ControlInv, Exists, queueVars
    <2> QED
      BY <2>2, <2>3, <2>4, <2>5, Zenon
  <1> QED
    BY <1>4, <1>5, Zenon

\* Moves between levels, by aging and by coco_set_priority().
LEMMA PromoteStep ==
    ASSUME SchedInv, apply_aging_promote
    PROVE  SchedInv'
  <1> USE DEF SchedInv
  <1>1. PICK i \in DOMAIN ready[scan] :
            MoveLevel(scan, i, scan - 1) /\ age' = [age EXCEPT ![ready[scan][i]] = 0]
    BY ZenonT(30) DEF apply_aging_promote
  <1>2. /\ pc = "age" /\ pc' = "age"
        /\ UNCHANGED <<state, cancelled, joining, coro_count, dequeue_count, memVars,
                       waitVars, lag, self, current, scan, once>>
    BY Zenon DEF apply_aging_promote
  <1>3. scan \in Prio /\ scan - 1 \in Prio /\ scan # scan - 1
    BY <1>2 DEF ControlInv, TypeOK, Prio
  <1>4. /\ SummariesAgree' /\ ReadyExactlyOnce'
        /\ ready' \in [Prio -> Seq(Coro)] /\ ready_counts' \in [Prio -> Nat]
        /\ ready_count' = ready_count /\ ready_bitmap' \in SUBSET Prio
        /\ priority' \in [Coro -> Prio]
    BY <1>1, <1>2, <1>3, MoveFacts, Zenon
  <1>5. age' \in [Coro -> Nat]
    BY <1>1, Zenon DEF TypeOK
  <1>6. TypeOK'
    BY <1>2, <1>4, <1>5, ZenonT(30) DEF TypeOK, memVars, waitVars
  <1>7. WaitersAreReachable'
    BY <1>2, WaitFrame, Zenon
  <1>8. ControlInv'
    BY <1>2, <1>4, Zenon DEF ControlInv, Exists, memVars
  <1> QED
    BY <1>4, <1>6, <1>7, <1>8, Zenon

\* coco_set_priority() moves a READY coroutine and relabels any other.
LEMMA SetPriorityStep ==
    ASSUME SchedInv, coco_set_priority
    PROVE  SchedInv'
  <1> USE DEF SchedInv
  <1>1. PICK c \in Coro, q \in Prio :
          /\ priority[c] # q
          /\ IF state[c] = "READY"
             THEN \E i \in DOMAIN ready[priority[c]] : MoveLevel(priority[c], i, q)
             ELSE priority' = [priority EXCEPT ![c] = q] /\ UNCHANGED queueVars
    BY Zenon DEF coco_set_priority
  <1>2. UNCHANGED <<state, cancelled, age, joining, coro_count, dequeue_count, memVars,
                    waitVars, lag, self, current, pc, scan, once>>
    BY Zenon DEF coco_set_priority
  <1>3. priority \in [Coro -> Prio] /\ ready \in [Prio -> Seq(Coro)]
    BY ZenonT(30) DEF TypeOK
  <1>4. /\ SummariesAgree' /\ ReadyExactlyOnce'
        /\ ready' \in [Prio -> Seq(Coro)] /\ ready_counts' \in [Prio -> Nat]
        /\ ready_count' = ready_count /\ ready_bitmap' \in SUBSET Prio
        /\ priority' \in [Coro -> Prio]
    <2>1. CASE state[c] = "READY"
      <3>1. PICK i \in DOMAIN ready[priority[c]] : MoveLevel(priority[c], i, q)
        BY <1>1, <2>1, Zenon
      <3> QED
        BY <1>1, <1>2, <1>3, <3>1, MoveFacts, Zenon
    <2>2. CASE state[c] # "READY"
      <3>1. /\ priority' = [priority EXCEPT ![c] = q]
            /\ ready' = ready /\ ready_counts' = ready_counts /\ ready_count' = ready_count
            /\ ready_bitmap' = ready_bitmap /\ state' = state
        BY <1>1, <1>2, <2>2, Zenon DEF queueVars
      <3>2. SummariesAgree'
        BY <3>1, Zenon DEF SummariesAgree
      <3>3. \A p \in Prio : \A i \in DOMAIN ready[p] : ready[p][i] \in Coro /\ ready[p][i] # c
        <4>1. \A p \in Prio : \A i \in DOMAIN ready[p] : ready[p][i] \in Coro
          BY <1>3
        <4> QED
          BY <2>2, <4>1 DEF ReadyExactlyOnce
      <3>4. \A d \in Coro : d # c => priority'[d] = priority[d]
        BY <1>3, <3>1, ZenonT(40)
      <3>5. ReadyExactlyOnce'
        <4>1. \A p \in Prio : \A i \in DOMAIN ready[p] :
                 state[ready[p][i]] = "READY" /\ priority'[ready[p][i]] = p
          BY <3>3, <3>4, SMTT(40) DEF ReadyExactlyOnce
        <4>2. \A d \in Coro : state[d] = "READY" =>
                 \E i \in DOMAIN ready[priority'[d]] : ready[priority'[d]][i] = d
          BY <2>2, <3>4 DEF ReadyExactlyOnce
        <4>3. \A p \in Prio : \A i, j \in DOMAIN ready[p] : ready[p][i] = ready[p][j] => i = j
          BY Zenon DEF ReadyExactlyOnce
        <4> QED
          BY <3>1, <4>1, <4>2, <4>3, SMTT(40) DEF ReadyExactlyOnce
      <3>6. priority' \in [Coro -> Prio]
        BY <1>3, <3>1, Zenon
      <3> QED
        BY <3>1, <3>2, <3>5, <3>6, ZenonT(30) DEF TypeOK
    <2> QED
      BY <2>1, <2>2, Zenon
  <1>5. TypeOK'
    BY <1>2, <1>4, ZenonT(30) DEF TypeOK, memVars, waitVars
  <1>6. WaitersAreReachable'
    BY <1>2, WaitFrame, Zenon
  <1>7. ControlInv'
    BY <1>2, <1>4, Zenon DEF ControlInv, Exists, memVars
  <1> QED
    BY <1>4, <1>5, <1>6, <1>7, Zenon

\* The end of a tick takes the time passed off every delay; no timer comes or
\* goes.
LEMMA TickEndStep ==
    ASSUME SchedInv, timer_tick_end
    PROVE  SchedInv'
  <1> USE DEF SchedInv
  <1>1. /\ pc = "tick" /\ pc' \in {"loop", "poll"} /\ lag' = 0
        /\ timers' = [c \in Coro |-> [i \in DOMAIN timers[c] |-> timers[c][i] - lag]]
        /\ \A c \in Coro : \A i \in DOMAIN timers[c] : timers[c][i] >= lag
        /\ UNCHANGED <<state, priority, cancelled, age, joining, queueVars, coro_count,
                       dequeue_count, memVars, polled, self, current, scan, once>>
    BY Zenon DEF timer_tick_end
  <1>2. timers \in [Coro -> Seq(Nat)] /\ lag \in Nat
    BY SchedAssumption DEF TypeOK
  <1>3. \A c \in Coro : timers'[c] \in Seq(Nat) /\ Len(timers'[c]) = Len(timers[c])
    <2> SUFFICES ASSUME NEW c \in Coro
                 PROVE  timers'[c] \in Seq(Nat) /\ Len(timers'[c]) = Len(timers[c])
      BY Zenon
    <2> DEFINE n == Len(timers[c])
               f == [i \in 1..n |-> timers[c][i] - lag]
    <2>1. timers[c] \in Seq(Nat) /\ n \in Nat /\ DOMAIN timers[c] = 1..n
      BY <1>2
    <2>2. timers'[c] = f
      BY <1>1, <2>1, ZenonT(40)
    <2>3. \A i \in 1..n : timers[c][i] \in Nat /\ timers[c][i] >= lag
      BY <1>1, <2>1
    <2> HIDE DEF n
    <2>4. \A i \in 1..n : timers[c][i] - lag \in Nat
      BY <1>2, <2>3
    <2>5. f \in [1..n -> Nat]
      BY <2>4, Zenon
    <2>6. f \in Seq(Nat) /\ Len(f) = n
      BY <2>1, <2>5
    <2> QED
      BY <2>2, <2>6, Zenon DEF n
  <1>4. timers' \in [Coro -> Seq(Nat)]
    BY <1>1, <1>3, ZenonT(30)
  <1>5. \A c \in Coro : timers[c] = <<>> => timers'[c] = <<>>
    BY <1>3
  <1>6. TypeOK'
    <2>1. lag' \in 0..(MaxSleep + 1)
      BY <1>1, SchedAssumption
    <2>2. pc' \in Places
      BY <1>1, Zenon DEF Places
    <2> QED
      BY <1>1, <1>4, <2>1, <2>2, Zenon DEF TypeOK, queueVars, memVars
  <1>7. SummariesAgree' /\ ReadyExactlyOnce'
    BY <1>1, QueueFrame, Zenon
  <1>8. WaitersAreReachable'
    BY <1>1, <1>3, <1>5, ZenonT(30) DEF WaitersAreReachable
  <1>9. ControlInv'
    BY <1>1, Zenon DEF ControlInv, Exists, memVars, queueVars
  <1> QED
    BY <1>6, <1>7, <1>8, <1>9, Zenon

\* A join that returns leaves the lists and the waiting coroutines alone.
LEMMA JoinReturnStep ==
    ASSUME SchedInv, join_return
    PROVE  SchedInv'
  <1> USE DEF SchedInv
  <1>1. /\ joining' = [joining EXCEPT ![current] = None]
        /\ UNCHANGED <<state, priority, cancelled, age, queueVars, coro_count, dequeue_count,
                       memVars, waitVars, lag, self, current, pc, scan, once>>
    BY Zenon DEF join_return
  <1>2. joining' \in [Coro -> Coro \cup {None}]
    BY <1>1, ZenonT(30) DEF TypeOK
  <1>3. TypeOK'
    BY <1>1, <1>2, ZenonT(30) DEF TypeOK, queueVars, memVars, waitVars
  <1>4. SummariesAgree' /\ ReadyExactlyOnce'
    BY <1>1, QueueFrame, Zenon
  <1>5. WaitersAreReachable'
    BY <1>1, WaitFrame, Zenon
  <1>6. ControlInv'
    BY <1>1, Zenon DEF ControlInv, Exists, memVars, queueVars
  <1> QED
    BY <1>3, <1>4, <1>5, <1>6, Zenon

\* coco_destroy() frees a coroutine that is in no list.
LEMMA DestroyStep ==
    ASSUME SchedInv, coco_destroy
    PROVE  SchedInv'
  <1> USE DEF SchedInv
  <1>1. PICK c \in Coro : /\ state[c] = "DEAD"
                          /\ state' = [state EXCEPT ![c] = "FREED"]
                          /\ frees' = [frees EXCEPT ![c] = frees[c] + 1]
    BY Zenon DEF coco_destroy
  <1>2. /\ pc \in {"main", "coro"}
        /\ UNCHANGED <<priority, cancelled, age, joining, queueVars, coro_count,
                       dequeue_count, table, waitVars, lag, self, current, pc, scan, once>>
    BY Zenon DEF coco_destroy, Calls, InCoro
  <1>3. state \in [Coro -> States] /\ frees \in [Coro -> Nat]
    BY ZenonT(30) DEF TypeOK
  <1>4. state' \in [Coro -> States] /\ frees' \in [Coro -> Nat]
    BY <1>1, <1>3 DEF States
  <1>5. TypeOK'
    BY <1>2, <1>4, ZenonT(30) DEF TypeOK, queueVars, waitVars
  <1>6. SummariesAgree' /\ ReadyExactlyOnce'
    <2>1. \A d \in Coro : state'[d] = "READY" <=> state[d] = "READY"
      BY <1>1, <1>3, Zenon
    <2> QED
      BY <1>2, <2>1, QueueFrame, Zenon
  <1>7. WaitersAreReachable'
    BY <1>1, <1>2, <1>3, WaitFrame, Zenon
  <1>8. ControlInv'
    BY <1>1, <1>2, <1>3, Zenon DEF ControlInv, Exists, queueVars
  <1> QED
    BY <1>5, <1>6, <1>7, <1>8, Zenon

\* After coco_sched_destroy() there is nothing left to be inconsistent.
LEMMA SchedDestroyStep ==
    ASSUME SchedInv, coco_sched_destroy
    PROVE  SchedInv'
  <1> USE DEF SchedInv
  <1>1. /\ pc' = "end" /\ table' = {} /\ polled' = {} /\ coro_count' = 0
        /\ timers' = [c \in Coro |-> <<>>]
        /\ ready' = [p \in Prio |-> <<>>] /\ ready_counts' = [p \in Prio |-> 0]
        /\ ready_count' = 0 /\ ready_bitmap' = {}
        /\ UNCHANGED <<priority, cancelled, age, joining, dequeue_count, lag, self, current,
                       scan, once>>
    BY Zenon DEF coco_sched_destroy
  <1>2. /\ state' = [c \in Coro |-> IF c \in table THEN "FREED" ELSE state[c]]
        /\ frees' = [c \in Coro |-> IF c \in table THEN frees[c] + 1 ELSE frees[c]]
    BY Zenon DEF coco_sched_destroy
  <1>3. state \in [Coro -> States] /\ frees \in [Coro -> Nat]
    BY Zenon DEF TypeOK
  <1>4. state' \in [Coro -> States] /\ frees' \in [Coro -> Nat]
    BY <1>2, <1>3 DEF States
  <1>5. \A c \in Coro : state'[c] \in {"NONE", "FREED"}
    BY <1>2, Zenon DEF ControlInv, Exists
  <1>6. TypeOK'
    <2>1. /\ timers' \in [Coro -> Seq(Nat)] /\ ready' \in [Prio -> Seq(Coro)]
          /\ ready_counts' \in [Prio -> Nat]
      BY <1>1, SMTT(40)
    <2>2. /\ ready_count' \in Nat /\ ready_bitmap' \in SUBSET Prio /\ coro_count' \in Int
          /\ table' \in SUBSET Coro /\ polled' \in SUBSET Coro
          /\ pc' \in Places
      BY <1>1 DEF Places
    <2>3. UNCHANGED <<priority, cancelled, age, joining, dequeue_count, lag, self, current,
                      scan, once>>
      BY <1>1, Zenon
    <2> QED
      BY <1>4, <2>1, <2>2, <2>3, ZenonT(30) DEF TypeOK
  <1>7. SummariesAgree'
    BY <1>1, PrioCases, SMTT(40) DEF SummariesAgree
  <1>8. ReadyExactlyOnce'
    BY <1>1, <1>5 DEF ReadyExactlyOnce
  <1>9. WaitersAreReachable'
    BY <1>1, <1>5, Zenon DEF WaitersAreReachable
  <1>10. ControlInv'
    BY <1>1, <1>5, Zenon DEF ControlInv, Exists
  <1> QED
    BY <1>6, <1>7, <1>8, <1>9, <1>10, Zenon

-----------------------------------------------------------------------------
\* coco_sched_create() establishes the invariant.
LEMMA InitInv == Init => SchedInv
  <1> SUFFICES ASSUME Init PROVE SchedInv
    BY Zenon
  <1> USE DEF Init
  <1>1. TypeOK
    <2>1. /\ state \in [Coro -> States] /\ cancelled \in [Coro -> BOOLEAN]
          /\ age \in [Coro -> Nat] /\ joining \in [Coro -> Coro \cup {None}]
          /\ frees \in [Coro -> Nat] /\ timers \in [Coro -> Seq(Nat)]
      BY DEF States
    <2>2. /\ priority \in [Coro -> Prio] /\ ready \in [Prio -> Seq(Coro)]
          /\ ready_counts \in [Prio -> Nat] /\ scan \in Prio
      BY DEF Prio, NORMAL
    <2>3. dequeue_count \in 0..(AgingInterval - 1) /\ lag \in 0..(MaxSleep + 1)
      BY SchedAssumption
    <2>4. /\ ready_count \in Nat /\ ready_bitmap \in SUBSET Prio /\ coro_count \in Int
          /\ table \in SUBSET Coro /\ polled \in SUBSET Coro
          /\ self \in Coro \cup {None} /\ current \in Coro \cup {None}
      OBVIOUS
    <2>5. pc \in Places /\ once \in BOOLEAN
      BY Zenon DEF Places
    <2> QED
      BY <2>1, <2>2, <2>3, <2>4, <2>5, Zenon DEF TypeOK
  <1>2. SummariesAgree
    BY PrioCases, SMTT(40) DEF SummariesAgree
  <1>3. ReadyExactlyOnce
    BY DEF ReadyExactlyOnce
  <1>4. WaitersAreReachable
    BY Zenon DEF WaitersAreReachable
  <1>5. ControlInv
    BY Zenon DEF ControlInv, Exists
  <1> QED
    BY <1>1, <1>2, <1>3, <1>4, <1>5, Zenon DEF SchedInv

\* Every step of the scheduler, of its owner and of the coroutines keeps it.
LEMMA NextInv ==
    ASSUME CancelSleeping = FALSE, SchedInv, [Next]_vars
    PROVE  SchedInv'
  <1>1. CASE SchedStep
    BY <1>1, ControlSteps, PromoteStep, SwitchStep, ReturnStep, TimerFireStep, TickEndStep, Zenon
       DEF SchedStep
  <1>2. CASE Switch
    BY <1>2, YieldSteps, LeaveSteps, WaitSteps, Zenon DEF Switch
  <1>3. CASE coco_sched_run \/ coco_sched_run_once \/ Clock \/ Terminated \/ UNCHANGED vars
    BY <1>3, ControlSteps, Zenon DEF Terminated
  <1>4. CASE poll_event \/ join_return \/ coco_create \/ coco_set_priority \/ coco_cancel
    BY <1>4, PollEventStep, JoinReturnStep, CreateStep, SetPriorityStep, CancelStep, Zenon
  <1>5. CASE coco_destroy \/ coco_sched_destroy
    BY <1>5, DestroyStep, SchedDestroyStep, Zenon
  <1> QED
    BY <1>1, <1>2, <1>3, <1>4, <1>5, Zenon DEF Next

\* As long as no coroutine is cancelled while it sleeps, the scheduler keeps
\* the inductive invariant, for any number of coroutines and any aging
\* parameters.
THEOREM SchedInvariant == CancelSleeping = FALSE => (Spec => []SchedInv)
  <1> SUFFICES ASSUME CancelSleeping = FALSE PROVE Spec => []SchedInv
    BY Zenon
  <1>1. Init => SchedInv
    BY InitInv, Zenon
  <1>2. SchedInv /\ [Next]_vars => SchedInv'
    BY NextInv, Zenon
  <1> QED
    BY <1>1, <1>2, PTL DEF Spec

\* The ready lists, their bitmap, counts and total and the states of the
\* coroutines agree at all times, for any number of coroutines: READY means
\* being in one place of the list of one's own priority (enqueue_ready,
\* dequeue_ready, coco_set_priority, apply_aging, coco_cancel).
THEOREM ReadyListsCorrect == CancelSleeping = FALSE => (Spec => []ReadyListsAgree)
  <1> SUFFICES ASSUME CancelSleeping = FALSE PROVE Spec => []ReadyListsAgree
    BY Zenon
  <1>1. SchedInv => ReadyListsAgree
    BY Zenon DEF SchedInv, ReadyListsAgree
  <1> QED
    BY <1>1, SchedInvariant, PTL

\* dequeue_ready() never hands NULL to switch_to_coro().
THEOREM NeverNull == CancelSleeping = FALSE => (Spec => []NoNullDispatch)
  <1> SUFFICES ASSUME CancelSleeping = FALSE PROVE Spec => []NoNullDispatch
    BY Zenon
  <1>1. SchedInv => NoNullDispatch
    BY Zenon DEF SchedInv, ControlInv, NoNullDispatch
  <1> QED
    BY <1>1, SchedInvariant, PTL

\* A coroutine that waits is in the timer wheel or in the fd_table, so the
\* scheduler can find it again, and nothing else is in either.
THEOREM WaitersCorrect == CancelSleeping = FALSE => (Spec => []WaitersAreReachable)
  <1> SUFFICES ASSUME CancelSleeping = FALSE PROVE Spec => []WaitersAreReachable
    BY Zenon
  <1>1. SchedInv => WaitersAreReachable
    BY Zenon DEF SchedInv
  <1> QED
    BY <1>1, SchedInvariant, PTL

\* handle_coro_return() is never reached in a state its comments exclude.
THEOREM ReturnCorrect == CancelSleeping = FALSE => (Spec => []ReturnState)
  <1> SUFFICES ASSUME CancelSleeping = FALSE PROVE Spec => []ReturnState
    BY Zenon
  <1>1. SchedInv => ReturnState
    BY Zenon DEF SchedInv, ControlInv, ReturnState
  <1> QED
    BY <1>1, SchedInvariant, PTL

-----------------------------------------------------------------------------
(* The refinement of PriorityFifo.                                         *)

\* Who runs, in the states that can be reached.
LEMMA RunningView == SchedInv => running = IF pc = "coro" THEN {current} ELSE {}
  BY Zenon DEF SchedInv, ControlInv, running

\* The same of the next state.
LEMMA RunningAfter == SchedInv' => running' = IF pc' = "coro" THEN {current'} ELSE {}
  BY Zenon DEF SchedInv, ControlInv, running

\* enqueue_ready() of a coroutine that is not READY is an arrival.
LEMMA Arrival ==
    ASSUME SchedInv, NEW c \in Coro, state[c] # "READY", enqueue_ready(c),
           running' = running \ {c}
    PROVE  PF!PFNext
  <1>1. ready \in [Prio -> Seq(Coro)] /\ priority[c] \in Prio
    BY Zenon DEF SchedInv, TypeOK
  <1>2. ~PF!Queued(c)
    BY DEF PF!Queued, SchedInv, ReadyExactlyOnce
  <1>3. PF!Arrive(c, priority[c])
    BY <1>1, <1>2, Zenon DEF PF!Arrive, enqueue_ready
  <1> QED
    BY <1>1, <1>3, Zenon DEF PF!PFNext

\* A coroutine that is woken or created was not running.
LEMMA Wakeup ==
    ASSUME SchedInv, SchedInv', NEW c \in Coro, state[c] \in {"NONE", "WAITING"}, enqueue_ready(c),
           UNCHANGED <<pc, current>>
    PROVE  PF!PFNext
  <1>1. running' = running /\ c \notin running
    BY RunningView, RunningAfter, Zenon DEF SchedInv, ControlInv
  <1> QED
    BY <1>1, Arrival, Zenon

\* What apply_aging() and coco_set_priority() do is a reassignment.
LEMMA Reassignment ==
    ASSUME SchedInv, NEW p \in Prio, NEW q \in Prio, p # q, NEW i \in DOMAIN ready[p],
           MoveLevel(p, i, q), running' = running
    PROVE  PF!PFNext
  <1>1. ready \in [Prio -> Seq(Coro)]
    BY Zenon DEF SchedInv, TypeOK
  <1>2. PF!Reassign(p, i, q)
    BY <1>1, Zenon DEF PF!Reassign, MoveLevel, Unlink
  <1> QED
    BY <1>2, Zenon DEF PF!PFNext

\* A step that touches neither the lists nor who runs is a stuttering step.
LEMMA Stuttering ==
    ASSUME UNCHANGED queueVars, running' = running
    PROVE  [PF!PFNext]_(PF!pfVars)
  BY Zenon DEF queueVars, PF!pfVars

\* Steps that only move control outside the coroutines, the clock, and calls
\* that change no list.
LEMMA StutteringSteps ==
    ASSUME SchedInv, SchedInv',
           \/ coco_sched_run \/ coco_sched_run_once \/ dequeue_begin \/ apply_aging_next
           \/ sched_idle \/ sched_run_return \/ poll_return \/ timer_tick_end \/ Clock
           \/ join_return \/ coco_destroy \/ UNCHANGED vars
    PROVE  [PF!PFNext]_(PF!pfVars)
  <1>1. UNCHANGED queueVars /\ UNCHANGED current /\ (pc' = "coro" <=> pc = "coro")
    BY Zenon DEF coco_sched_run, coco_sched_run_once, dequeue_begin, apply_aging_next, sched_idle,
           sched_run_return, poll_return, timer_tick_end, Clock, join_return, coco_destroy, vars
  <1>2. running' = running
    BY <1>1, RunningView, RunningAfter, Zenon
  <1> QED
    BY <1>1, <1>2, Stuttering, Zenon

\* The running coroutine yields, and is the last of its line.
LEMMA YieldArrives ==
    ASSUME SchedInv, SchedInv', coco_yield \/ join_begin \/ join_again
    PROVE  PF!PFNext
  <1>1. enqueue_ready(current) /\ pc = "coro" /\ pc' = "ret"
    BY Zenon DEF coco_yield, join_begin, join_again, YieldStep, InCoro
  <1>2. current \in Coro /\ state[current] = "RUNNING"
    BY <1>1, Zenon DEF SchedInv, ControlInv
  <1>3. running' = running \ {current}
    BY <1>1, RunningView, RunningAfter, Zenon
  <1> QED
    BY <1>1, <1>2, <1>3, Arrival, Zenon

\* The running coroutine ends, overflows its stack or waits.
LEMMA Leaving ==
    ASSUME SchedInv, SchedInv', coco_exit \/ stack_overflow \/ coco_sleep \/ wait_fd
    PROVE  PF!PFNext
  <1>1. UNCHANGED queueVars /\ pc = "coro" /\ pc' = "ret"
    BY Zenon DEF coco_exit, stack_overflow, coco_sleep, wait_fd, InCoro
  <1>2. running # {} /\ running' = {} /\ ready' = ready
    BY <1>1, RunningView, RunningAfter, Zenon DEF queueVars
  <1> QED
    BY <1>2, Zenon DEF PF!PFNext, PF!Leave

\* dequeue_ready() takes the first of the most urgent line.
LEMMA Dispatching ==
    ASSUME SchedInv, SchedInv', dequeue_and_switch
    PROVE  PF!PFNext
  <1>1. PICK p \in Prio :
            /\ p = Least(ready_bitmap)
            /\ ready[p] # <<>>
            /\ pc' = "coro"
            /\ current' = Head(ready[p])
            /\ ready' = [ready EXCEPT ![p] = Tail(ready[p])]
    BY DequeueFacts, ZenonT(30)
  <1>2. pc = "pick"
    BY Zenon DEF dequeue_and_switch
  <1>3. running = {} /\ running' = {Head(ready[p])}
    BY <1>1, <1>2, RunningView, RunningAfter
  <1>4. ready_bitmap = {q \in Prio : ready[q] # <<>>} /\ ready_bitmap \in SUBSET Prio
    BY Zenon DEF SchedInv, SummariesAgree, TypeOK
  <1>5. \A q \in Prio : q < p => ready[q] = <<>>
    <2>1. ready_bitmap # {}
      BY <1>1, <1>4, Zenon
    <2>2. \A q \in ready_bitmap : p =< q
      BY <1>1, <1>4, <2>1, LeastFacts, SMTT(40)
    <2> QED
      BY <1>4, <2>2 DEF Prio
  <1>6. PF!Dispatch(p)
    BY <1>1, <1>3, <1>5, Zenon DEF PF!Dispatch
  <1> QED
    BY <1>6, Zenon DEF PF!PFNext

\* handle_coro_return() puts back a coroutine whose stack has grown.
LEMMA Returning ==
    ASSUME SchedInv, SchedInv', handle_coro_return
    PROVE  [PF!PFNext]_(PF!pfVars)
  <1>1. pc = "ret" /\ pc' \in {"main", "loop"}
    BY Zenon DEF handle_coro_return
  <1>2. running = {} /\ running' = {}
    BY <1>1, RunningView, RunningAfter, Zenon
  <1>3. CASE state[current] = "OVERFLOW_RESUME"
    <2>1. enqueue_ready(current) /\ current \in Coro
      BY <1>1, <1>3, SMTT(40) DEF handle_coro_return, SchedInv, ControlInv
    <2> QED
      BY <1>2, <1>3, <2>1, Arrival, SMTT(40)
  <1>4. CASE state[current] # "OVERFLOW_RESUME"
    BY <1>2, <1>4, Stuttering DEF handle_coro_return
  <1> QED
    BY <1>3, <1>4, Zenon

\* Every step of the scheduler is one of the priority queue, or stutters.
LEMMA FifoStep ==
    ASSUME SchedInv, SchedInv', CancelSleeping = FALSE, [Next]_vars
    PROVE  [PF!PFNext]_(PF!pfVars)
  <1>1. CASE timer_fire
    <2>1. PICK c \in Coro : timers[c] # <<>> /\ enqueue_ready(c) /\ UNCHANGED <<pc, current>>
      <3>1. PICK c \in Coro : \E i \in DOMAIN timers[c] : enqueue_ready(c)
        BY <1>1, ZenonT(30) DEF timer_fire
      <3>2. timers[c] # <<>>
        BY <3>1
      <3> QED
        BY <1>1, <3>1, <3>2, Zenon DEF timer_fire
    <2>2. state[c] = "WAITING"
      BY <2>1, Zenon DEF SchedInv, WaitersAreReachable
    <2> QED
      BY <2>1, <2>2, Wakeup, Zenon
  <1>2. CASE poll_event
    <2>1. PICK c \in polled : state[c] = "WAITING" /\ enqueue_ready(c) /\ UNCHANGED <<pc, current>>
      BY <1>2, Zenon DEF poll_event
    <2>2. c \in Coro
      BY <2>1, Zenon DEF SchedInv, TypeOK
    <2> QED
      BY <2>1, <2>2, Wakeup, Zenon
  <1>3. CASE coco_create
    <2>1. PICK c \in Coro : state[c] = "NONE" /\ enqueue_ready(c) /\ UNCHANGED <<pc, current>>
      BY <1>3, Zenon DEF coco_create
    <2> QED
      BY <2>1, Wakeup, Zenon
  <1>4. CASE coco_cancel
    <2>1. PICK c \in Coro :
              /\ IF state[c] = "WAITING" THEN enqueue_ready(c) ELSE UNCHANGED queueVars
              /\ UNCHANGED <<pc, current>>
      BY <1>4, Zenon DEF coco_cancel
    <2>2. CASE state[c] = "WAITING"
      BY <2>1, <2>2, Wakeup, Zenon
    <2>3. CASE state[c] # "WAITING"
      <3>1. running' = running
        BY <2>1, RunningView, RunningAfter, Zenon
      <3> QED
        BY <2>1, <2>3, <3>1, Stuttering, Zenon
    <2> QED
      BY <2>2, <2>3, Zenon
  <1>5. CASE apply_aging_promote
    <2>1. PICK i \in DOMAIN ready[scan] : MoveLevel(scan, i, scan - 1)
      BY <1>5, ZenonT(30) DEF apply_aging_promote
    <2>2. pc = "age" /\ UNCHANGED <<pc, current>>
      BY <1>5, ZenonT(40) DEF apply_aging_promote
    <2>3. scan \in Prio /\ scan - 1 \in Prio /\ scan # scan - 1
      BY <2>2 DEF SchedInv, ControlInv, TypeOK, Prio
    <2>4. running' = running
      BY <2>2, RunningView, RunningAfter, Zenon
    <2> QED
      BY <2>1, <2>3, <2>4, Reassignment
  <1>6. CASE coco_set_priority
    <2>1. PICK c \in Coro, q \in Prio :
              /\ priority[c] # q
              /\ IF state[c] = "READY"
                 THEN \E i \in DOMAIN ready[priority[c]] : MoveLevel(priority[c], i, q)
                 ELSE UNCHANGED queueVars
      BY <1>6, ZenonT(30) DEF coco_set_priority
    <2>2. running' = running
      BY <1>6, RunningView, RunningAfter, Zenon DEF coco_set_priority
    <2>3. priority[c] \in Prio
      BY ZenonT(40) DEF SchedInv, TypeOK
    <2>4. CASE state[c] = "READY"
      BY <2>1, <2>2, <2>3, <2>4, Reassignment, SMTT(40)
    <2>5. CASE state[c] # "READY"
      BY <2>1, <2>2, <2>5, Stuttering
    <2> QED
      BY <2>4, <2>5, Zenon
  <1>7. CASE coco_sched_destroy
    <2>1. pc = "main" /\ pc' = "end" /\ ready' = [p \in Prio |-> <<>>]
      BY <1>7, Zenon DEF coco_sched_destroy
    <2>2. running = {} /\ running' = {}
      BY <2>1, RunningView, RunningAfter, Zenon
    <2> QED
      BY <2>1, <2>2, Zenon DEF PF!PFNext, PF!Discard
  <1>8. CASE Switch
    BY <1>8, YieldArrives, Leaving, Zenon DEF Switch
  <1>9. CASE dequeue_and_switch \/ handle_coro_return
    BY <1>9, Dispatching, Returning, Zenon
  <1>10. CASE SchedStep
    BY <1>1, <1>5, <1>9, <1>10, StutteringSteps DEF SchedStep
  <1> QED
    BY <1>2, <1>3, <1>4, <1>6, <1>7, <1>8, <1>10, StutteringSteps DEF Next, Terminated

\* The scheduler implements the priority queue the header describes (coco.h:
\* higher priorities first, first in first out within one), however coroutines
\* are created, aged, re-prioritised, woken and cancelled, unless one is
\* cancelled inside coco_sleep().
THEOREM FifoCorrect == CancelSleeping = FALSE => (Spec => ImplementsPriorityFifo)
  <1> SUFFICES ASSUME CancelSleeping = FALSE PROVE Spec => ImplementsPriorityFifo
    BY Zenon
  <1>1. Init => PF!PFInit
    BY Zenon DEF Init, PF!PFInit, running
  <1>2. SchedInv /\ SchedInv' /\ [Next]_vars => [PF!PFNext]_(PF!pfVars)
    BY FifoStep, Zenon
  <1> QED
    BY <1>1, <1>2, SchedInvariant, PTL DEF Spec, ImplementsPriorityFifo, PF!PFSpec

-----------------------------------------------------------------------------
(* The count of the coroutines.                                            *)

INSTANCE FiniteSetTheorems

\* Between the switch back of a coroutine that has ended, or overflowed its
\* stack, and handle_coro_return(), it is still counted.
Uncounted == IF pc = "ret" /\ state[current] \in {"DEAD", "OVERFLOW"} THEN 1 ELSE 0

\* What the count is at every step.
CountInv == coro_count = Cardinality(Live) + Uncounted

\* The living are finitely many.
LEMMA LiveFinite ==
    ASSUME IsFiniteSet(Coro)
    PROVE  /\ IsFiniteSet(Live) /\ Cardinality(Live) \in Nat
           /\ IsFiniteSet(Live') /\ Cardinality(Live') \in Nat
  <1>1. Live \subseteq Coro /\ Live' \subseteq Coro
    BY Zenon DEF Live
  <1>2. IsFiniteSet(Live) /\ IsFiniteSet(Live')
    BY <1>1, FS_Subset, SMTT(40)
  <1> QED
    BY <1>2, FS_CardinalityType, Zenon

\* A step that neither starts nor ends a coroutine, nor counts one.
LEMMA SameCount ==
    ASSUME CountInv, Live' = Live, Uncounted' = Uncounted, coro_count' = coro_count
    PROVE  CountInv'
  BY Zenon DEF CountInv

\* A coroutine that becomes READY, and was not new, was alive before.
LEMMA EnqueueLive ==
    ASSUME SchedInv, NEW c \in Coro, enqueue_ready(c),
           state[c] \in {"READY", "RUNNING", "WAITING", "OVERFLOW_RESUME"}
    PROVE  Live' = Live
  BY Zenon DEF SchedInv, TypeOK, enqueue_ready, Live

\* Steps after which the same coroutines are alive, none just having ended.
LEMMA QuietSteps ==
    ASSUME SchedInv, CountInv, Live' = Live, coro_count' = coro_count,
           pc # "ret",
           pc' = "ret" => state'[current'] \notin {"DEAD", "OVERFLOW"}
    PROVE  CountInv'
  BY SameCount, Zenon DEF Uncounted

\* Every step keeps the count.
LEMMA CountStep ==
    ASSUME IsFiniteSet(Coro), CancelSleeping = FALSE, SchedInv, SchedInv', CountInv, [Next]_vars
    PROVE  CountInv'
  <1>0. state \in [Coro -> States] /\ coro_count \in Int
    BY Zenon DEF SchedInv, TypeOK
  <1>1. CASE \/ coco_sched_run \/ coco_sched_run_once \/ dequeue_begin \/ apply_aging_promote
             \/ apply_aging_next \/ sched_idle \/ sched_run_return \/ poll_return
             \/ timer_tick_end \/ join_return \/ coco_set_priority
    <2>1. UNCHANGED <<state, coro_count>> /\ pc # "ret" /\ pc' # "ret"
      BY <1>1, Zenon DEF coco_sched_run, coco_sched_run_once, dequeue_begin, apply_aging_promote,
                  apply_aging_next, sched_idle, sched_run_return, poll_return, timer_tick_end,
                  join_return, coco_set_priority, Calls, InCoro
    <2> QED
      BY <2>1, QuietSteps, SMTT(40) DEF Live
  <1>2. CASE Clock \/ UNCHANGED vars
    <2>1. UNCHANGED <<state, coro_count, pc, current>>
      BY <1>2, SMTT(40) DEF Clock, vars
    <2> QED
      BY <2>1, SameCount, ZenonT(40) DEF Live, Uncounted
  <1>3. CASE dequeue_and_switch
    <2>1. PICK p \in Prio : LET c == Head(ready[p])
                            IN  /\ c \in Coro /\ state[c] = "READY" /\ pc' = "coro"
                                /\ state' = [state EXCEPT ![c] = "RUNNING"]
      BY <1>3, DequeueFacts, ZenonT(30)
    <2>2. Live' = Live
      BY <1>0, <2>1, ZenonT(40) DEF Live
    <2> QED
      BY <1>3, <2>1, <2>2, QuietSteps, SMTT(40) DEF dequeue_and_switch
  <1>4. CASE coco_yield \/ join_begin \/ join_again
    <2>1. /\ enqueue_ready(current) /\ pc = "coro" /\ pc' = "ret"
          /\ UNCHANGED <<coro_count, current>>
      BY <1>4, Zenon DEF coco_yield, join_begin, join_again, YieldStep, InCoro
    <2>2. current \in Coro /\ state[current] = "RUNNING"
      BY <2>1, Zenon DEF SchedInv, ControlInv
    <2>3. Live' = Live
      BY <2>1, <2>2, EnqueueLive, SMTT(40)
    <2>4. state'[current'] = "READY"
      BY <1>0, <2>1, <2>2, SMTT(40) DEF enqueue_ready
    <2> QED
      BY <2>1, <2>3, <2>4, QuietSteps, SMTT(40)
  <1>5. CASE coco_sleep \/ wait_fd
    <2>1. /\ state' = [state EXCEPT ![current] = "WAITING"] /\ pc = "coro" /\ pc' = "ret"
          /\ UNCHANGED <<coro_count, current>>
      BY <1>5, Zenon DEF coco_sleep, wait_fd, InCoro
    <2>2. current \in Coro /\ state[current] = "RUNNING"
      BY <2>1, ZenonT(40) DEF SchedInv, ControlInv
    <2>3. Live' = Live /\ state'[current'] = "WAITING"
      BY <1>0, <2>1, <2>2, SMTT(40) DEF Live
    <2> QED
      BY <2>1, <2>3, QuietSteps, ZenonT(40)
  <1>6. CASE coco_exit \/ stack_overflow
    <2>1. PICK s \in {"DEAD", "OVERFLOW", "OVERFLOW_RESUME"} :
            state' = [state EXCEPT ![current] = s]
      BY <1>6, Zenon DEF coco_exit, stack_overflow
    <2>2. pc = "coro" /\ pc' = "ret" /\ UNCHANGED <<coro_count, current>>
      BY <1>6, Zenon DEF coco_exit, stack_overflow, InCoro
    <2>3. current \in Coro /\ state[current] = "RUNNING"
      BY <2>2, Zenon DEF SchedInv, ControlInv
    <2>4. CASE s = "OVERFLOW_RESUME"
      <3>1. Live' = Live /\ state'[current'] = "OVERFLOW_RESUME"
        BY <1>0, <2>1, <2>2, <2>3, <2>4, SMTT(40) DEF Live
      <3> QED
        BY <2>2, <3>1, QuietSteps, ZenonT(40)
    <2>5. CASE s # "OVERFLOW_RESUME"
      <3>1. Live' = Live \ {current} /\ current \in Live
        BY <1>0, <2>1, <2>2, <2>3, <2>5, SMTT(40) DEF Live
      <3>2. Cardinality(Live') = Cardinality(Live) - 1
        BY <3>1, LiveFinite, FS_RemoveElement, SMTT(40)
      <3>3. Uncounted = 0 /\ Uncounted' = 1
        BY <1>0, <2>1, <2>2, <2>3, <2>5, SMTT(40) DEF Uncounted
      <3> QED
        BY <2>2, <3>2, <3>3, LiveFinite, SMTT(40) DEF CountInv
    <2> QED
      BY <2>4, <2>5, SMTT(40)
  <1>7. CASE handle_coro_return
    <2>1. /\ pc = "ret" /\ pc' # "ret"
          /\ coro_count' = IF state[current] \in {"DEAD", "OVERFLOW"} THEN coro_count - 1
                                                                      ELSE coro_count
      BY <1>7, ZenonT(40) DEF handle_coro_return
    <2>2. Live' = Live
      <3>1. CASE state[current] = "OVERFLOW_RESUME"
        <4>1. current \in Coro /\ enqueue_ready(current)
          BY <1>7, <2>1, <3>1, SMTT(40) DEF handle_coro_return, SchedInv, ControlInv
        <4> QED
          BY <3>1, <4>1, EnqueueLive, SMTT(40)
      <3>2. CASE state[current] # "OVERFLOW_RESUME"
        BY <1>7, <3>2, Zenon DEF handle_coro_return, Live
      <3> QED
        BY <3>1, <3>2, ZenonT(40)
    <2> QED
      BY <2>1, <2>2, LiveFinite, SMTT(40) DEF CountInv, Uncounted
  <1>8. CASE timer_fire \/ poll_event
    <2>1. PICK c \in Coro : state[c] = "WAITING" /\ enqueue_ready(c)
      <3>1. CASE poll_event
        BY <3>1, Zenon DEF poll_event, SchedInv, TypeOK
      <3>2. CASE timer_fire
        <4>1. PICK c \in Coro : \E i \in DOMAIN timers[c] : enqueue_ready(c)
          BY <3>2, ZenonT(30) DEF timer_fire
        <4>2. timers[c] # <<>>
          BY <4>1, SMTT(40)
        <4>3. state[c] = "WAITING"
          BY <4>2, Zenon DEF SchedInv, WaitersAreReachable
        <4> QED
          BY <4>1, <4>3, Zenon
      <3> QED
        BY <1>8, <3>1, <3>2, SMTT(40)
    <2>2. Live' = Live
      BY <2>1, EnqueueLive, SMTT(40)
    <2>3. pc \in {"tick", "poll"} /\ UNCHANGED <<pc, coro_count>>
      BY <1>8, ZenonT(40) DEF timer_fire, poll_event
    <2> QED
      BY <2>2, <2>3, QuietSteps, ZenonT(40)
  <1>9. CASE coco_create
    <2>1. PICK c \in Coro : state[c] = "NONE" /\ enqueue_ready(c)
      BY <1>9, Zenon DEF coco_create
    <2>2. coro_count' = coro_count + 1 /\ pc' = pc /\ pc # "ret"
      BY <1>9, ZenonT(40) DEF coco_create, Calls, InCoro
    <2>3. Live' = Live \cup {c} /\ c \notin Live
      BY <1>0, <2>1, SMTT(40) DEF Live, enqueue_ready
    <2>4. Cardinality(Live') = Cardinality(Live) + 1
      BY <2>3, LiveFinite, FS_AddElement, ZenonT(40)
    <2> QED
      BY <2>2, <2>4, LiveFinite, SMTT(40) DEF CountInv, Uncounted
  <1>10. CASE coco_cancel
    <2>1. PICK c \in Coro :
              IF state[c] = "WAITING" THEN enqueue_ready(c) ELSE UNCHANGED state
      BY <1>10, Zenon DEF coco_cancel
    <2>2. UNCHANGED <<coro_count, pc>> /\ pc # "ret"
      BY <1>10, Zenon DEF coco_cancel, Calls, InCoro
    <2>3. Live' = Live
      <3>1. CASE state[c] = "WAITING"
        BY <2>1, <3>1, EnqueueLive, SMTT(40)
      <3>2. CASE state[c] # "WAITING"
        BY <2>1, <3>2, SMTT(40) DEF Live
      <3> QED
        BY <3>1, <3>2, Zenon
    <2> QED
      BY <2>2, <2>3, QuietSteps, SMTT(40)
  <1>11. CASE coco_destroy
    <2>1. PICK c \in Coro : state[c] = "DEAD" /\ state' = [state EXCEPT ![c] = "FREED"]
      BY <1>11, Zenon DEF coco_destroy
    <2>2. UNCHANGED <<coro_count, pc>> /\ pc # "ret"
      BY <1>11, Zenon DEF coco_destroy, Calls, InCoro
    <2>3. Live' = Live
      BY <1>0, <2>1, ZenonT(40) DEF Live
    <2> QED
      BY <2>2, <2>3, QuietSteps, ZenonT(40)
  <1>12. CASE coco_sched_destroy
    <2>1. /\ coro_count' = 0 /\ pc' = "end"
          /\ state' = [c \in Coro |-> IF c \in table THEN "FREED" ELSE state[c]]
      BY <1>12, Zenon DEF coco_sched_destroy
    <2>2. Live' = {}
      BY <2>1, Zenon DEF Live, SchedInv, ControlInv, Exists
    <2>3. Cardinality(Live') = 0
      BY <2>2, FS_EmptySet, Zenon
    <2> QED
      BY <2>1, <2>3, SMTT(40) DEF CountInv, Uncounted
  <1> QED
    BY <1>1, <1>2, <1>3, <1>4, <1>5, <1>6, <1>7, <1>8, <1>9, <1>10, <1>11, <1>12, SMTT(40)
       DEF Next, SchedStep, Switch, Terminated

\* The count is right at every step.
THEOREM CountInvariant ==
    IsFiniteSet(Coro) /\ CancelSleeping = FALSE => (Spec => []CountInv)
  <1> SUFFICES ASSUME IsFiniteSet(Coro), CancelSleeping = FALSE PROVE Spec => []CountInv
    BY Zenon
  <1>1. Init => CountInv
    <2> SUFFICES ASSUME Init PROVE CountInv
      BY Zenon
    <2>1. Live = {} /\ coro_count = 0 /\ Uncounted = 0
      BY Zenon DEF Init, Live, Uncounted
    <2> QED
      BY <2>1, FS_EmptySet, SMTT(40) DEF CountInv
  <1>2. SchedInv /\ SchedInv' /\ CountInv /\ [Next]_vars => CountInv'
    BY CountStep, Zenon
  <1> QED
    BY <1>1, <1>2, SchedInvariant, PTL DEF Spec

\* Outside handle_coro_return() coro_count is the number of coroutines that
\* have not finished, whoever creates, cancels, ends or destroys them.
THEOREM CountCorrect ==
    IsFiniteSet(Coro) /\ CancelSleeping = FALSE => (Spec => []CountsTheLiving)
  <1> SUFFICES ASSUME IsFiniteSet(Coro), CancelSleeping = FALSE PROVE Spec => []CountsTheLiving
    BY Zenon
  <1>1. CountInv => CountsTheLiving
    BY LiveFinite DEF CountInv, CountsTheLiving, Uncounted
  <1> QED
    BY <1>1, CountInvariant, PTL

\* coco_sched_run() returns only when no coroutine is ready, waiting or to be
\* resumed.
THEOREM ReturnsWhenDone ==
    IsFiniteSet(Coro) /\ CancelSleeping = FALSE => (Spec => RunReturnsWhenDone)
  <1> SUFFICES ASSUME IsFiniteSet(Coro), CancelSleeping = FALSE PROVE Spec => RunReturnsWhenDone
    BY Zenon
  <1>1. SchedInv /\ CountInv /\ [Next]_vars => [pc = "loop" /\ pc' = "main" => Live = {}]_vars
    <2> SUFFICES ASSUME SchedInv, CountInv, [Next]_vars, pc = "loop", pc' = "main"
                 PROVE  Live = {}
      BY SMTT(40)
    <2>1. sched_run_return
      BY ZenonT(40) DEF Next, SchedStep, Switch, Terminated, vars, coco_sched_run,
         coco_sched_run_once,
             dequeue_begin, apply_aging_promote, apply_aging_next, dequeue_and_switch,
             handle_coro_return, sched_idle, timer_fire, timer_tick_end, poll_return, poll_event,
             coco_yield, coco_exit, join_begin, join_again, coco_sleep, wait_fd, stack_overflow,
             join_return, coco_create, coco_set_priority, coco_cancel, coco_destroy,
             coco_sched_destroy, Clock, YieldStep
    <2>2. coro_count =< 0 /\ Uncounted = 0
      BY <2>1, Zenon DEF sched_run_return, Uncounted
    <2>3. Cardinality(Live) = 0
      BY <2>2, LiveFinite, SMTT(40) DEF CountInv
    <2> QED
      BY <2>3, LiveFinite, FS_EmptySet, SMTT(40)
  <1> QED
    BY <1>1, SchedInvariant, CountInvariant, PTL DEF Spec, RunReturnsWhenDone
=============================================================================
