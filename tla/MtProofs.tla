------------------------------ MODULE MtProofs ------------------------------
(***************************************************************************)
(* The multi-threaded scheduler, for any number of workers, threads,       *)
(* pools, classes and stacks: the stack pools of the processors keep every *)
(* stack in one place, with the size they know it by, and no worker sleeps *)
(* while there is work that nobody will do.                                *)
(***************************************************************************)
EXTENDS MTSched, StackPoolMulti, TLAPS

\* What the proofs take from the library. It is a hypothesis of the lemmas that
\* need it, and is proved at the end, where the theorems of the library come
\* into scope.
Library ==
    /\ \A T \in SUBSET Nat : T # {} => \E m \in T : \A k \in T : m <= k
    /\ \A S : IsFiniteSet(S) => Cardinality(S) \in Nat /\ (Cardinality(S) = 0 => S = {})
    /\ \A S : \A T \in SUBSET S : IsFiniteSet(S) => IsFiniteSet(T) /\ Cardinality(T) <= Cardinality(S)
    /\ Cardinality({}) = 0 /\ \A x : Cardinality({x}) = 1
    /\ \A a, b \in Int : IsFiniteSet(a..b)

\* A set of numbers that is not empty has a least element.
LEMMA LeastExists ==
    ASSUME Library, NEW T, T \subseteq Nat, T # {}
    PROVE  \E m \in T : \A k \in T : m <= k
  BY Zenon DEF Library

\* The sizes of finite sets.
LEMMA FiniteSize == ASSUME Library, NEW S, IsFiniteSet(S) PROVE Cardinality(S) \in Nat
  BY Zenon DEF Library

\* A part of a finite set.
LEMMA FiniteSubset ==
    ASSUME Library, NEW S, IsFiniteSet(S), NEW T \in SUBSET S
    PROVE  IsFiniteSet(T) /\ Cardinality(T) <= Cardinality(S)
  BY Zenon DEF Library

\* The empty set.
LEMMA EmptySize ==
    ASSUME Library
    PROVE  Cardinality({}) = 0 /\ \A S : IsFiniteSet(S) => (Cardinality(S) = 0 => S = {})
  BY Zenon DEF Library

\* A set of one.
LEMMA SingletonSize == ASSUME Library PROVE \A x : Cardinality({x}) = 1
  BY Zenon DEF Library

\* An interval.
LEMMA FiniteInterval == ASSUME Library, NEW a \in Int, NEW b \in Int PROVE IsFiniteSet(a..b)
  BY Zenon DEF Library

-----------------------------------------------------------------------------
(* The stack pools.                                                        *)

\* The places: the caches, the lists and the coroutines, as sets of stacks.
Cached(c) == UNION {{c[t][i] : i \in {j \in Class : c[t][j] # NoStack}} : t \in PoolThread}
Listed(f) == UNION {UNION {{f[p][i][k] : k \in 1..Len(f[p][i])} : i \in Class} : p \in Pool}
InUse(u) == {a.stack : a \in u}

\* The types of the caches, the lists and the stacks in use.
Caches == [PoolThread -> [Class -> Stack \cup {NoStack}]]
Lists == [Pool -> [Class -> Seq(Stack)]]
Owners == [stack : Stack, size : Nat, pool : Pool]

\* No stack is twice in places of one kind, and each has the size it is known
\* by there.
CacheOK(m, c) ==
    /\ \A t, r \in PoolThread : \A i, j \in Class :
          c[t][i] = c[r][j] /\ c[t][i] # NoStack => t = r /\ i = j
    /\ \A t \in PoolThread : \A i \in Class : c[t][i] # NoStack => m[c[t][i]] = Classes[i]
ListOK(m, f) ==
    /\ \A p, q \in Pool : \A i, j \in Class :
          \A k \in 1..Len(f[p][i]) : \A n \in 1..Len(f[q][j]) :
             f[p][i][k] = f[q][j][n] => p = q /\ i = j /\ k = n
    /\ \A p \in Pool : \A j \in Class : \A k \in 1..Len(f[p][j]) : m[f[p][j][k]] = Classes[j]
UsedOK(m, u) ==
    /\ \A a, b \in u : a.stack = b.stack => a = b
    /\ \A a \in u : m[a.stack] = a.size /\ a.size # 0 /\ ActualSize(a.size) = a.size

\* Nor is one in places of two kinds.
Apart(A, B, C, D) ==
    /\ A \cap B = {} /\ A \cap C = {} /\ A \cap D = {}
    /\ B \cap C = {} /\ B \cap D = {} /\ C \cap D = {}

\* The inductive invariant: also, the stacks in a place are those mapped.
PoolInv ==
    /\ mapped \in [Stack -> Nat] /\ cache \in Caches /\ freelists \in Lists
    /\ used \in SUBSET Owners /\ lost \in SUBSET Stack /\ alive \in SUBSET Pool
    /\ CacheOK(mapped, cache)
    /\ ListOK(mapped, freelists)
    /\ UsedOK(mapped, used)
    /\ Apart(Cached(cache), Listed(freelists), InUse(used), lost)
    /\ {s \in Stack : mapped[s] # 0} =
          Cached(cache) \cup Listed(freelists) \cup InUse(used) \cup lost

-----------------------------------------------------------------------------
(* The size classes.                                                       *)

\* The class of a size is the first that is large enough.
LEMMA ClassFacts ==
    ASSUME Library, NEW wanted \in Nat
    PROVE  /\ get_class_index(wanted) # -1 =>
                /\ get_class_index(wanted) \in Class
                /\ wanted <= Classes[get_class_index(wanted)]
                /\ \A j \in Class : wanted <= Classes[j] => get_class_index(wanted) <= j
           /\ get_class_index(wanted) = -1 => \A j \in Class : ~(wanted <= Classes[j])
  <1> DEFINE fit == {i \in Class : wanted <= Classes[i]}
  <1>1. fit \subseteq Nat /\ -1 \notin fit
    BY StackPoolAssumption DEF Class
  <1>2. CASE fit = {}
    <2>1. get_class_index(wanted) = -1
      BY <1>2, Zenon DEF get_class_index
    <2> QED
      BY <1>2, <2>1, Zenon
  <1>3. CASE fit # {}
    <2>1. \E i \in fit : \A j \in fit : i <= j
      BY <1>1, <1>3, LeastExists, Zenon
    <2>2. get_class_index(wanted) = CHOOSE i \in fit : \A j \in fit : i <= j
      BY <1>3, Zenon DEF get_class_index
    <2>3. get_class_index(wanted) \in fit /\ \A j \in fit : get_class_index(wanted) <= j
      BY <2>1, <2>2, Zenon
    <2> QED
      BY <1>1, <2>3, Zenon
  <1> QED
    BY <1>2, <1>3, Zenon

\* A class is the class of its own size.
LEMMA ClassOfClass ==
    ASSUME Library, NEW i \in Class
    PROVE  /\ Classes[i] \in Nat \ {0}
           /\ get_class_index(Classes[i]) = i
  <1>1. Classes[i] \in Nat \ {0} /\ i \in Nat
    BY StackPoolAssumption DEF Class
  <1> DEFINE g == get_class_index(Classes[i])
  <1>2. g # -1
    BY <1>1, ClassFacts
  <1>3. g \in Class /\ Classes[i] <= Classes[g] /\ g <= i
    BY <1>1, <1>2, ClassFacts
  <1>4. ~(g < i)
    BY <1>1, <1>3, StackPoolAssumption DEF Class
  <1>5. g \in Nat
    BY <1>3 DEF Class
  <1> QED
    BY <1>1, <1>3, <1>4, <1>5

\* The size a coroutine is told is the size it gets, and is its own class.
LEMMA ActualFacts ==
    ASSUME Library, NEW wanted \in Nat \ {0}
    PROVE  /\ ActualSize(wanted) \in Nat \ {0}
           /\ ActualSize(ActualSize(wanted)) = ActualSize(wanted)
           /\ get_class_index(wanted) # -1 => /\ get_class_index(wanted) \in Class
                                            /\ ActualSize(wanted) = Classes[get_class_index(wanted)]
           /\ get_class_index(wanted) = -1 => ActualSize(wanted) = wanted
  <1>1. CASE get_class_index(wanted) = -1
    BY <1>1, Zenon DEF ActualSize
  <1>2. CASE get_class_index(wanted) # -1
    <2>1. get_class_index(wanted) \in Class
      BY <1>2, ClassFacts, Zenon
    <2> QED
      BY <1>2, <2>1, ClassOfClass, Zenon DEF ActualSize
  <1> QED
    BY <1>1, <1>2, Zenon

-----------------------------------------------------------------------------
(* The lists.                                                              *)

\* A list with a stack pushed on it.
LEMMA ConsFacts ==
    ASSUME NEW S, NEW s \in Seq(S), NEW x \in S
    PROVE  /\ <<x>> \o s \in Seq(S)
           /\ Len(<<x>> \o s) = Len(s) + 1
           /\ (<<x>> \o s)[1] = x
           /\ \A k \in 2..(Len(s) + 1) : (<<x>> \o s)[k] = s[k - 1]
  OBVIOUS

\* A list with the first stack popped off it.
LEMMA TailFacts ==
    ASSUME NEW S, NEW s \in Seq(S), s # <<>>
    PROVE  /\ Tail(s) \in Seq(S) /\ Head(s) \in S /\ Head(s) = s[1] /\ Len(s) > 0
           /\ Len(Tail(s)) = Len(s) - 1
           /\ \A k \in 1..(Len(s) - 1) : Tail(s)[k] = s[k + 1]
  OBVIOUS

-----------------------------------------------------------------------------
(* The caches.                                                             *)

\* A stack is cached where some thread has it.
LEMMA CachedFacts ==
    ASSUME NEW c \in Caches, NEW s
    PROVE  /\ s \in Cached(c) <=> s # NoStack /\ \E t \in PoolThread : \E i \in Class : c[t][i] = s
           /\ s \in Cached(c) => s \in Stack
  BY StackPoolAssumption DEF Caches, Cached

Taken(c, t, i) == [c EXCEPT ![t][i] = NoStack]

\* The stack a thread has cached is taken.
LEMMA CacheTake ==
    ASSUME NEW m, NEW c \in Caches, CacheOK(m, c),
           NEW t \in PoolThread, NEW i \in Class, c[t][i] # NoStack
    PROVE  LET d == Taken(c, t, i) IN
           /\ d \in Caches /\ CacheOK(m, d)
           /\ Cached(d) = Cached(c) \ {c[t][i]}
           /\ c[t][i] \in Cached(c) /\ m[c[t][i]] = Classes[i]
  <1> DEFINE d == Taken(c, t, i)
  <1>1. /\ d \in Caches /\ d[t][i] = NoStack
        /\ \A r \in PoolThread : \A j \in Class : r # t \/ j # i => d[r][j] = c[r][j]
    BY Zenon DEF Caches, Taken
  <1> HIDE DEF d
  <1>2. CacheOK(m, d)
    BY <1>1 DEF CacheOK
  <1>3. \A s : s \in Cached(d) <=> s \in Cached(c) /\ s # c[t][i]
    BY <1>1, CachedFacts DEF CacheOK
  <1>4. c[t][i] \in Cached(c) /\ m[c[t][i]] = Classes[i]
    BY CachedFacts, Zenon DEF CacheOK
  <1> QED
    BY <1>1, <1>2, <1>3, <1>4, Zenon DEF d

Put(c, t, i, s) == [c EXCEPT ![t][i] = s]

\* A stack that is in no cache is put in one that is empty.
LEMMA CachePut ==
    ASSUME NEW m, NEW c \in Caches, CacheOK(m, c),
           NEW t \in PoolThread, NEW i \in Class, c[t][i] = NoStack,
           NEW s \in Stack, s \notin Cached(c), m[s] = Classes[i]
    PROVE  LET d == Put(c, t, i, s) IN
           d \in Caches /\ CacheOK(m, d) /\ Cached(d) = Cached(c) \cup {s}
  <1> DEFINE d == Put(c, t, i, s)
  <1>1. /\ d \in Caches /\ d[t][i] = s
        /\ \A r \in PoolThread : \A j \in Class : r # t \/ j # i => d[r][j] = c[r][j]
    BY Zenon DEF Caches, Put
  <1> HIDE DEF d
  <1>2. s # NoStack /\ \A r \in PoolThread : \A j \in Class : c[r][j] # s
    BY CachedFacts, StackPoolAssumption, Zenon
  <1>3. CacheOK(m, d)
    BY <1>1, <1>2 DEF CacheOK
  <1>4. \A x : x \in Cached(d) <=> x \in Cached(c) \/ x = s
    BY <1>1, <1>2, CachedFacts
  <1> QED
    BY <1>1, <1>3, <1>4, Zenon DEF d

\* All that a thread has cached is taken.
Row(c, t) == {c[t][i] : i \in {j \in Class : c[t][j] # NoStack}}

Emptied(c, t) == [c EXCEPT ![t] = NoStacks]

\* The cache of a thread is emptied.
LEMMA CacheEmpty ==
    ASSUME NEW m, NEW c \in Caches, CacheOK(m, c), NEW t \in PoolThread
    PROVE  LET d == Emptied(c, t) IN
           /\ d \in Caches /\ CacheOK(m, d)
           /\ Cached(d) = Cached(c) \ Row(c, t) /\ Row(c, t) \subseteq Cached(c)
  <1> DEFINE d == Emptied(c, t)
  <1>1. /\ d \in Caches /\ \A j \in Class : d[t][j] = NoStack
        /\ \A r \in PoolThread : r # t => d[r] = c[r]
    BY Zenon DEF Caches, NoStacks, Emptied
  <1> HIDE DEF d
  <1>2. CacheOK(m, d)
    BY <1>1 DEF CacheOK
  <1>3. Row(c, t) \subseteq Cached(c)
    BY CachedFacts, Zenon DEF Row
  <1>4. \A s : s \in Cached(d) <=> s \in Cached(c) /\ s \notin Row(c, t)
    BY <1>1, CachedFacts DEF CacheOK, Row
  <1> QED
    BY <1>1, <1>2, <1>3, <1>4, Zenon DEF d

\* Only the sizes of what is cached matter.
LEMMA CacheSizes ==
    ASSUME NEW m, NEW n, NEW c \in Caches, CacheOK(m, c), \A s \in Cached(c) : n[s] = m[s]
    PROVE  CacheOK(n, c)
  BY CachedFacts, Zenon DEF CacheOK

-----------------------------------------------------------------------------
(* The free lists.                                                         *)

\* A stack is listed where some list has it.
LEMMA ListedFacts ==
    ASSUME NEW f \in Lists, NEW s
    PROVE  /\ s \in Listed(f) <=> \E p \in Pool : \E i \in Class : \E k \in 1..Len(f[p][i]) : f[p][i][k] = s
           /\ s \in Listed(f) => s \in Stack
  <1>1. \A p \in Pool : \A i \in Class : \A k \in 1..Len(f[p][i]) : f[p][i][k] \in Stack
    BY DEF Lists
  <1> QED
    BY <1>1 DEF Listed

\* A stack is in one place of the lists.
LEMMA ListUnique ==
    ASSUME NEW m, NEW f, ListOK(m, f), NEW q \in Pool, NEW r \in Pool,
           NEW j \in Class, NEW l \in Class
    PROVE  \A k \in 1..Len(f[q][j]) : \A n \in 1..Len(f[r][l]) :
              f[q][j][k] = f[r][l][n] => q = r /\ j = l /\ k = n
  <1>1. \A a, b \in Pool : \A i, h \in Class :
           \A u \in 1..Len(f[a][i]) : \A n \in 1..Len(f[b][h]) :
              f[a][i][u] = f[b][h][n] => a = b /\ i = h /\ u = n
    BY Zenon DEF ListOK
  <1>2. \A i, h \in Class : \A u \in 1..Len(f[q][i]) : \A n \in 1..Len(f[r][h]) :
           f[q][i][u] = f[r][h][n] => q = r /\ i = h /\ u = n
    BY <1>1, Zenon
  <1> QED
    BY <1>2, Zenon

Popped(f, p, i) == [f EXCEPT ![p][i] = Tail(@)]

\* The first stack of a list is taken.
LEMMA ListPop ==
    ASSUME NEW m, NEW f \in Lists, ListOK(m, f),
           NEW p \in Pool, NEW i \in Class, f[p][i] # <<>>, NEW s, s = Head(f[p][i])
    PROVE  LET g == Popped(f, p, i) IN
           /\ g \in Lists /\ ListOK(m, g) /\ Listed(g) = Listed(f) \ {s}
           /\ s \in Listed(f) /\ m[s] = Classes[i]
  <1> DEFINE g == Popped(f, p, i)
  <1> DEFINE n == Len(f[p][i])
  <1>1. /\ f[p][i] \in Seq(Stack) /\ Tail(f[p][i]) \in Seq(Stack)
        /\ s = f[p][i][1] /\ n \in Nat /\ n > 0
        /\ Len(Tail(f[p][i])) = n - 1
        /\ \A k \in 1..(n - 1) : Tail(f[p][i])[k] = f[p][i][k + 1]
    <2>1. f[p][i] \in Seq(Stack)
      BY Zenon DEF Lists
    <2> QED
      BY <2>1, TailFacts
  <1>2. /\ g \in Lists /\ g[p][i] = Tail(f[p][i])
        /\ \A q \in Pool : \A j \in Class : q # p \/ j # i => g[q][j] = f[q][j]
    BY <1>1, Zenon DEF Lists, Popped
  <1> HIDE DEF g
  <1> HIDE DEF n
  <1>3. Len(g[p][i]) = n - 1 /\ \A k \in 1..(n - 1) : g[p][i][k] = f[p][i][k + 1] /\ k + 1 \in 1..n
    BY <1>1, <1>2, SMTT(40)
  <1>4. 1 \in 1..n /\ m[s] = Classes[i] /\ s \in Listed(f)
    BY <1>1, ListedFacts DEF ListOK, n
  <1>5. \A q \in Pool : \A j \in Class : \A k \in 1..Len(g[q][j]) :
            LET h == IF q = p /\ j = i THEN k + 1 ELSE k
            IN  h \in 1..Len(f[q][j]) /\ g[q][j][k] = f[q][j][h]
    BY <1>2, <1>3, Zenon DEF n
  <1>6. ListOK(m, g)
    <2>1. ASSUME NEW q \in Pool, NEW r \in Pool, NEW j \in Class, NEW l \in Class,
                 NEW k \in 1..Len(g[q][j]), NEW o \in 1..Len(g[r][l]), g[q][j][k] = g[r][l][o]
          PROVE  q = r /\ j = l /\ k = o
      <3> DEFINE h == IF q = p /\ j = i THEN k + 1 ELSE k
                 e == IF r = p /\ l = i THEN o + 1 ELSE o
      <3>1. /\ h \in 1..Len(f[q][j]) /\ g[q][j][k] = f[q][j][h]
            /\ e \in 1..Len(f[r][l]) /\ g[r][l][o] = f[r][l][e]
        BY <1>5, Zenon
      <3> HIDE DEF h, e
      <3>0. f[q][j][h] = f[r][l][e]
        BY <2>1, <3>1, Zenon
      <3>2. q = r /\ j = l /\ h = e
        <4>1. \A a \in 1..Len(f[q][j]) : \A b \in 1..Len(f[r][l]) :
                 f[q][j][a] = f[r][l][b] => q = r /\ j = l /\ a = b
          BY ONLY ListUnique, ListOK(m, f), q \in Pool, r \in Pool, j \in Class, l \in Class,
             ZenonT(40)
        <4> QED
          BY <3>0, <3>1, <4>1, Zenon
      <3>3. k \in Int /\ o \in Int
        OBVIOUS
      <3> QED
        BY <3>2, <3>3 DEF h, e
    <2>2. ASSUME NEW q \in Pool, NEW j \in Class, NEW k \in 1..Len(g[q][j])
          PROVE  m[g[q][j][k]] = Classes[j]
      <3> DEFINE h == IF q = p /\ j = i THEN k + 1 ELSE k
      <3>1. h \in 1..Len(f[q][j]) /\ g[q][j][k] = f[q][j][h]
        BY <1>5, Zenon
      <3> HIDE DEF h
      <3> QED
        BY <3>1 DEF ListOK
    <2> QED
      BY <2>1, <2>2, Zenon DEF ListOK
  <1>7. ASSUME NEW x
        PROVE  x \in Listed(g) <=> x \in Listed(f) /\ x # s
    <2>1. ASSUME x \in Listed(g) PROVE x \in Listed(f) /\ x # s
      <3>1. PICK q \in Pool, j \in Class : \E k \in 1..Len(g[q][j]) : g[q][j][k] = x
        BY <1>2, <2>1, ListedFacts, ZenonT(40)
      <3>2. PICK k \in 1..Len(g[q][j]) : g[q][j][k] = x
        BY <3>1, Zenon
      <3> DEFINE h == IF q = p /\ j = i THEN k + 1 ELSE k
      <3>3. h \in 1..Len(f[q][j]) /\ f[q][j][h] = x
        BY <1>5, <3>2, Zenon
      <3>4. k \in Int /\ k >= 1
        OBVIOUS
      <3>5. ~(q = p /\ j = i /\ h = 1)
        BY <3>4, SMTT(40)
      <3>6. x # s
        BY <1>1, <1>4, <3>3, <3>5, SMTT(40) DEF ListOK, n
      <3> QED
        BY <3>3, <3>6, ListedFacts, Zenon
    <2>2. ASSUME x \in Listed(f), x # s PROVE x \in Listed(g)
      <3>1. PICK q \in Pool, j \in Class : \E k \in 1..Len(f[q][j]) : f[q][j][k] = x
        BY <2>2, ListedFacts, Zenon
      <3>2. PICK k \in 1..Len(f[q][j]) : f[q][j][k] = x
        BY <3>1, Zenon
      <3>3. CASE q = p /\ j = i
        <4>1. k \in 1..n /\ k # 1
          BY <1>1, <2>2, <3>2, <3>3, Zenon DEF n
        <4>2. k - 1 \in 1..(n - 1) /\ (k - 1) + 1 = k
          BY <1>1, <4>1
        <4>3. g[q][j][k - 1] = x /\ k - 1 \in 1..Len(g[q][j])
          BY <1>3, <3>2, <3>3, <4>2, Zenon
        <4> QED
          BY <1>2, <4>3, ListedFacts, Zenon
      <3>4. CASE q # p \/ j # i
        BY <1>2, <3>2, <3>4, ListedFacts, SMTT(40)
      <3> QED
        BY <3>3, <3>4, Zenon
    <2> QED
      BY <2>1, <2>2, Zenon
  <1> QED
    BY <1>2, <1>4, <1>6, <1>7, Zenon DEF g

\* Stacks that are in no list are pushed, one for each class of a set, on the
\* lists of a pool.
Pushed(f, p, K, row) ==
    [f EXCEPT ![p] = [i \in Class |-> IF i \in K THEN <<row[i]>> \o f[p][i] ELSE f[p][i]]]

\* Stacks that are in no list are put at the heads of lists.
LEMMA ListPush ==
    ASSUME NEW m, NEW f \in Lists, ListOK(m, f), NEW p \in Pool, NEW K \in SUBSET Class, NEW row,
           \A i \in K : row[i] \in Stack /\ row[i] \notin Listed(f) /\ m[row[i]] = Classes[i],
           \A i, j \in K : row[i] = row[j] => i = j
    PROVE  LET g == Pushed(f, p, K, row) IN
           /\ g \in Lists /\ ListOK(m, g)
           /\ Listed(g) = Listed(f) \cup {row[i] : i \in K}
  <1> DEFINE g == Pushed(f, p, K, row)
  <1>1. \A i \in Class : f[p][i] \in Seq(Stack)
    BY Zenon DEF Lists
  <1>2. \A i \in K : /\ <<row[i]>> \o f[p][i] \in Seq(Stack)
                      /\ Len(<<row[i]>> \o f[p][i]) = Len(f[p][i]) + 1
                      /\ (<<row[i]>> \o f[p][i])[1] = row[i]
                      /\ \A k \in 2..(Len(f[p][i]) + 1) : (<<row[i]>> \o f[p][i])[k] = f[p][i][k - 1]
    BY <1>1, ConsFacts
  <1>3. /\ g \in Lists
        /\ \A i \in K : g[p][i] = <<row[i]>> \o f[p][i]
        /\ \A q \in Pool : \A j \in Class : q # p \/ j \notin K => g[q][j] = f[q][j]
    BY <1>1, <1>2, Zenon DEF Pushed, Lists
  <1> HIDE DEF g
  <1>4. \A i \in K : /\ Len(g[p][i]) = Len(f[p][i]) + 1 /\ g[p][i][1] = row[i]
                      /\ \A k \in 2..(Len(f[p][i]) + 1) : g[p][i][k] = f[p][i][k - 1]
    <2> TAKE i \in K
    <2>1. g[p][i] = <<row[i]>> \o f[p][i]
      BY <1>3, Zenon
    <2>2. /\ Len(<<row[i]>> \o f[p][i]) = Len(f[p][i]) + 1
          /\ (<<row[i]>> \o f[p][i])[1] = row[i]
          /\ \A k \in 2..(Len(f[p][i]) + 1) : (<<row[i]>> \o f[p][i])[k] = f[p][i][k - 1]
      BY <1>2, Zenon
    <2> QED
      BY ONLY <2>1, <2>2, Zenon
  <1>5. \A q \in Pool : \A j \in Class : Len(f[q][j]) \in Nat
    BY DEF Lists
  \* What is in a place of the new lists: the stack pushed, or an old one.
  <1> DEFINE New(q, j, k) == q = p /\ j \in K /\ k = 1
             Old(q, j, k) == IF q = p /\ j \in K THEN k - 1 ELSE k
  <1>6. ASSUME NEW q \in Pool, NEW j \in Class, NEW k \in 1..Len(g[q][j])
        PROVE  IF New(q, j, k) THEN g[q][j][k] = row[j]
               ELSE Old(q, j, k) \in 1..Len(f[q][j]) /\ g[q][j][k] = f[q][j][Old(q, j, k)]
    <2>1. CASE q = p /\ j \in K
      <3>1. Len(g[q][j]) = Len(f[q][j]) + 1 /\ g[q][j][1] = row[j] /\ Len(f[q][j]) \in Nat
        BY <1>4, <1>5, <2>1, Zenon
      <3>2. k # 1 => k \in 2..(Len(f[q][j]) + 1) /\ k - 1 \in 1..Len(f[q][j])
        BY <3>1
      <3> QED
        BY <1>4, <2>1, <3>1, <3>2, Zenon
    <2>2. CASE q # p \/ j \notin K
      BY <1>3, <2>2, Zenon
    <2> QED
      BY <2>1, <2>2, Zenon
  <1> HIDE DEF New, Old
  <1>7. ListOK(m, g)
    <2>1. ASSUME NEW q \in Pool, NEW r \in Pool, NEW j \in Class, NEW l \in Class,
                 NEW k \in 1..Len(g[q][j]), NEW o \in 1..Len(g[r][l]), g[q][j][k] = g[r][l][o]
          PROVE  q = r /\ j = l /\ k = o
      <3>1. CASE New(q, j, k) /\ New(r, l, o)
        BY <1>6, <2>1, <3>1 DEF New
      <3>2. CASE New(q, j, k) /\ ~New(r, l, o)
        <4>1. g[r][l][o] \in Listed(f)
          BY <1>6, <3>2, ListedFacts, SMTT(40)
        <4>2. g[q][j][k] \notin Listed(f)
          BY <1>6, <3>2, Zenon DEF New
        <4> QED
          BY <2>1, <4>1, <4>2, Zenon
      <3>3. CASE ~New(q, j, k) /\ New(r, l, o)
        <4>0. Old(q, j, k) \in 1..Len(f[q][j]) /\ g[q][j][k] = f[q][j][Old(q, j, k)]
          BY <1>6, <3>3
        <4>1. g[q][j][k] \in Listed(f)
          BY <4>0, ListedFacts, Zenon
        <4>2. g[r][l][o] \notin Listed(f)
          BY <1>6, <3>3, Zenon DEF New
        <4> QED
          BY <2>1, <4>1, <4>2, Zenon
      <3>4. CASE ~New(q, j, k) /\ ~New(r, l, o)
        <4>1. /\ Old(q, j, k) \in 1..Len(f[q][j]) /\ g[q][j][k] = f[q][j][Old(q, j, k)]
              /\ Old(r, l, o) \in 1..Len(f[r][l]) /\ g[r][l][o] = f[r][l][Old(r, l, o)]
          BY <1>6, <3>4
        <4>0. f[q][j][Old(q, j, k)] = f[r][l][Old(r, l, o)]
          BY <2>1, <4>1, Zenon
        <4>2. q = r /\ j = l /\ Old(q, j, k) = Old(r, l, o)
          <5>1. \A a \in 1..Len(f[q][j]) : \A b \in 1..Len(f[r][l]) :
                   f[q][j][a] = f[r][l][b] => q = r /\ j = l /\ a = b
            BY ListUnique, ZenonT(40)
          <5> QED
            BY <4>0, <4>1, <5>1, Zenon
        <4>3. k \in Int /\ o \in Int
          OBVIOUS
        <4> QED
          BY <4>2, <4>3, SMTT(40) DEF Old
      <3> QED
        BY <3>1, <3>2, <3>3, <3>4, Zenon
    <2>2. ASSUME NEW q \in Pool, NEW j \in Class, NEW k \in 1..Len(g[q][j])
          PROVE  m[g[q][j][k]] = Classes[j]
      <3>1. CASE New(q, j, k)
        BY <1>6, <3>1, Zenon DEF New
      <3>2. CASE ~New(q, j, k)
        BY <1>6, <3>2, SMTT(40) DEF ListOK
      <3> QED
        BY <3>1, <3>2, Zenon
    <2> QED
      BY <2>1, <2>2, Zenon DEF ListOK
  <1>8. ASSUME NEW x PROVE x \in Listed(g) <=> x \in Listed(f) \/ \E i \in K : x = row[i]
    <2>1. ASSUME x \in Listed(g) PROVE x \in Listed(f) \/ \E i \in K : x = row[i]
      <3>1. PICK q \in Pool, j \in Class : \E k \in 1..Len(g[q][j]) : g[q][j][k] = x
        BY <1>3, <2>1, ListedFacts
      <3>2. PICK k \in 1..Len(g[q][j]) : g[q][j][k] = x
        BY <3>1, Zenon
      <3>3. CASE New(q, j, k)
        BY <1>6, <3>2, <3>3, Zenon DEF New
      <3>4. CASE ~New(q, j, k)
        BY <1>6, <3>2, <3>4, ListedFacts, SMTT(40)
      <3> QED
        BY <3>3, <3>4, Zenon
    <2>2. ASSUME x \in Listed(f) PROVE x \in Listed(g)
      <3>1. PICK q \in Pool, j \in Class : \E k \in 1..Len(f[q][j]) : f[q][j][k] = x
        BY <2>2, ListedFacts, Zenon
      <3>2. PICK k \in 1..Len(f[q][j]) : f[q][j][k] = x
        BY <3>1, Zenon
      <3>3. CASE q = p /\ j \in K
        <4>1. k + 1 \in 2..(Len(f[q][j]) + 1) /\ k + 1 \in 1..(Len(f[q][j]) + 1) /\ (k + 1) - 1 = k
          BY <1>5, SMTT(40)
        <4>2. g[q][j][k + 1] = x /\ k + 1 \in 1..Len(g[q][j])
          BY <1>4, <3>2, <3>3, <4>1, SMTT(40)
        <4> QED
          BY <1>3, <4>2, ListedFacts, Zenon
      <3>4. CASE q # p \/ j \notin K
        BY <1>3, <3>2, <3>4, ListedFacts
      <3> QED
        BY <3>3, <3>4, Zenon
    <2>3. ASSUME NEW i \in K, x = row[i] PROVE x \in Listed(g)
      <3>1. 1 \in 1..Len(g[p][i]) /\ g[p][i][1] = x
        BY <1>4, <1>5, <2>3
      <3> QED
        BY <1>3, <3>1, ListedFacts, Zenon
    <2> QED
      BY <2>1, <2>2, <2>3, Zenon
  <1> QED
    BY <1>3, <1>7, <1>8 DEF g

\* The lists of a pool are emptied.
Listing(f, p) == UNION {{f[p][i][k] : k \in 1..Len(f[p][i])} : i \in Class}

Cleared(f, p) == [f EXCEPT ![p] = [i \in Class |-> <<>>]]

\* The lists of a pool are emptied.
LEMMA ListClear ==
    ASSUME NEW m, NEW f \in Lists, ListOK(m, f), NEW p \in Pool
    PROVE  LET g == Cleared(f, p) IN
           /\ g \in Lists /\ ListOK(m, g)
           /\ Listed(g) = Listed(f) \ Listing(f, p) /\ Listing(f, p) \subseteq Listed(f)
  <1> DEFINE g == Cleared(f, p)
  <1>1. /\ g \in Lists /\ \A j \in Class : Len(g[p][j]) = 0
        /\ \A q \in Pool : q # p => g[q] = f[q]
    BY DEF Lists, Cleared
  <1> HIDE DEF g
  <1>2. \A q \in Pool : \A j \in Class : \A k \in 1..Len(g[q][j]) : q # p
    BY <1>1
  <1>3. ListOK(m, g)
    <2>1. ASSUME NEW q \in Pool, NEW r \in Pool, NEW j \in Class, NEW l \in Class,
                 NEW k \in 1..Len(g[q][j]), NEW o \in 1..Len(g[r][l]), g[q][j][k] = g[r][l][o]
          PROVE  q = r /\ j = l /\ k = o
      <3>1. g[q] = f[q] /\ g[r] = f[r]
        BY <1>1, <1>2, Zenon
      <3>2. \A a \in 1..Len(f[q][j]) : \A b \in 1..Len(f[r][l]) :
               f[q][j][a] = f[r][l][b] => q = r /\ j = l /\ a = b
        BY ONLY ListUnique, ListOK(m, f), q \in Pool, r \in Pool, j \in Class, l \in Class,
           SMTT(40)
      <3>3. k \in 1..Len(f[q][j]) /\ o \in 1..Len(f[r][l]) /\ f[q][j][k] = f[r][l][o]
        BY <2>1, <3>1, Zenon
      <3> QED
        BY <3>2, <3>3, Zenon
    <2>2. ASSUME NEW q \in Pool, NEW j \in Class, NEW k \in 1..Len(g[q][j])
          PROVE  m[g[q][j][k]] = Classes[j]
      BY <1>1, <1>2 DEF ListOK
    <2> QED
      BY <2>1, <2>2, Zenon DEF ListOK
  <1>4. ASSUME NEW s PROVE s \in Listing(f, p) <=>
                            \E i \in Class : \E k \in 1..Len(f[p][i]) : f[p][i][k] = s
    BY DEF Listing
  <1>5. Listing(f, p) \subseteq Listed(f)
    BY <1>4, ListedFacts, Zenon
  <1>6. ASSUME NEW s, s \in Listed(g) PROVE s \in Listed(f) /\ s \notin Listing(f, p)
    <2>1. PICK q \in Pool, j \in Class : \E k \in 1..Len(g[q][j]) : g[q][j][k] = s
      BY <1>1, <1>6, ListedFacts, Zenon
    <2>2. PICK k \in 1..Len(f[q][j]) : f[q][j][k] = s
      BY <1>1, <1>2, <2>1, Zenon
    <2>3. q # p
      BY <1>2, <2>1, Zenon
    <2>4. ASSUME NEW l \in Class, NEW o \in 1..Len(f[p][l]), f[p][l][o] = s PROVE FALSE
      <3>1. \A a \in 1..Len(f[q][j]) : \A b \in 1..Len(f[p][l]) :
               f[q][j][a] = f[p][l][b] => q = p /\ j = l /\ a = b
        BY ONLY ListUnique, ListOK(m, f), q \in Pool, p \in Pool, j \in Class, l \in Class,
           SMTT(40)
      <3>2. f[q][j][k] = f[p][l][o]
        BY <2>2, <2>4, Zenon
      <3> QED
        BY <2>3, <3>1, <3>2, Zenon
    <2>5. s \notin Listing(f, p)
      BY <1>4, <2>4, Zenon
    <2> QED
      BY <2>2, <2>5, ListedFacts, Zenon
  <1>7. ASSUME NEW s, s \in Listed(f), s \notin Listing(f, p) PROVE s \in Listed(g)
    <2>1. PICK q \in Pool, j \in Class : \E k \in 1..Len(f[q][j]) : f[q][j][k] = s
      BY <1>7, ListedFacts, Zenon
    <2>2. q # p
      BY <1>4, <1>7, <2>1, Zenon
    <2> QED
      BY <1>1, <2>1, <2>2, ListedFacts, Zenon
  <1> QED
    BY <1>1, <1>3, <1>5, <1>6, <1>7, Zenon DEF g

\* Only the sizes of what is listed matter.
LEMMA ListSizes ==
    ASSUME NEW m, NEW n, NEW f \in Lists, ListOK(m, f), \A s \in Listed(f) : n[s] = m[s]
    PROVE  ListOK(n, f)
  <1>1. ASSUME NEW p \in Pool, NEW j \in Class, NEW k \in 1..Len(f[p][j])
        PROVE  n[f[p][j][k]] = Classes[j]
    <2>1. f[p][j][k] \in Listed(f)
      BY ListedFacts, Zenon
    <2> QED
      BY <2>1 DEF ListOK
  <1> QED
    BY <1>1, Zenon DEF ListOK

-----------------------------------------------------------------------------
(* The coroutines.                                                         *)

Given(u, s, wanted, p) == u \cup {[stack |-> s, size |-> ActualSize(wanted), pool |-> p]}

\* A coroutine is given a stack that none has.
LEMMA UsedAdd ==
    ASSUME Library, NEW m, NEW u \in SUBSET Owners, UsedOK(m, u), NEW s \in Stack, s \notin InUse(u),
           NEW p \in Pool, NEW wanted \in Nat \ {0}, m[s] = ActualSize(wanted)
    PROVE  LET v == Given(u, s, wanted, p) IN
           v \in SUBSET Owners /\ UsedOK(m, v) /\ InUse(v) = InUse(u) \cup {s}
  <1> DEFINE v == Given(u, s, wanted, p)
  <1> DEFINE a == [stack |-> s, size |-> ActualSize(wanted), pool |-> p]
  <1>1. ActualSize(wanted) \in Nat \ {0} /\ ActualSize(ActualSize(wanted)) = ActualSize(wanted)
    BY ActualFacts, Zenon
  <1>2. a \in Owners /\ a.stack = s /\ a.size = ActualSize(wanted)
    BY <1>1, Zenon DEF Owners
  <1>0. v = u \cup {a}
    BY Zenon DEF Given
  <1> HIDE DEF v
  <1> HIDE DEF a
  <1>3. \A b \in u : b.stack # s
    BY Zenon DEF InUse
  <1>4. UsedOK(m, v)
    BY <1>0, <1>1, <1>2, <1>3, Zenon DEF UsedOK
  <1>5. InUse(v) = InUse(u) \cup {s}
    BY <1>0, <1>2, Zenon DEF InUse
  <1> QED
    BY <1>0, <1>2, <1>4, <1>5, Zenon DEF v

\* A coroutine gives its stack back.
LEMMA UsedRemove ==
    ASSUME NEW m, NEW u \in SUBSET Owners, UsedOK(m, u), NEW a \in u
    PROVE  /\ u \ {a} \in SUBSET Owners /\ UsedOK(m, u \ {a})
           /\ InUse(u \ {a}) = InUse(u) \ {a.stack} /\ a.stack \in InUse(u)
  BY Zenon DEF UsedOK, InUse

\* Only the sizes of what is in use matter.
LEMMA UsedSizes ==
    ASSUME NEW m, NEW n, NEW u, UsedOK(m, u), \A s \in InUse(u) : n[s] = m[s]
    PROVE  UsedOK(n, u)
  BY Zenon DEF UsedOK, InUse

-----------------------------------------------------------------------------
(* The invariant.                                                          *)

\* At first nothing is mapped.
LEMMA InitPoolInv == PoolInit => PoolInv
  <1> SUFFICES ASSUME PoolInit PROVE PoolInv
    BY Zenon
  <1> USE DEF PoolInit
  <1>1. /\ mapped \in [Stack -> Nat] /\ cache \in Caches /\ freelists \in Lists
        /\ used \in SUBSET Owners /\ lost \in SUBSET Stack /\ alive \in SUBSET Pool
    BY DEF Caches, Lists, NoStacks
  <1>2. /\ \A t \in PoolThread : \A i \in Class : cache[t][i] = NoStack
        /\ \A p \in Pool : \A i \in Class : Len(freelists[p][i]) = 0
    BY Zenon DEF NoStacks
  <1>3. Cached(cache) = {} /\ Listed(freelists) = {} /\ InUse(used) = {}
    <2>1. \A s : s \notin Cached(cache)
      BY <1>1, <1>2, CachedFacts, SMTT(40)
    <2>2. \A s : s \notin Listed(freelists)
      BY <1>1, <1>2, ListedFacts
    <2> QED
      BY <2>1, <2>2, Zenon DEF InUse
  <1>4. CacheOK(mapped, cache) /\ UsedOK(mapped, used)
    BY <1>2, Zenon DEF CacheOK, UsedOK
  <1>5. ListOK(mapped, freelists)
    <2>1. \A p \in Pool : \A i \in Class : 1..Len(freelists[p][i]) = {}
      BY <1>2
    <2> QED
      BY ONLY <2>1, ZenonT(40) DEF ListOK
  <1> QED
    BY <1>1, <1>3, <1>4, <1>5, Zenon DEF PoolInv, Apart

\* A coroutine is started.
LEMMA AllocPoolInv ==
    ASSUME Library, PoolInv, NEW t \in PoolThread, NEW p \in Pool, NEW wanted \in Requests,
           stack_pool_multi_alloc(t, p, wanted)
    PROVE  PoolInv'
  <1> DEFINE i == get_class_index(wanted)
  <1>0. wanted \in Nat \ {0}
    BY StackPoolAssumption, Zenon
  <1>1. /\ ActualSize(wanted) \in Nat \ {0}
        /\ i # -1 => i \in Class /\ ActualSize(wanted) = Classes[i]
        /\ i = -1 => ActualSize(wanted) = wanted
    BY <1>0, ActualFacts, Zenon
  <1>2. UNCHANGED <<alive, lost>>
    BY Zenon DEF stack_pool_multi_alloc
  <1>a. /\ cache \in Caches /\ CacheOK(mapped, cache) /\ freelists \in Lists
        /\ ListOK(mapped, freelists) /\ used \in SUBSET Owners /\ UsedOK(mapped, used)
    BY DEF PoolInv
  <1> HIDE DEF i
  <1>3. CASE /\ i # -1 /\ cache[t][i] # NoStack
             /\ Use(cache[t][i], wanted, p)
             /\ cache' = [cache EXCEPT ![t][i] = NoStack]
             /\ UNCHANGED <<freelists, mapped>>
    <2>0. PICK s : s = cache[t][i]
      BY Zenon
    <2>d. cache' = Taken(cache, t, i)
      BY <1>3, Zenon DEF Taken
    <2>1. /\ cache' \in Caches /\ CacheOK(mapped, cache') /\ Cached(cache') = Cached(cache) \ {s}
          /\ s \in Cached(cache) /\ mapped[s] = Classes[i]
      <3>1. i \in Class /\ cache[t][i] # NoStack
        BY <1>1, <1>3, Zenon
      <3>2. /\ Taken(cache, t, i) \in Caches /\ CacheOK(mapped, Taken(cache, t, i))
            /\ Cached(Taken(cache, t, i)) = Cached(cache) \ {cache[t][i]}
            /\ cache[t][i] \in Cached(cache) /\ mapped[cache[t][i]] = Classes[i]
        BY ONLY <1>a, <3>1, t \in PoolThread, CacheTake
      <3> QED
        BY <2>0, <2>d, <3>2, Zenon
    <2>2. s \in Stack /\ s \notin InUse(used)
      BY <2>1, CachedFacts, Zenon DEF PoolInv, Apart
    <2>u. used' = Given(used, s, wanted, p)
      BY <1>3, <2>0 DEF Given, Use
    <2>3. used' \in SUBSET Owners /\ UsedOK(mapped, used') /\ InUse(used') = InUse(used) \cup {s}
      BY ONLY Library, <1>a, <1>0, <1>1, <2>1, <2>2, <2>u, <1>3, p \in Pool, UsedAdd, SMTT(40)
    <2>4. Apart(Cached(cache'), Listed(freelists'), InUse(used'), lost')
      <3>1. Apart(Cached(cache), Listed(freelists), InUse(used), lost)
        BY Zenon DEF PoolInv
      <3> QED
        BY ONLY <1>2, <1>3, <2>1, <2>3, <3>1, Zenon DEF Apart
    <2>5. {x \in Stack : mapped'[x] # 0} =
             Cached(cache') \cup Listed(freelists') \cup InUse(used') \cup lost'
      <3>1. {x \in Stack : mapped[x] # 0} =
               Cached(cache) \cup Listed(freelists) \cup InUse(used) \cup lost
        BY Zenon DEF PoolInv
      <3>2. Listed(freelists') = Listed(freelists) /\ lost' = lost /\ mapped' = mapped
        BY <1>2, <1>3, Zenon
      <3>3. Cached(cache') \cup Listed(freelists') \cup InUse(used') \cup lost' =
               Cached(cache) \cup Listed(freelists) \cup InUse(used) \cup lost
        BY ONLY <2>1, <2>3, <3>2, Zenon
      <3> QED
        BY ONLY <3>1, <3>2, <3>3, Zenon
    <2>6. UNCHANGED <<mapped, freelists>>
      BY <1>3, Zenon
    <2> QED
      BY <1>2, <2>1, <2>3, <2>4, <2>5, <2>6, Zenon DEF PoolInv
  <1>4. CASE /\ i # -1 /\ freelists[p][i] # <<>>
             /\ Use(Head(freelists[p][i]), wanted, p)
             /\ freelists' = [freelists EXCEPT ![p][i] = Tail(@)]
             /\ UNCHANGED <<cache, mapped>>
    <2>0. PICK s : s = Head(freelists[p][i])
      BY Zenon
    <2>d. freelists' = Popped(freelists, p, i)
      BY <1>4, Zenon DEF Popped
    <2>1. /\ freelists' \in Lists /\ ListOK(mapped, freelists')
          /\ Listed(freelists') = Listed(freelists) \ {s}
          /\ s \in Listed(freelists) /\ mapped[s] = Classes[i]
      <3>1. i \in Class /\ freelists[p][i] # <<>>
        BY <1>1, <1>4, ZenonT(40)
      <3>2. /\ Popped(freelists, p, i) \in Lists /\ ListOK(mapped, Popped(freelists, p, i))
            /\ Listed(Popped(freelists, p, i)) = Listed(freelists) \ {s}
            /\ s \in Listed(freelists) /\ mapped[s] = Classes[i]
        BY ONLY <1>a, <2>0, <3>1, p \in Pool, ListPop, SMTT(40)
      <3> QED
        BY <2>d, <3>2, Zenon
    <2>2. s \in Stack /\ s \notin InUse(used)
      BY <2>1, ListedFacts, Zenon DEF PoolInv, Apart
    <2>u. used' = Given(used, s, wanted, p)
      BY <1>4, <2>0 DEF Given, Use
    <2>3. used' \in SUBSET Owners /\ UsedOK(mapped, used') /\ InUse(used') = InUse(used) \cup {s}
      BY ONLY Library, <1>a, <1>0, <1>1, <2>1, <2>2, <2>u, <1>4, p \in Pool, UsedAdd, SMTT(40)
    <2>4. Apart(Cached(cache'), Listed(freelists'), InUse(used'), lost')
      <3>1. Apart(Cached(cache), Listed(freelists), InUse(used), lost)
        BY Zenon DEF PoolInv
      <3> QED
        BY ONLY <1>2, <1>4, <2>1, <2>3, <3>1, Zenon DEF Apart
    <2>5. {x \in Stack : mapped'[x] # 0} =
             Cached(cache') \cup Listed(freelists') \cup InUse(used') \cup lost'
      <3>1. {x \in Stack : mapped[x] # 0} =
               Cached(cache) \cup Listed(freelists) \cup InUse(used) \cup lost
        BY Zenon DEF PoolInv
      <3>2. Cached(cache') = Cached(cache) /\ lost' = lost /\ mapped' = mapped
        BY <1>2, <1>4, Zenon
      <3>3. Cached(cache') \cup Listed(freelists') \cup InUse(used') \cup lost' =
               Cached(cache) \cup Listed(freelists) \cup InUse(used) \cup lost
        BY ONLY <2>1, <2>3, <3>2, Zenon
      <3> QED
        BY ONLY <3>1, <3>2, <3>3, Zenon
    <2>6. UNCHANGED <<mapped, cache>>
      BY <1>4, ZenonT(40)
    <2> QED
      BY <1>2, <2>1, <2>3, <2>4, <2>5, <2>6, Zenon DEF PoolInv
  <1>5. ASSUME NEW s \in Unmapped, Use(s, wanted, p),
               mapped' = [mapped EXCEPT ![s] = IF i = -1 THEN wanted ELSE Classes[i]],
               UNCHANGED <<cache, freelists>>
        PROVE  PoolInv'
    <2>1. s \in Stack /\ mapped[s] = 0
      BY <1>5, Zenon DEF Unmapped
    <2>2. /\ mapped' \in [Stack -> Nat] /\ mapped'[s] = ActualSize(wanted)
          /\ \A x \in Stack : x # s => mapped'[x] = mapped[x]
      BY <1>0, <1>1, <1>5, <2>1, Zenon DEF PoolInv
    <2>3. /\ s \notin Cached(cache) /\ s \notin Listed(freelists) /\ s \notin InUse(used)
          /\ s \notin lost
      BY <2>1, Zenon DEF PoolInv
    <2>4. \A x \in Cached(cache) \cup Listed(freelists) \cup InUse(used) : mapped'[x] = mapped[x]
      <3>1. Cached(cache) \cup Listed(freelists) \cup InUse(used) \subseteq Stack
        BY Zenon DEF PoolInv
      <3> QED
        BY <2>2, <2>3, <3>1, Zenon
    <2>5. CacheOK(mapped', cache) /\ ListOK(mapped', freelists) /\ UsedOK(mapped', used)
      BY <2>4, CacheSizes, ListSizes, UsedSizes, Zenon DEF PoolInv
    <2>u. used' = Given(used, s, wanted, p)
      BY <1>5 DEF Given, Use
    <2>6. used' \in SUBSET Owners /\ UsedOK(mapped', used') /\ InUse(used') = InUse(used) \cup {s}
      BY ONLY Library, <1>a, <1>0, <2>1, <2>2, <2>3, <2>5, <2>u, p \in Pool, UsedAdd, SMTT(40)
    <2>7. {x \in Stack : mapped'[x] # 0} = {x \in Stack : mapped[x] # 0} \cup {s}
      BY <1>1, <2>1, <2>2, Zenon
    <2> QED
      BY <1>2, <1>5, <2>2, <2>3, <2>5, <2>6, <2>7, SMTT(40) DEF PoolInv, Apart
  <1> QED
    BY <1>3, <1>4, <1>5, Zenon DEF stack_pool_multi_alloc, i

\* Stacks that are in no other place are unmapped.
LEMMA DropPoolInv ==
    ASSUME PoolInv, NEW X \in SUBSET Stack, NEW m,
           m = [s \in Stack |-> IF s \in X THEN 0 ELSE mapped[s]],
           NEW c \in Caches, CacheOK(mapped, c), Cached(c) \cap X = {},
           NEW f \in Lists, ListOK(mapped, f), Listed(f) \cap X = {},
           NEW u \in SUBSET Owners, UsedOK(mapped, u), InUse(u) \cap X = {}
    PROVE  /\ m \in [Stack -> Nat]
           /\ {s \in Stack : m[s] # 0} = {s \in Stack : mapped[s] # 0} \ X
           /\ CacheOK(m, c) /\ ListOK(m, f) /\ UsedOK(m, u)
  <1>1. m \in [Stack -> Nat] /\ \A s \in Stack \ X : m[s] = mapped[s]
    BY Zenon DEF PoolInv
  <1>2. {s \in Stack : m[s] # 0} = {s \in Stack : mapped[s] # 0} \ X
    BY Zenon
  <1>3. \A s \in Cached(c) : m[s] = mapped[s]
    BY <1>1, CachedFacts, Zenon
  <1>4. \A s \in Listed(f) : m[s] = mapped[s]
    BY <1>1, ListedFacts, Zenon
  <1>5. \A s \in InUse(u) : m[s] = mapped[s]
    BY <1>1, Zenon DEF InUse, Owners
  <1> QED
    BY <1>1, <1>2, <1>3, <1>4, <1>5, CacheSizes, ListSizes, UsedSizes, Zenon

\* A coroutine ends.
LEMMA FreePoolInv ==
    ASSUME Library, PoolInv, NEW t \in PoolThread, NEW u \in used, stack_pool_multi_free(t, u)
    PROVE  PoolInv'
  <1> DEFINE i == get_class_index(u.size)
             s == u.stack
  <1>a. /\ cache \in Caches /\ CacheOK(mapped, cache) /\ freelists \in Lists
        /\ ListOK(mapped, freelists) /\ used \in SUBSET Owners /\ UsedOK(mapped, used)
    BY Zenon DEF PoolInv
  <1>1. /\ s \in Stack /\ u.size \in Nat \ {0} /\ u.pool \in Pool
        /\ mapped[s] = u.size /\ ActualSize(u.size) = u.size
    BY <1>a, Zenon DEF Owners, UsedOK
  <1>2. i # -1 => i \in Class /\ mapped[s] = Classes[i]
    BY <1>1, ActualFacts, Zenon
  <1>3. /\ used' \in SUBSET Owners /\ UsedOK(mapped, used')
        /\ InUse(used') = InUse(used) \ {s} /\ s \in InUse(used)
    <2>1. used' = used \ {u}
      BY Zenon DEF stack_pool_multi_free
    <2> QED
      BY ONLY <1>a, <2>1, u \in used, UsedRemove, Zenon
  <1>4. s \notin Cached(cache) /\ s \notin Listed(freelists) /\ s \notin lost
    BY <1>3, Zenon DEF PoolInv, Apart
  <1>5. UNCHANGED <<alive, lost>>
    BY Zenon DEF stack_pool_multi_free
  <1> HIDE DEF i, s
  <1>6. CASE /\ i # -1 /\ cache[t][i] = NoStack /\ cache' = [cache EXCEPT ![t][i] = s]
             /\ UNCHANGED <<freelists, mapped>>
    <2>1. cache' = Put(cache, t, i, s) /\ i \in Class /\ mapped[s] = Classes[i]
      BY <1>2, <1>6, Zenon DEF Put
    <2>2. /\ cache' \in Caches /\ CacheOK(mapped, cache') /\ Cached(cache') = Cached(cache) \cup {s}
      <3>1. /\ Put(cache, t, i, s) \in Caches /\ CacheOK(mapped, Put(cache, t, i, s))
            /\ Cached(Put(cache, t, i, s)) = Cached(cache) \cup {s}
        BY ONLY <1>a, <1>1, <1>4, <1>6, <2>1, t \in PoolThread, CachePut, SMTT(40)
      <3> QED
        BY <2>1, <3>1, Zenon
    <2>3. /\ Cached(cache') = Cached(cache) \cup {s} /\ InUse(used') = InUse(used) \ {s}
          /\ s \in InUse(used) /\ freelists' = freelists /\ lost' = lost
      BY <1>3, <1>5, <1>6, <2>2, ZenonT(40)
    <2>4. Apart(Cached(cache'), Listed(freelists'), InUse(used'), lost')
      BY <1>4, <2>3 DEF PoolInv, Apart
    <2>5. {x \in Stack : mapped'[x] # 0} =
             Cached(cache') \cup Listed(freelists') \cup InUse(used') \cup lost'
      BY <1>6, <2>3, ZenonT(40) DEF PoolInv
    <2> QED
      BY <1>3, <1>5, <1>6, <2>2, <2>4, <2>5, Zenon DEF PoolInv
  <1>7. CASE /\ i # -1 /\ freelists' = [freelists EXCEPT ![u.pool][i] = <<s>> \o @]
             /\ UNCHANGED <<cache, mapped>>
    <2> DEFINE row == [j \in Class |-> s]
    <2>1. freelists' = Pushed(freelists, u.pool, {i}, row) /\ i \in Class /\ mapped[s] = Classes[i]
      BY <1>a, <1>1, <1>2, <1>7, Zenon DEF Pushed, Lists
    <2>2. /\ {i} \in SUBSET Class
          /\ \A j \in {i} : row[j] \in Stack /\ row[j] \notin Listed(freelists)
                            /\ mapped[row[j]] = Classes[j]
          /\ \A j, k \in {i} : row[j] = row[k] => j = k
      BY <1>1, <1>4, <2>1, Zenon
    <2>3. {row[j] : j \in {i}} = {s}
      BY <2>1, Zenon
    <2> HIDE DEF row
    <2>4. /\ freelists' \in Lists /\ ListOK(mapped, freelists')
          /\ Listed(freelists') = Listed(freelists) \cup {s}
      <3>1. PICK p \in Pool, K \in SUBSET Class : p = u.pool /\ K = {i}
        BY <1>1, <2>2, Zenon
      <3>2. /\ \A j \in K : row[j] \in Stack /\ row[j] \notin Listed(freelists)
                            /\ mapped[row[j]] = Classes[j]
            /\ \A j, k \in K : row[j] = row[k] => j = k
        BY <2>2, <3>1, Zenon
      <3>3. /\ Pushed(freelists, p, K, row) \in Lists
            /\ ListOK(mapped, Pushed(freelists, p, K, row))
            /\ Listed(Pushed(freelists, p, K, row)) = Listed(freelists) \cup {row[j] : j \in K}
        BY ONLY <1>a, <3>2, p \in Pool, K \in SUBSET Class, ListPush, SMTT(40)
      <3> QED
        BY <2>1, <2>3, <3>1, <3>3, Zenon
    <2>5. /\ Listed(freelists') = Listed(freelists) \cup {s} /\ InUse(used') = InUse(used) \ {s}
          /\ s \in InUse(used) /\ cache' = cache /\ lost' = lost
      BY <1>3, <1>5, <1>7, <2>4, Zenon
    <2>6. Apart(Cached(cache'), Listed(freelists'), InUse(used'), lost')
      BY <1>4, <2>5 DEF PoolInv, Apart
    <2>7. {x \in Stack : mapped'[x] # 0} =
             Cached(cache') \cup Listed(freelists') \cup InUse(used') \cup lost'
      BY <1>7, <2>5, ZenonT(40) DEF PoolInv
    <2> QED
      BY <1>3, <1>5, <1>7, <2>4, <2>6, <2>7, Zenon DEF PoolInv
  <1>8. CASE mapped' = [mapped EXCEPT ![s] = 0] /\ UNCHANGED <<cache, freelists>>
    <2>1. {s} \in SUBSET Stack /\ mapped' = [x \in Stack |-> IF x \in {s} THEN 0 ELSE mapped[x]]
      BY <1>1, <1>8, Zenon DEF PoolInv
    <2>2. /\ Cached(cache) \cap {s} = {} /\ Listed(freelists) \cap {s} = {} /\ InUse(used') \cap {s} = {}
      BY <1>3, <1>4, Zenon
    <2>3. /\ mapped' \in [Stack -> Nat]
          /\ {x \in Stack : mapped'[x] # 0} = {x \in Stack : mapped[x] # 0} \ {s}
          /\ CacheOK(mapped', cache) /\ ListOK(mapped', freelists) /\ UsedOK(mapped', used')
      BY ONLY PoolInv, <1>a, <1>3, <2>1, <2>2, DropPoolInv, Zenon
    <2> QED
      BY <1>3, <1>4, <1>5, <1>8, <2>3 DEF PoolInv, Apart
  <1> QED
    BY <1>6, <1>7, <1>8, Zenon DEF stack_pool_multi_free, GiveBack, i, s

\* The stacks of a thread's cache, in order of their classes, are different.
LEMMA RowFacts ==
    ASSUME PoolInv, NEW t \in PoolThread
    PROVE  /\ \A i \in Class : cache[t][i] # NoStack =>
                  /\ cache[t][i] \in Cached(cache) /\ cache[t][i] \in Stack
                  /\ mapped[cache[t][i]] = Classes[i]
                  /\ cache[t][i] \notin Listed(freelists) /\ cache[t][i] \notin InUse(used)
           /\ \A i, j \in Class : cache[t][i] # NoStack /\ cache[t][i] = cache[t][j] => i = j
  <1>1. cache \in Caches /\ CacheOK(mapped, cache)
    BY Zenon DEF PoolInv
  <1>2. \A i \in Class : cache[t][i] # NoStack => cache[t][i] \in Cached(cache) /\ cache[t][i] \in Stack
    BY <1>1, CachedFacts, Zenon
  <1>3. \A i \in Class : cache[t][i] # NoStack => mapped[cache[t][i]] = Classes[i]
    BY <1>1, Zenon DEF CacheOK
  <1>4. \A i, j \in Class : cache[t][i] # NoStack /\ cache[t][i] = cache[t][j] => i = j
    BY <1>1, ZenonT(40) DEF CacheOK
  <1>5. Cached(cache) \cap Listed(freelists) = {} /\ Cached(cache) \cap InUse(used) = {}
    BY Zenon DEF PoolInv, Apart
  <1> QED
    BY <1>2, <1>3, <1>4, <1>5, Zenon

\* The statistics are asked for: the cache goes to the lists.
LEMMA StatsPoolInv ==
    ASSUME PoolInv, NEW t \in PoolThread, NEW p \in Pool, stack_pool_multi_get_stats(t, p)
    PROVE  PoolInv'
  <1> DEFINE kept == {i \in Class : cache[t][i] # NoStack /\ Len(freelists[p][i]) < CLASS_LIMIT}
             freed == {cache[t][i] : i \in {j \in Class \ kept : cache[t][j] # NoStack}}
             moved == {cache[t][i] : i \in kept}
  <1>a. /\ cache \in Caches /\ CacheOK(mapped, cache) /\ freelists \in Lists
        /\ ListOK(mapped, freelists) /\ used \in SUBSET Owners /\ UsedOK(mapped, used)
    BY Zenon DEF PoolInv
  <1>1. /\ cache' = Emptied(cache, t)
        /\ UNCHANGED <<alive, used, lost>>
    BY Zenon DEF stack_pool_multi_get_stats, flush_tl_cache_to_pool, Emptied
  <1>2. freelists' = Pushed(freelists, p, kept, cache[t])
    BY <1>a, Zenon DEF stack_pool_multi_get_stats, flush_tl_cache_to_pool, Pushed, Lists
  <1>3. mapped' = [s \in Stack |-> IF s \in freed THEN 0 ELSE mapped[s]]
    BY Zenon DEF stack_pool_multi_get_stats, flush_tl_cache_to_pool
  <1>4. Row(cache, t) = freed \cup moved
    BY Zenon DEF Row
  <1>5. freed \cap moved = {} /\ freed \in SUBSET Stack /\ freed \subseteq Cached(cache)
    BY RowFacts
  <1>6. /\ kept \in SUBSET Class
        /\ \A i \in kept : /\ cache[t][i] \in Stack /\ cache[t][i] \notin Listed(freelists)
                            /\ mapped[cache[t][i]] = Classes[i]
        /\ \A i, j \in kept : cache[t][i] = cache[t][j] => i = j
    BY RowFacts, Zenon
  <1>7. /\ cache' \in Caches /\ CacheOK(mapped, cache')
        /\ Cached(cache') = Cached(cache) \ (freed \cup moved) /\ moved \subseteq Cached(cache)
    <2>1. /\ Emptied(cache, t) \in Caches /\ CacheOK(mapped, Emptied(cache, t))
          /\ Cached(Emptied(cache, t)) = Cached(cache) \ Row(cache, t)
          /\ Row(cache, t) \subseteq Cached(cache)
      BY ONLY <1>a, t \in PoolThread, CacheEmpty, Zenon
    <2> QED
      BY ONLY <1>1, <1>4, <2>1, Zenon
  <1>8. /\ freelists' \in Lists /\ ListOK(mapped, freelists')
        /\ Listed(freelists') = Listed(freelists) \cup moved
    <2>1. PICK K, row : K \in SUBSET Class /\ K = kept /\ row = cache[t]
      BY <1>6, Zenon
    <2>2. /\ \A i \in K : row[i] \in Stack /\ row[i] \notin Listed(freelists)
                          /\ mapped[row[i]] = Classes[i]
          /\ \A i, j \in K : row[i] = row[j] => i = j
      BY <1>6, <2>1, ZenonT(40)
    <2>3. /\ Pushed(freelists, p, K, row) \in Lists
          /\ ListOK(mapped, Pushed(freelists, p, K, row))
          /\ Listed(Pushed(freelists, p, K, row)) = Listed(freelists) \cup {row[i] : i \in K}
      <3>1. K \in SUBSET Class
        BY <2>1, Zenon
      <3> QED
        BY ONLY <1>a, <2>2, <3>1, p \in Pool, ListPush, SMTT(40)
    <2> QED
      BY <1>2, <2>1, <2>3, Zenon
  <1> HIDE DEF kept, freed, moved
  <1>9. /\ Cached(cache') \cap freed = {} /\ Listed(freelists') \cap freed = {}
        /\ InUse(used') \cap freed = {} /\ used' = used
    BY <1>1, <1>5, <1>7, <1>8, Zenon DEF PoolInv, Apart
  <1>10. /\ mapped' \in [Stack -> Nat]
         /\ {x \in Stack : mapped'[x] # 0} = {x \in Stack : mapped[x] # 0} \ freed
         /\ CacheOK(mapped', cache') /\ ListOK(mapped', freelists') /\ UsedOK(mapped', used')
    BY ONLY PoolInv, <1>a, <1>3, <1>5, <1>7, <1>8, <1>9, DropPoolInv, ZenonT(40)
  <1>11. Apart(Cached(cache'), Listed(freelists'), InUse(used'), lost')
    BY <1>1, <1>7, <1>8, Zenon DEF PoolInv, Apart
  <1>12. {x \in Stack : mapped'[x] # 0} =
            Cached(cache') \cup Listed(freelists') \cup InUse(used') \cup lost'
    BY <1>1, <1>5, <1>7, <1>8, <1>10, Zenon DEF PoolInv, Apart
  <1> QED
    BY <1>1, <1>7, <1>8, <1>10, <1>11, <1>12, Zenon DEF PoolInv

\* A worker ends: its cache is lost.
LEMMA ExitPoolInv ==
    ASSUME PoolInv, NEW t \in PoolThread, worker_exit(t)
    PROVE  PoolInv'
  <1>a. cache \in Caches /\ CacheOK(mapped, cache)
    BY Zenon DEF PoolInv
  <1>1. /\ cache' = Emptied(cache, t) /\ lost' = lost \cup Row(cache, t)
        /\ UNCHANGED <<mapped, freelists, alive, used>>
    BY Zenon DEF worker_exit, Emptied, Row
  <1>2. /\ cache' \in Caches /\ CacheOK(mapped, cache')
        /\ Cached(cache') = Cached(cache) \ Row(cache, t)
        /\ Row(cache, t) \subseteq Cached(cache)
    BY ONLY <1>a, <1>1, t \in PoolThread, CacheEmpty, Zenon
  <1>3. Row(cache, t) \subseteq Stack
    BY <1>a, <1>2, CachedFacts, Zenon
  <1>4. Apart(Cached(cache'), Listed(freelists'), InUse(used'), lost')
    BY <1>1, <1>2, Zenon DEF PoolInv, Apart
  <1>5. {x \in Stack : mapped'[x] # 0} =
           Cached(cache') \cup Listed(freelists') \cup InUse(used') \cup lost'
    BY <1>1, <1>2, Zenon DEF PoolInv
  <1> QED
    BY <1>1, <1>2, <1>3, <1>4, <1>5, Zenon DEF PoolInv

\* A pool is destroyed: what its lists and the main thread's cache hold is
\* unmapped.
LEMMA DestroyPoolInv ==
    ASSUME PoolInv, NEW p \in Pool, stack_pool_multi_destroy(p)
    PROVE  PoolInv'
  <1> DEFINE gone == Row(cache, MainThread) \cup Listing(freelists, p)
  <1>a. /\ cache \in Caches /\ CacheOK(mapped, cache) /\ freelists \in Lists
        /\ ListOK(mapped, freelists) /\ used \in SUBSET Owners /\ UsedOK(mapped, used)
    BY Zenon DEF PoolInv
  <1>b. MainThread \in PoolThread
    BY StackPoolAssumption
  <1>1. /\ cache' = Emptied(cache, MainThread) /\ alive' = alive \ {p} /\ UNCHANGED <<used, lost>>
    BY Zenon DEF stack_pool_multi_destroy, flush_tl_cache_to_pool, Emptied
  <1>2. freelists' = Cleared(freelists, p)
    BY Zenon DEF stack_pool_multi_destroy, flush_tl_cache_to_pool, Cleared
  <1>3. mapped' = [s \in Stack |-> IF s \in gone THEN 0 ELSE mapped[s]]
    BY DEF stack_pool_multi_destroy, flush_tl_cache_to_pool, Row, Listing
  <1>4. /\ cache' \in Caches /\ CacheOK(mapped, cache')
        /\ Cached(cache') = Cached(cache) \ Row(cache, MainThread)
        /\ Row(cache, MainThread) \subseteq Cached(cache)
    BY ONLY <1>a, <1>b, <1>1, CacheEmpty, Zenon
  <1>5. /\ freelists' \in Lists /\ ListOK(mapped, freelists')
        /\ Listed(freelists') = Listed(freelists) \ Listing(freelists, p)
        /\ Listing(freelists, p) \subseteq Listed(freelists)
    BY ONLY <1>a, <1>2, p \in Pool, ListClear, Zenon
  <1>6. gone \in SUBSET Stack
    BY <1>a, <1>4, <1>5, CachedFacts, ListedFacts, Zenon
  <1>7. /\ Cached(cache') \cap gone = {} /\ Listed(freelists') \cap gone = {}
        /\ InUse(used') \cap gone = {} /\ used' = used
    BY <1>1, <1>4, <1>5, Zenon DEF PoolInv, Apart
  <1>8. /\ mapped' \in [Stack -> Nat]
        /\ {x \in Stack : mapped'[x] # 0} = {x \in Stack : mapped[x] # 0} \ gone
        /\ CacheOK(mapped', cache') /\ ListOK(mapped', freelists') /\ UsedOK(mapped', used')
    <2> HIDE DEF gone
    <2> QED
      BY ONLY PoolInv, <1>a, <1>3, <1>4, <1>5, <1>6, <1>7, DropPoolInv, Zenon
  <1>9. Apart(Cached(cache'), Listed(freelists'), InUse(used'), lost')
    BY <1>1, <1>4, <1>5, Zenon DEF PoolInv, Apart
  <1>10. {x \in Stack : mapped'[x] # 0} =
            Cached(cache') \cup Listed(freelists') \cup InUse(used') \cup lost'
    BY <1>1, <1>4, <1>5, <1>8, Zenon DEF PoolInv, Apart
  <1> QED
    BY <1>1, <1>4, <1>5, <1>8, <1>9, <1>10, Zenon DEF PoolInv

\* Every step keeps the invariant.
LEMMA NextPoolInv == ASSUME Library, PoolInv, [PoolNext]_poolVars PROVE PoolInv'
  <1>1. ASSUME NEW p \in Pool, stack_pool_multi_create(p) PROVE PoolInv'
    BY <1>1, Zenon DEF PoolInv, stack_pool_multi_create
  <1>2. CASE UNCHANGED poolVars
    BY <1>2, Zenon DEF PoolInv, poolVars
  <1> QED
    BY <1>1, <1>2, AllocPoolInv, FreePoolInv, StatsPoolInv, ExitPoolInv, DestroyPoolInv, Zenon
       DEF PoolNext

-----------------------------------------------------------------------------
(* What it means for the stacks.                                           *)

\* What is kept is cached or listed.
LEMMA KeptFacts ==
    ASSUME PoolInv, NEW k
    PROVE  k \in Kept <=>
              \/ \E t \in PoolThread : \E i \in Class :
                    cache[t][i] # NoStack /\ k = <<cache[t][i], i, t, 0>>
              \/ \E p \in Pool : \E i \in Class : \E n \in 1..Len(freelists[p][i]) :
                    k = <<freelists[p][i][n], i, p, n>>
  <1> DEFINE A == UNION {{<<cache[t][i], i, t, 0>> : i \in {j \in Class : cache[t][j] # NoStack}}
                         : t \in PoolThread}
             B(p) == UNION {{<<freelists[p][i][n], i, p, n>> : n \in 1..Len(freelists[p][i])}
                            : i \in Class}
  <1>1. k \in A <=> \E t \in PoolThread : \E i \in Class :
                       cache[t][i] # NoStack /\ k = <<cache[t][i], i, t, 0>>
    OBVIOUS
  <1>2. ASSUME NEW p \in Pool
        PROVE  k \in B(p) <=> \E i \in Class : \E n \in 1..Len(freelists[p][i]) :
                                k = <<freelists[p][i][n], i, p, n>>
    OBVIOUS
  <1>3. k \in Kept <=> k \in A \/ \E p \in Pool : k \in B(p)
    <2>1. Kept = A \cup UNION {B(p) : p \in Pool}
      BY ONLY Zenon DEF Kept
    <2> HIDE DEF A, B
    <2> QED
      BY <2>1, Zenon
  <1> HIDE DEF A, B
  <1> QED
    BY <1>1, <1>2, <1>3, Zenon

\* It has the size of its class.
LEMMA KeptSize ==
    ASSUME PoolInv, NEW k \in Kept
    PROVE  mapped[k[1]] = Classes[k[2]]
  <1>1. CASE \E t \in PoolThread : \E i \in Class :
                cache[t][i] # NoStack /\ k = <<cache[t][i], i, t, 0>>
    <2>1. PICK t \in PoolThread, i \in Class : cache[t][i] # NoStack /\ k = <<cache[t][i], i, t, 0>>
      BY <1>1, Zenon
    <2>2. k[1] = cache[t][i] /\ k[2] = i
      BY ONLY <2>1
    <2> QED
      BY <2>1, <2>2, Zenon DEF PoolInv, CacheOK
  <1>2. CASE \E p \in Pool : \E i \in Class : \E n \in 1..Len(freelists[p][i]) :
                k = <<freelists[p][i][n], i, p, n>>
    <2>0. PICK p \in Pool, i \in Class : \E n \in 1..Len(freelists[p][i]) :
             k = <<freelists[p][i][n], i, p, n>>
      BY <1>2, Zenon
    <2>1. PICK n \in 1..Len(freelists[p][i]) : k = <<freelists[p][i][n], i, p, n>>
      BY <2>0, Zenon
    <2>2. k[1] = freelists[p][i][n] /\ k[2] = i
      BY ONLY <2>1
    <2> QED
      BY <2>1, <2>2, ZenonT(40) DEF PoolInv, ListOK
  <1> QED
    BY <1>1, <1>2, KeptFacts, Zenon

\* A stack is kept as often as it has a place among the free ones.
LEMMA KeptOnce ==
    ASSUME Library, PoolInv, NEW s \in Stack
    PROVE  Cardinality({k \in Kept : k[1] = s}) =
              IF s \in Cached(cache) \cup Listed(freelists) THEN 1 ELSE 0
  <1> DEFINE T == {k \in Kept : k[1] = s}
  <1>1. /\ cache \in Caches /\ CacheOK(mapped, cache) /\ freelists \in Lists
        /\ ListOK(mapped, freelists) /\ Cached(cache) \cap Listed(freelists) = {}
    BY Zenon DEF PoolInv, Apart
  <1>2. s # NoStack
    BY StackPoolAssumption, ZenonT(40)
  <1>3. ASSUME NEW k \in T PROVE
           \/ s \in Cached(cache) /\ \E t \in PoolThread : \E i \in Class :
                 cache[t][i] = s /\ k = <<s, i, t, 0>>
           \/ s \in Listed(freelists) /\ \E p \in Pool : \E i \in Class :
                 \E n \in 1..Len(freelists[p][i]) : freelists[p][i][n] = s /\ k = <<s, i, p, n>>
    <2>1. CASE \E t \in PoolThread : \E i \in Class :
                  cache[t][i] # NoStack /\ k = <<cache[t][i], i, t, 0>>
      BY <1>1, <2>1, CachedFacts
    <2>2. CASE \E p \in Pool : \E i \in Class : \E n \in 1..Len(freelists[p][i]) :
                  k = <<freelists[p][i][n], i, p, n>>
      <3>1. PICK p \in Pool, i \in Class : \E n \in 1..Len(freelists[p][i]) :
                  k = <<freelists[p][i][n], i, p, n>>
        BY <2>2, Zenon
      <3>2. PICK n \in 1..Len(freelists[p][i]) : k = <<freelists[p][i][n], i, p, n>>
        BY <3>1, Zenon
      <3>3. freelists[p][i][n] = s
        BY <3>2, Zenon
      <3>4. s \in Listed(freelists)
        BY <1>1, <3>3, ListedFacts, Zenon
      <3> QED
        BY <3>2, <3>3, <3>4, Zenon
    <2> QED
      BY <2>1, <2>2, KeptFacts, SMTT(40)
  <1>4. CASE s \in Cached(cache)
    <2>1. PICK t \in PoolThread, i \in Class : cache[t][i] = s
      BY <1>1, <1>4, CachedFacts, Zenon
    <2>2. <<s, i, t, 0>> \in T
      BY <1>2, <2>1, KeptFacts, Zenon
    <2>3. s \notin Listed(freelists)
      BY <1>1, <1>4, Zenon
    <2>4. ASSUME NEW k \in T PROVE k = <<s, i, t, 0>>
      <3>1. PICK r \in PoolThread, j \in Class : cache[r][j] = s /\ k = <<s, j, r, 0>>
        BY <1>3, <2>3, ZenonT(40)
      <3>2. r = t /\ j = i
        BY <1>1, <1>2, <2>1, <3>1, SMTT(40) DEF CacheOK
      <3> QED
        BY <3>1, <3>2, Zenon
    <2>5. T = {<<s, i, t, 0>>}
      BY <2>2, <2>4, Zenon
    <2> QED
      BY <1>4, <2>5, SingletonSize, Zenon
  <1>5. CASE s \in Listed(freelists)
    <2>1. PICK p \in Pool, i \in Class : \E n \in 1..Len(freelists[p][i]) : freelists[p][i][n] = s
      BY <1>1, <1>5, ListedFacts, Zenon
    <2>2. PICK n \in 1..Len(freelists[p][i]) : freelists[p][i][n] = s
      BY <2>1, Zenon
    <2>3. <<s, i, p, n>> \in T
      BY <2>2, KeptFacts, Zenon
    <2>4. s \notin Cached(cache)
      BY <1>1, <1>5, Zenon
    <2>5. ASSUME NEW k \in T PROVE k = <<s, i, p, n>>
      <3>1. PICK q \in Pool, j \in Class : \E o \in 1..Len(freelists[q][j]) :
                  freelists[q][j][o] = s /\ k = <<s, j, q, o>>
        BY <1>3, <2>4, Zenon
      <3>2. PICK o \in 1..Len(freelists[q][j]) : freelists[q][j][o] = s /\ k = <<s, j, q, o>>
        BY <3>1, ZenonT(40)
      <3>3. \A a \in 1..Len(freelists[q][j]) : \A b \in 1..Len(freelists[p][i]) :
               freelists[q][j][a] = freelists[p][i][b] => q = p /\ j = i /\ a = b
        BY ONLY ListUnique, <1>1, q \in Pool, p \in Pool, j \in Class, i \in Class, SMTT(40)
      <3>4. q = p /\ j = i /\ o = n
        BY <2>2, <3>2, <3>3, Zenon
      <3> QED
        BY <3>2, <3>4, Zenon
    <2>6. T = {<<s, i, p, n>>}
      BY <2>3, <2>5, Zenon
    <2> QED
      BY <1>5, <2>6, SingletonSize, Zenon
  <1>6. CASE s \notin Cached(cache) \cup Listed(freelists)
    <2>1. T = {}
      BY <1>3, <1>6, Zenon
    <2> QED
      BY <1>6, <2>1, EmptySize, Zenon
  <1> QED
    BY <1>4, <1>5, <1>6, Zenon

\* A stack is used as often as it has a coroutine.
LEMMA UsedOnce ==
    ASSUME Library, PoolInv, NEW s \in Stack
    PROVE  Cardinality({u \in used : u.stack = s}) = IF s \in InUse(used) THEN 1 ELSE 0
  <1> DEFINE T == {u \in used : u.stack = s}
  <1>1. CASE s \in InUse(used)
    <2>1. PICK a \in used : a.stack = s
      BY <1>1, Zenon DEF InUse
    <2>2. T = {a}
      BY <2>1, Zenon DEF PoolInv, UsedOK
    <2> QED
      BY <1>1, <2>2, SingletonSize, Zenon
  <1>2. CASE s \notin InUse(used)
    <2>1. T = {}
      BY <1>2, Zenon DEF InUse
    <2> QED
      BY <1>2, <2>1, EmptySize, Zenon
  <1> QED
    BY <1>1, <1>2, Zenon

-----------------------------------------------------------------------------
(* The workers wake up.                                                    *)

Fields == {"at", "g", "list", "n", "then", "old", "link"}
Thens == {"off", "go_signal", "go_count", "switch", "body", "push", "spread"}

\* The threads have their local variables.
ShapeOK ==
    /\ world \in Worlds
    /\ DOMAIN th = Thread /\ \A t \in Thread : DOMAIN th[t] = Fields /\ th[t].then \in Thens

\* A local_runq_lock held for longer than a step is held by a thread that is
\* between coco_go() and runq_put(), or by a worker that spills its queue.
HoldsLock(t, q) ==
    \/ th[t].at = "go_put" /\ th[t].n = q
    \/ t = q /\ (th[t].at = "push" \/ GoingTo(t, "push"))
LocksOK ==
    /\ DOMAIN lock = Worker
    /\ \A q \in Worker : lock[q] # None => lock[q] \in P \cup {Main} /\ HoldsLock(lock[q], q)

\* Whoever holds idle_lock looks for work a last time.
Look == {"find", "global", "cas", "steal"}
IdleOK ==
    /\ idle_lock \in P \cup {None}
    /\ \A w \in P : idle_lock = w => th[w].at \in Look

\* The other threads do nothing, and the main thread is where running says.
MainOK ==
    /\ \A t \in Thread \ (P \cup {Main}) : th[t].at = "off"
    /\ th[Main].at \in {"off", "main", "waited", "go_put", "go_signal", "go_count", "put", "peek",
                        "signal", "broadcast", "join"}
    /\ th[Main].at \in {"put", "peek"} => th[Main].then = "go_signal"
    /\ th[Main].at = "signal" => \/ th[Main].then = "go_signal"
                                 \/ th[Main].then = "go_count" /\ th[Main].n = 1
    /\ th[Main].at \in {"main", "waited"} => running
    /\ th[Main].at \in {"off", "broadcast", "join"} => ~running
    /\ ~running /\ th[Main].at \notin {"broadcast", "join"} => \A w \in P : th[w].at = "off"
    /\ th[Main].at = "join" => idle_lock = None
    /\ StopIsSeen

\* The main thread is still to signal what it has queued.
Pend ==
    \/ th[Main].at \in {"go_put", "go_signal"}
    \/ GoingTo(Main, "go_signal")
    \/ th[Main].at = "signal" /\ th[Main].then = "go_count"

\* A worker is awake, and will look at every queue before it sleeps.
Awake == \E w \in P : th[w].at # "asleep" /\ idle_lock # w

\* What is queued is signalled, or found by a worker that is awake or by the one
\* that has idle_lock and has not looked there yet.
WorkSeen ==
    /\ \A p \in P : runq[p] # <<>> =>
         \/ Pend \/ Awake
         \/ \E w \in P : idle_lock = w /\ (p # w \/ th[w].at = "find")
    /\ head # None =>
         \/ Pend \/ Awake
         \/ \E w \in P : idle_lock = w /\ th[w].at # "steal"

\* The inductive invariant.
WakeInv == ShapeOK /\ LocksOK /\ IdleOK /\ MainOK /\ WorkSeen

\* Nobody but the workers makes a coroutine ready.
NoOutside == \A u \in Worlds : ~u.outside

\* Threads and processors.
LEMMA Threads ==
    ASSUME world \in Worlds
    PROVE  /\ P \subseteq Worker /\ P \subseteq Thread /\ Main \in Thread /\ Outside \in Thread /\ P # {}
           /\ Main \notin P /\ Outside \notin P /\ Main # Outside /\ None \notin Thread /\ None \notin Worker
  BY MTSchedAssumption DEF P, Worker, Thread

\* At first everything is off.
LEMMA InitWakeInv == Init => WakeInv
  <1> SUFFICES ASSUME Init PROVE WakeInv
    BY Zenon
  <1>0. world \in Worlds
    BY Zenon DEF Init
  <1>1. ShapeOK
    BY Zenon DEF Init, ShapeOK, Local, Fields, Thens
  <1>2. /\ \A t \in Thread : th[t].at = "off"
    BY Zenon DEF Init, Local
  <1>3. LocksOK
    BY Zenon DEF Init, LocksOK
  <1>4. IdleOK
    BY <1>0, Threads, Zenon DEF Init, IdleOK
  <1>5. MainOK
    BY <1>0, <1>2, Threads, Zenon DEF Init, MainOK, StopIsSeen
  <1>6. WorkSeen
    <2>1. P \subseteq Worker
      BY <1>0, Threads, Zenon
    <2> QED
      BY <2>1, Zenon DEF Init, WorkSeen
  <1> QED
    BY <1>1, <1>3, <1>4, <1>5, <1>6, Zenon DEF WakeInv

\* Only thread w has moved.
Moves(w) ==
    /\ DOMAIN th' = Thread /\ DOMAIN th'[w] = Fields /\ th'[w].then \in Thens
    /\ \A u \in Thread \ {w} : th'[u] = th[u]

\* A worker moves on, awake and without idle_lock.
LEMMA WorkerMoves ==
    ASSUME WakeInv, NEW w \in P, Moves(w), LocksOK', th[w].at # "off", th'[w].at # "asleep",
           idle_lock' \in {idle_lock, None}, idle_lock' # w, UNCHANGED <<world, running>>
    PROVE  WakeInv'
  <1>0. /\ P' = P /\ w \in Thread /\ Main \in Thread /\ Main # w /\ P \subseteq Thread /\ None \notin P
        /\ th'[Main] = th[Main] /\ world' \in Worlds
    BY Threads, Zenon DEF WakeInv, ShapeOK, P, Moves
  <1>1. ShapeOK'
    BY <1>0, Zenon DEF WakeInv, ShapeOK, Moves
  <1>2. IdleOK'
    BY <1>0, Zenon DEF WakeInv, IdleOK, Moves
  <1>3. MainOK'
    <2>1. \A t \in Thread \ (P \cup {Main}) : th'[t] = th[t]
      BY Zenon DEF Moves
    <2>2. th[Main].at = "join" => Asleep' = {}
      BY <1>0, ZenonT(40) DEF WakeInv, MainOK, StopIsSeen, Asleep, Moves
    <2> QED
      BY <1>0, <2>1, <2>2, Zenon DEF WakeInv, MainOK, StopIsSeen
  <1>4. WorkSeen'
    BY <1>0, Zenon DEF WorkSeen, Awake
  <1> QED
    BY <1>1, <1>2, <1>3, <1>4, Zenon DEF WakeInv

Empty(w) == runq[w] = <<>>

\* A worker moves on in its search for work.
LEMMA WorkerLooks ==
    ASSUME WakeInv, NEW w \in P, Moves(w), th[w].at \in Look, th'[w].at \in Look,
           UNCHANGED <<world, running, lock, idle_lock, runq, head>>,
           th'[w].at # "find", th[w].at = "find" => Empty(w),
           th'[w].at = "steal" => head = None
    PROVE  WakeInv'
  <1>0. /\ P' = P /\ w \in Thread /\ Main \in Thread /\ Main # w /\ P \subseteq Thread /\ None \notin P
        /\ th'[Main] = th[Main] /\ world' \in Worlds
    BY Threads, Zenon DEF WakeInv, ShapeOK, P, Moves
  <1>1. LocksOK'
    <2>1. ASSUME NEW q \in Worker, lock[q] # None PROVE lock[q] \in P \cup {Main} /\ HoldsLock(lock[q], q)'
      <3>1. lock[q] \in P \cup {Main} /\ HoldsLock(lock[q], q)
        BY <2>1, Zenon DEF WakeInv, LocksOK
      <3>2. lock[q] # w
        BY <3>1, Zenon DEF HoldsLock, GoingTo, Look
      <3>3. th'[lock[q]] = th[lock[q]]
        BY <1>0, <3>1, <3>2, Zenon DEF Moves
      <3> QED
        BY <3>1, <3>3, Zenon DEF HoldsLock, GoingTo
    <2> QED
      BY <1>0, <2>1, Zenon DEF WakeInv, LocksOK
  <1>2. CASE idle_lock # w
    BY <1>1, <1>2, WorkerMoves, Zenon DEF Look
  <1>3. CASE idle_lock = w
    <2>1. ShapeOK'
      BY <1>0, Zenon DEF WakeInv, ShapeOK, Moves
    <2>2. IdleOK'
      BY <1>0, Zenon DEF WakeInv, IdleOK, Moves
    <2>3. MainOK'
      <3>1. \A t \in Thread \ (P \cup {Main}) : th'[t] = th[t]
        BY ZenonT(40) DEF Moves
      <3>2. th[Main].at = "join" => Asleep' = {}
        BY <1>0 DEF WakeInv, MainOK, StopIsSeen, Asleep, Moves, Look
      <3>3. ~(\A x \in P : th[x].at = "off")
        BY Zenon DEF Look
      <3> QED
        BY <1>0, <3>1, <3>2, <3>3, Zenon DEF WakeInv, MainOK, StopIsSeen
    <2>4. WorkSeen'
      <3>1. Pend' <=> Pend
        BY <1>0, Zenon DEF Pend, GoingTo
      <3>2. Awake => Awake'
        BY <1>0, <1>3, Zenon DEF Awake, Moves
      <3>3. ASSUME NEW p \in P, runq[p] # <<>>
            PROVE  Pend \/ Awake' \/ \E x \in P : idle_lock = x /\ (p # x \/ th'[x].at = "find")
        BY <1>3, <3>2, <3>3, Zenon DEF WakeInv, WorkSeen, Empty
      <3>4. ASSUME head # None
            PROVE  Pend \/ Awake' \/ \E x \in P : idle_lock = x /\ th'[x].at # "steal"
        BY <1>3, <3>2, <3>4, Zenon DEF WakeInv, WorkSeen
      <3> QED
        BY <1>0, <3>1, <3>3, <3>4, Zenon DEF WorkSeen
    <2> QED
      BY <1>1, <2>1, <2>2, <2>3, <2>4, Zenon DEF WakeInv
  <1> QED
    BY <1>2, <1>3, Zenon

\* A local_runq_lock is taken or released by the thread that moves, or kept.
LockStep(t) ==
    /\ DOMAIN lock' = Worker
    /\ \A q \in Worker : lock'[q] # None => \/ lock'[q] = t /\ HoldsLock(t, q)'
                                            \/ lock'[q] = lock[q] /\ lock[q] # t

\* A lock is taken when it is free and released by its holder.
LEMMA LocksKept ==
    ASSUME WakeInv, NEW t \in P \cup {Main}, Moves(t), world' = world, LockStep(t)
    PROVE  LocksOK'
  <1>0. P' = P /\ P \cup {Main} \subseteq Thread
    BY Threads, Zenon DEF WakeInv, ShapeOK, P
  <1>1. ASSUME NEW q \in Worker, lock'[q] # None PROVE lock'[q] \in P \cup {Main} /\ HoldsLock(lock[q], q)'
    <2>1. CASE lock'[q] = t /\ HoldsLock(t, q)'
      BY <2>1, Zenon DEF HoldsLock, GoingTo
    <2>2. CASE lock'[q] = lock[q] /\ lock[q] # t
      <3>1. lock[q] \in P \cup {Main} /\ HoldsLock(lock[q], q)
        BY <1>1, <2>2, Zenon DEF WakeInv, LocksOK
      <3>2. th'[lock[q]] = th[lock[q]]
        BY <1>0, <2>2, <3>1, Zenon DEF Moves
      <3> QED
        BY <2>2, <3>1, <3>2, Zenon DEF HoldsLock, GoingTo
    <2> QED
      BY <1>1, <2>1, <2>2, Zenon DEF LockStep
  <1> QED
    BY <1>0, <1>1, Zenon DEF LocksOK, LockStep

\* ... when it touches no lock and holds on to its own.
LEMMA LocksSame ==
    ASSUME WakeInv, NEW t \in P \cup {Main}, Moves(t), UNCHANGED <<world, lock>>,
           \A q \in Worker : HoldsLock(t, q) => HoldsLock(t, q)'
    PROVE  LocksOK'
  <1>1. LockStep(t)
    BY Zenon DEF WakeInv, LocksOK, LockStep
  <1> QED
    BY <1>1, LocksKept, Zenon

\* A worker that does not look for work has not got idle_lock.
LEMMA NotIdle ==
    ASSUME WakeInv, NEW w \in P, th[w].at \notin Look
    PROVE  idle_lock # w
  BY Zenon DEF WakeInv, IdleOK

\* A step of a worker that neither looks for work nor touches a lock.
LEMMA PlainStep ==
    ASSUME WakeInv, NEW w \in P, Moves(w), th[w].at \notin Look \cup {"off"}, th'[w].at # "asleep",
           UNCHANGED <<world, running, lock, idle_lock>>,
           \A q \in Worker : HoldsLock(w, q) => HoldsLock(w, q)'
    PROVE  WakeInv'
  BY LocksSame, NotIdle, WorkerMoves, Zenon

\* The steps of this kind.
LEMMA PlainSteps ==
    ASSUME WakeInv, NEW w \in P,
           \/ worker_loop(w) \/ runq_put_batch(w) \/ idle_leave(w) \/ idle_uncount(w)
           \/ coco_yield(w) \/ block(w) \/ ctx_switch(w) \/ coco_exit(w) \/ handle_coro_done(w)
           \/ balance(w) \/ balance_collect(w) \/ balance_spread(w)
           \/ (\E c \in Coro : schedule_ready(w, c))
           \/ global_runq_put(w) \/ global_runq_peek(w) \/ go_signal(w) \/ go_count(w)
    PROVE  WakeInv'
  <1>0. /\ w \in Thread /\ DOMAIN th = Thread /\ DOMAIN th[w] = Fields /\ th[w].then \in Thens
        /\ w # Main /\ w # Outside
    BY Threads, Zenon DEF WakeInv, ShapeOK
  <1>1. CASE worker_loop(w) \/ idle_leave(w) \/ idle_uncount(w) \/ block(w) \/ ctx_switch(w) \/ coco_exit(w)
             \/ handle_coro_done(w)
    <2>1. Moves(w) /\ th'[w].at # "asleep" /\ UNCHANGED <<world, running, lock, idle_lock>>
      BY <1>0, <1>1, ZenonT(40) DEF Moves, Fields, worker_loop, idle_leave, idle_uncount, block,
         ctx_switch,
         coco_exit,
         handle_coro_done, Goto
    <2>2. th[w].at \notin Look \cup {"off"} /\ \A q \in Worker : ~HoldsLock(w, q)
      BY <1>1, Zenon DEF worker_loop, idle_leave, idle_uncount, block, ctx_switch, coco_exit,
         handle_coro_done, Look,
         HoldsLock, GoingTo
    <2> QED
      BY <2>1, <2>2, PlainStep, ZenonT(40)
  <1>2. CASE runq_put_batch(w) \/ coco_yield(w)
    <2>1. Moves(w) /\ th'[w].at # "asleep" /\ UNCHANGED <<world, running, lock, idle_lock>>
      <3>1. CASE runq_put_batch(w)
        BY <1>0, <3>1, ZenonT(40) DEF Moves, Fields, runq_put_batch
      <3>2. CASE coco_yield(w) /\ Full(w)
        <4>1. PICK g : th' = [th EXCEPT ![w].at = "put", ![w].g = g, ![w].then = "switch"]
          BY <3>2, Zenon DEF coco_yield
        <4>2. UNCHANGED <<world, running, lock, idle_lock>>
          BY <3>2, Zenon DEF coco_yield
        <4> QED
          BY <1>0, <4>1, <4>2, ZenonT(40) DEF Moves, Fields, Thens
      <3>3. CASE coco_yield(w) /\ ~Full(w)
        <4>1. th' = [th EXCEPT ![w].at = "switch"] /\ UNCHANGED <<world, running, lock, idle_lock>>
          BY <3>3, Zenon DEF coco_yield, Goto
        <4> QED
          BY <1>0, <4>1, ZenonT(40) DEF Moves, Fields
      <3> QED
        BY <1>2, <3>1, <3>2, <3>3, Zenon
    <2>2. th[w].at \notin Look \cup {"off"} /\ \A q \in Worker : ~HoldsLock(w, q)
      BY <1>2, Zenon DEF runq_put_batch, coco_yield, Look, HoldsLock, GoingTo
    <2> QED
      BY <2>1, <2>2, PlainStep, Zenon
  <1>3. CASE balance(w) \/ balance_collect(w) \/ balance_spread(w)
    <2>1. Moves(w) /\ th'[w].at # "asleep" /\ UNCHANGED <<world, running, lock, idle_lock>>
      <3>1. CASE balance(w)
        BY <1>0, <3>1, ZenonT(40) DEF Moves, Fields, Thens, balance, Worker0, Local
      <3>2. CASE balance_collect(w)
        <4>1. PICK l : th' = [th EXCEPT ![w].at = "spread", ![w].n = 0, ![w].list = l]
          BY <3>2, Zenon DEF balance_collect
        <4>2. UNCHANGED <<world, running, lock, idle_lock>>
          BY <3>2, Zenon DEF balance_collect
        <4> QED
          BY <1>0, <4>1, <4>2, Zenon DEF Moves, Fields
      <3>3. CASE balance_spread(w)
        BY <1>0, <3>3 DEF Moves, Fields, Thens, balance_spread, Worker0, Local
      <3> QED
        BY <1>3, <3>1, <3>2, <3>3, Zenon
    <2>2. th[w].at \notin Look \cup {"off"} /\ \A q \in Worker : ~HoldsLock(w, q)
      BY <1>3, Zenon DEF balance, balance_collect, balance_spread, Look, HoldsLock, GoingTo
    <2> QED
      BY <2>1, <2>2, PlainStep, Zenon
  <1>4. CASE \E c \in Coro : schedule_ready(w, c)
    <2>1. Moves(w) /\ th'[w].at # "asleep" /\ UNCHANGED <<world, running, lock, idle_lock>>
      <3>1. PICK c : schedule_ready(w, c)
        BY <1>4, Zenon
      <3>2. th' = [th EXCEPT ![w].at = "put", ![w].g = c, ![w].then = "body"]
        BY <1>0, <3>1, Zenon DEF schedule_ready
      <3>3. UNCHANGED <<world, running, lock, idle_lock>>
        BY <3>1, Zenon DEF schedule_ready
      <3> QED
        BY <1>0, <3>2, <3>3, Zenon DEF Moves, Fields, Thens
    <2>2. th[w].at \notin Look \cup {"off"} /\ \A q \in Worker : ~HoldsLock(w, q)
      BY <1>0, <1>4, Zenon DEF schedule_ready, MayWake, Look, HoldsLock, GoingTo
    <2> QED
      BY <2>1, <2>2, PlainStep, Zenon
  <1>5. CASE global_runq_put(w) \/ global_runq_peek(w) \/ go_signal(w) \/ go_count(w)
    <2>1. Moves(w) /\ th'[w].at # "asleep" /\ UNCHANGED <<world, running, lock, idle_lock>>
      BY <1>0, <1>5, SMTT(40) DEF Moves, Fields, Thens, global_runq_put, global_runq_peek,
         go_signal,
         go_count
    <2>2. th[w].at \notin Look \cup {"off"}
      BY <1>5, ZenonT(40) DEF global_runq_put, global_runq_peek, go_signal, go_count, Look
    <2>3. \A q \in Worker : HoldsLock(w, q) => HoldsLock(w, q)'
      BY <1>0, <1>5 DEF global_runq_put, global_runq_peek, go_signal, go_count, HoldsLock,
         GoingTo, Fields
    <2> QED
      BY <2>1, <2>2, <2>3, PlainStep, ZenonT(40)
  <1> QED
    BY <1>1, <1>2, <1>3, <1>4, <1>5, Zenon

\* The steps that take or release a local_runq_lock.
LEMMA LockSteps ==
    ASSUME WakeInv, NEW w \in P,
           \/ (\E p \in P : coco_go(w, p)) \/ runq_put(w) \/ push_overflow(w) \/ push_one(w)
    PROVE  WakeInv'
  <1>0. /\ w \in Thread /\ DOMAIN th = Thread /\ DOMAIN th[w] = Fields /\ th[w].then \in Thens
        /\ w # Main /\ w \in Worker /\ P \subseteq Worker /\ DOMAIN lock = Worker
    BY Threads, ZenonT(40) DEF WakeInv, ShapeOK, LocksOK
  <1>a. \A q \in Worker : lock[q] = w => HoldsLock(w, q)
    BY <1>0, Threads DEF WakeInv, LocksOK, ShapeOK
  <1>1. Moves(w) /\ th'[w].at # "asleep" /\ UNCHANGED <<world, running, idle_lock>>
    <2>1. CASE \E p \in P : coco_go(w, p)
      <3>1. PICK p \in P : coco_go(w, p)
        BY <2>1, Zenon
      <3>2. PICK c : th' = [th EXCEPT ![w].at = "go_put", ![w].g = c, ![w].n = p]
        BY <3>1, Zenon DEF coco_go
      <3>3. UNCHANGED <<world, running, idle_lock>>
        BY <3>1, Zenon DEF coco_go
      <3> QED
        BY <1>0, <3>2, <3>3, Zenon DEF Moves, Fields
    <2>2. CASE runq_put(w)
      BY <1>0, <2>2 DEF Moves, Fields, Thens, runq_put
    <2>3. CASE push_overflow(w)
      BY <1>0, <2>3, ZenonT(40) DEF Moves, Fields, Thens, push_overflow, Goto
    <2>4. CASE push_one(w)
      BY <1>0, <2>4 DEF Moves, Fields, Thens, push_one, Goto
    <2> QED
      BY <2>1, <2>2, <2>3, <2>4, Zenon
  <1>2. th[w].at \notin Look \cup {"off"}
    BY <1>0, Zenon DEF coco_go, MayGo, runq_put, push_overflow, push_one, Look
  <1>4. LockStep(w)
    <2>1. CASE \E p \in P : coco_go(w, p)
      <3>1. PICK p \in P : coco_go(w, p)
        BY <2>1, Zenon
      <3>2. PICK c : th' = [th EXCEPT ![w].at = "go_put", ![w].g = c, ![w].n = p]
        BY <3>1, Zenon DEF coco_go
      <3>3. lock' = [lock EXCEPT ![p] = w] /\ \A q \in Worker : lock[q] # w
        BY <1>0, <1>a, <3>1, Zenon DEF coco_go, MayGo, HoldsLock, GoingTo
      <3>4. HoldsLock(w, p)'
        BY <1>0, <3>2, Zenon DEF HoldsLock, Fields
      <3> QED
        BY <1>0, <3>3, <3>4, Zenon DEF LockStep
    <2>2. CASE runq_put(w)
      BY <1>0, <1>a, <2>2, Zenon DEF LockStep, runq_put, HoldsLock, GoingTo, Fields
    <2>3. CASE push_overflow(w)
      <3>1. \A q \in Worker : lock[q] # w
        BY <1>a, <2>3, Zenon DEF push_overflow, HoldsLock, GoingTo
      <3>2. CASE lock' = lock
        BY <1>0, <3>1, <3>2, Zenon DEF LockStep
      <3>3. CASE lock' # lock
        <4>1. lock' = [lock EXCEPT ![w] = w] /\ \E l : th' = [th EXCEPT ![w].at = "push", ![w].list = l]
          BY <2>3, <3>3, Zenon DEF push_overflow
        <4>2. HoldsLock(w, w)'
          BY <1>0, <4>1, ZenonT(40) DEF HoldsLock, Fields
        <4> QED
          BY <1>0, <3>1, <4>1, <4>2, Zenon DEF LockStep
      <3> QED
        BY <3>2, <3>3, Zenon
    <2>4. CASE push_one(w)
      BY <1>0, <1>a, <2>4, SMTT(40) DEF LockStep, push_one, HoldsLock, GoingTo, Fields, Goto
    <2> QED
      BY <2>1, <2>2, <2>3, <2>4, Zenon
  <1>5. LocksOK'
    BY <1>1, <1>4, LocksKept, Zenon
  <1> QED
    BY <1>1, <1>2, <1>5, NotIdle, WorkerMoves, Zenon

\* The steps of a worker that finds a coroutine.
LEMMA FoundStep ==
    ASSUME WakeInv, NEW w \in P, th[w].at \in Look, Moves(w), th'[w].at \in {"body", "batch"},
           UNCHANGED <<world, running, lock>>,
           idle_lock' = IF idle_lock = w THEN None ELSE idle_lock
    PROVE  WakeInv'
  <1>1. idle_lock' \in {idle_lock, None} /\ idle_lock' # w
    BY Threads, Zenon DEF WakeInv, ShapeOK
  <1>2. \A q \in Worker : ~HoldsLock(w, q)
    BY Zenon DEF HoldsLock, GoingTo, Look
  <1> QED
    BY <1>1, <1>2, LocksSame, WorkerMoves, Zenon DEF Look

\* runq_get(), and the two steps of coco_global_runq_get().
LEMMA FindSteps ==
    ASSUME WakeInv, NEW w \in P, runq_get(w) \/ global_runq_load(w) \/ global_runq_cas(w)
    PROVE  WakeInv'
  <1>0. /\ w \in Thread /\ DOMAIN th = Thread /\ DOMAIN th[w] = Fields /\ th[w].then \in Thens
        /\ th[w].at \in Look
    BY Threads, Zenon DEF WakeInv, ShapeOK, runq_get, global_runq_load, global_runq_cas, Look
  <1>1. CASE runq_get(w) /\ runq[w] # <<>>
    <2>1. /\ Moves(w) /\ th'[w].at = "body" /\ UNCHANGED <<world, running, lock>>
          /\ idle_lock' = IF idle_lock = w THEN None ELSE idle_lock
      BY <1>0, <1>1 DEF runq_get, RunIt, Moves, Goto, Fields
    <2> QED
      BY <1>0, <2>1, FoundStep, Zenon
  <1>2. CASE runq_get(w) /\ runq[w] = <<>>
    <2>1. /\ Moves(w) /\ th'[w].at = "global" /\ UNCHANGED <<world, running, lock, idle_lock, runq, head>>
      BY <1>0, <1>2, ZenonT(40) DEF runq_get, Moves, Goto, Fields
    <2>2. Empty(w)
      BY <1>2, Zenon DEF Empty
    <2>3. th'[w].at \in Look /\ th'[w].at # "find" /\ (th'[w].at = "steal" => head = None)
      BY <2>1, Zenon DEF Look
    <2> QED
      BY <1>0, <2>1, <2>2, <2>3, WorkerLooks, Zenon
  <1>3. CASE global_runq_load(w)
    <2>1. /\ Moves(w) /\ th'[w].at \in {"steal", "cas"} /\ (th'[w].at = "steal" => head = None)
          /\ UNCHANGED <<world, running, lock, idle_lock, runq, head>> /\ th[w].at = "global"
      BY <1>0, <1>3, Zenon DEF global_runq_load, Moves, Fields
    <2>2. th'[w].at \in Look /\ th'[w].at # "find" /\ th[w].at # "find"
      BY <2>1, ZenonT(40) DEF Look
    <2> QED
      BY <1>0, <2>1, <2>2, WorkerLooks, Zenon
  <1>4. CASE global_runq_cas(w) /\ head = th[w].old
    <2>1. /\ Moves(w) /\ th'[w].at = "body" /\ UNCHANGED <<world, running, lock>>
          /\ idle_lock' = IF idle_lock = w THEN None ELSE idle_lock
      BY <1>0, <1>4 DEF global_runq_cas, RunIt, Moves, Fields
    <2> QED
      BY <1>0, <2>1, FoundStep, Zenon
  <1>5. CASE global_runq_cas(w) /\ head # th[w].old
    <2>1. /\ Moves(w) /\ th'[w].at = "global" /\ UNCHANGED <<world, running, lock, idle_lock, runq, head>>
          /\ th[w].at = "cas"
      BY <1>0, <1>5, SMTT(40) DEF global_runq_cas, Moves, Fields
    <2> QED
      BY <1>0, <2>1, WorkerLooks, ZenonT(40) DEF Look
  <1> QED
    BY <1>1, <1>2, <1>3, <1>4, <1>5, Zenon

\* The others are all tried: the one that is p comes i places after w.
LEMMA AllTried ==
    ASSUME NEW n \in Nat \ {0}, NEW w \in 1..n, NEW p \in 1..n, p # w
    PROVE  \E i \in 1..(n - 1) : ((w - 1 + i) % n) + 1 = p
  <1>1. CASE p > w
    <2>1. (w - 1 + (p - w)) % n = p - 1
      <3>1. w - 1 + (p - w) = p - 1 /\ p - 1 \in 0..(n - 1)
        OBVIOUS
      <3>2. \A k \in 0..(n - 1) : k % n = k
        OBVIOUS
      <3> QED
        BY <3>1, <3>2, Zenon
    <2>2. p - w \in 1..(n - 1)
      BY <1>1
    <2>3. ((w - 1 + (p - w)) % n) + 1 = p
      BY <2>1
    <2> QED
      BY ONLY <2>2, <2>3, Zenon
  <1>2. CASE p < w
    <2>1. (w - 1 + (p - w + n)) % n = p - 1
      <3>1. w - 1 + (p - w + n) = p - 1 + n /\ p - 1 \in 0..(n - 1)
        OBVIOUS
      <3>2. \A k \in 0..(n - 1) : (k + n) % n = k
        OBVIOUS
      <3> QED
        BY <3>1, <3>2, Zenon
    <2>2. p - w + n \in 1..(n - 1)
      BY <1>2, SMTT(40)
    <2>3. ((w - 1 + (p - w + n)) % n) + 1 = p
      BY <2>1
    <2> QED
      BY ONLY <2>2, <2>3, Zenon
  <1> QED
    BY <1>1, <1>2

\* A worker that steals, or finds nothing to steal.
LEMMA StealStep ==
    ASSUME Library, WakeInv, NEW w \in P, runq_steal(w)
    PROVE  WakeInv'
  <1>0. /\ w \in Thread /\ DOMAIN th = Thread /\ DOMAIN th[w] = Fields /\ th[w].then \in Thens
        /\ th[w].at \in Look /\ th[w].at = "steal" /\ UNCHANGED <<world, running, lock, head>>
        /\ P \subseteq Thread /\ P \subseteq Worker /\ Main \in Thread /\ Main \notin P /\ None \notin Worker
        /\ P' = P
    BY Threads, Zenon DEF WakeInv, ShapeOK, runq_steal, Look, P
  <1>1. PICK skip \in SUBSET {q \in P \ {w} : Busy(w, q)} :
          IF Victim(w, skip) = None
          THEN NotFound(w) /\ UNCHANGED runq
          ELSE /\ idle_lock' = IF idle_lock = w THEN None ELSE idle_lock
               /\ \E a \in {"body", "batch"} : \E l : th' = [th EXCEPT ![w].at = a, ![w].list = l]
    BY ZenonT(40) DEF runq_steal, RunIt
  <1>a. \A q \in Worker : ~HoldsLock(w, q)
    BY <1>0 DEF HoldsLock, GoingTo
  <1>2. CASE Victim(w, skip) # None
    <2>1. Moves(w) /\ th'[w].at \in {"body", "batch"} /\ idle_lock' = IF idle_lock = w THEN None ELSE idle_lock
      BY <1>0, <1>1, <1>2, SMTT(40) DEF Moves, Fields
    <2> QED
      BY <1>0, <2>1, FoundStep, ZenonT(40)
  <1>3. CASE Victim(w, skip) = None /\ idle_lock # w
    <2>1. Moves(w) /\ th'[w].at = "idle" /\ idle_lock' = idle_lock
      BY <1>0, <1>1, <1>3, SMTT(40) DEF NotFound, Moves, Goto, Fields
    <2>2. LocksOK'
      BY <1>0, <1>a, <2>1, LocksSame, Zenon
    <2> QED
      BY <1>0, <1>3, <2>1, <2>2, WorkerMoves, ZenonT(40)
  <1>4. CASE Victim(w, skip) = None /\ idle_lock = w
    <2>0. Moves(w) /\ th'[w].at = "asleep" /\ idle_lock' = None /\ runq' = runq
      BY <1>0, <1>1, <1>4, SMTT(40) DEF NotFound, Moves, Goto, Fields
    <2>a. Main # w /\ th'[Main] = th[Main]
      BY <1>0, <2>0 DEF Moves
    <2>b. Pend' <=> Pend
      BY <2>a DEF Pend, GoingTo
    <2>c. \A x \in P \ {w} : th[x].at # "asleep" => Awake'
      BY <1>0, <2>0 DEF Awake, Moves
    <2>1. LocksOK'
      BY <1>0, <1>a, <2>0, LocksSame, Zenon
    <2>2. ShapeOK'
      BY <1>0, <2>0, Zenon DEF WakeInv, ShapeOK, Moves
    <2>3. IdleOK'
      BY <1>0, <2>0, ZenonT(40) DEF IdleOK
    <2>4. MainOK'
      <3>1. \A t \in Thread \ (P \cup {Main}) : th'[t] = th[t]
        BY <2>0, Zenon DEF Moves
      <3>2. th[Main].at # "join" /\ ~(\A x \in P : th[x].at = "off")
        BY <1>0, <1>4, Zenon DEF WakeInv, MainOK
      <3> QED
        BY <1>0, <2>0, <2>a, <3>1, <3>2, SMTT(40) DEF WakeInv, MainOK, StopIsSeen
    <2>5. WorkSeen'
      <3>1. ASSUME NEW p \in P, runq[p] # <<>> PROVE Pend \/ Awake'
        <4>1. CASE p = w
          <5>1. Pend \/ Awake
            BY <1>0, <1>4, <3>1, <4>1, Zenon DEF WakeInv, WorkSeen
          <5> QED
            BY <5>1, <1>4, <2>c, Zenon DEF Awake
        <4>2. CASE p # w
          <5>1. Busy(w, p)
            <6>1. world.workers \in Nat \ {0} /\ w \in 1..world.workers /\ p \in 1..world.workers
              BY MTSchedAssumption DEF WakeInv, ShapeOK, P
            <6>2. PICK i \in 1..(world.workers - 1) : ((w - 1 + i) % world.workers) + 1 = p
              BY <4>2, <6>1, AllTried, ZenonT(40)
            <6>3. p \in skip
              <7> DEFINE nth(j) == ((w - 1 + j) % world.workers) + 1
                         good == {j \in 1..(world.workers - 1) : nth(j) \notin skip /\ runq[nth(j)] # <<>>}
              <7>1. good = {}
                <8>1. SUFFICES ASSUME good # {} PROVE FALSE
                  BY Zenon
                <8>2. \A j \in 1..(world.workers - 1) : nth(j) \in Worker
                  BY <1>0, <6>1, SMTT(40) DEF P
                <8>6. good \subseteq Nat
                  BY <6>1
                <8> HIDE DEF good
                <8>3. PICK k \in good : \A j \in good : k <= j
                  BY <8>1, <8>6, LeastExists, Zenon
                <8>4. (CHOOSE k2 \in good : \A j \in good : k2 <= j) \in good
                  BY <8>3, Zenon
                <8> USE DEF good
                <8>5. Victim(w, skip) = nth(CHOOSE k2 \in good : \A j \in good : k2 <= j)
                  BY <8>1, Zenon DEF Victim
                <8> QED
                  BY <1>0, <1>4, <8>2, <8>4, <8>5, ZenonT(40)
              <7> QED
                BY <6>2, <7>1, <3>1, Zenon
            <6> QED
              BY <6>3, Zenon
          <5>2. CASE lock[p] # None
            <6>1. lock[p] \in P \cup {Main} /\ HoldsLock(lock[p], p)
              BY <1>0, <5>2, ZenonT(40) DEF WakeInv, LocksOK
            <6>2. CASE lock[p] = Main
              BY <1>0, <6>1, <6>2, Zenon DEF HoldsLock, Pend
            <6>3. CASE lock[p] \in P
              BY <1>0, <1>a, <6>1, <6>3, <2>c, ZenonT(40) DEF HoldsLock, GoingTo
            <6> QED
              BY <6>1, <6>2, <6>3, ZenonT(40)
          <5>3. CASE th[p].at \in {"find", "batch"}
            BY <4>2, <5>3, <2>c, Zenon
          <5>4. CASE \E x \in P \ {w} : th[x].at = "steal"
            BY <5>4, <2>c, Zenon
          <5> QED
            BY <5>1, <5>2, <5>3, <5>4, ZenonT(40) DEF Busy
        <4> QED
          BY <4>1, <4>2, Zenon
      <3>2. ASSUME head # None PROVE Pend \/ Awake'
        <4>1. Pend \/ Awake
          BY <1>0, <1>4, <3>2, Zenon DEF WakeInv, WorkSeen
        <4> QED
          BY <4>1, <1>4, <2>c, Zenon DEF Awake
      <3> QED
        BY <1>0, <2>0, <2>b, <3>1, <3>2, ZenonT(40) DEF WorkSeen
    <2> QED
      BY <2>1, <2>2, <2>3, <2>4, <2>5, ZenonT(40) DEF WakeInv
  <1> QED
    BY <1>2, <1>3, <1>4, Zenon

\* A worker with nothing to do takes idle_lock.
LEMMA IdleStep ==
    ASSUME WakeInv, NEW w \in P, idle_enter(w)
    PROVE  WakeInv'
  <1>0. /\ w \in Thread /\ DOMAIN th = Thread /\ DOMAIN th[w] = Fields /\ th[w].then \in Thens
        /\ w # Main /\ Main \in Thread /\ P \subseteq Thread /\ th[w].at = "idle" /\ idle_lock = None /\ None # w
        /\ P' = P /\ UNCHANGED <<world, running, lock, runq, head>>
    BY Threads, Zenon DEF WakeInv, ShapeOK, idle_enter, P
  <1>1. Moves(w) /\ th'[w].at = IF running THEN "find" ELSE "exit"
    BY <1>0 DEF idle_enter, Goto, Moves, Fields
  <1>2. LocksOK'
    <2>1. \A q \in Worker : ~HoldsLock(w, q)
      BY <1>0, Zenon DEF HoldsLock, GoingTo
    <2> QED
      BY <1>0, <1>1, <2>1, LocksSame, Zenon
  <1>3. CASE ~running
    <2>1. idle_lock' = None
      BY <1>0, <1>3, Zenon DEF idle_enter
    <2> QED
      BY <1>0, <1>1, <1>2, <1>3, <2>1, WorkerMoves, ZenonT(40)
  <1>4. CASE running
    <2>0. idle_lock' = w
      BY <1>0, <1>4, Zenon DEF idle_enter
    <2>1. ShapeOK'
      BY <1>0, <1>1, Zenon DEF WakeInv, ShapeOK, Moves
    <2>2. IdleOK'
      BY <1>0, <1>1, <1>4, <2>0, Zenon DEF IdleOK, Look
    <2>3. MainOK'
      <3>1. \A t \in Thread \ (P \cup {Main}) : th'[t] = th[t]
        BY <1>1, Zenon DEF Moves
      <3>2. th'[Main] = th[Main] /\ th[Main].at # "join"
        BY <1>0, <1>1, <1>4, Zenon DEF WakeInv, MainOK, Moves
      <3> QED
        BY <1>0, <1>4, <3>1, <3>2, Zenon DEF WakeInv, MainOK, StopIsSeen
    <2>4. WorkSeen'
      BY <1>0, <1>1, <1>4, <2>0, Zenon DEF WorkSeen
    <2> QED
      BY <1>2, <2>1, <2>2, <2>3, <2>4, ZenonT(40) DEF WakeInv
  <1> QED
    BY <1>3, <1>4, Zenon

\* A signal to idle_cond that is to wake somebody leaves no worker asleep, or
\* wakes one.
LEMMA SignalWakes ==
    ASSUME Library, WakeInv, NEW S \in Woken(1)
    PROVE  \E w \in P : w \in S \/ th[w].at # "asleep"
  <1>0. IsFiniteSet(Asleep) /\ P # {}
    <2>1. IsFiniteSet(P) /\ P # {}
      BY MTSchedAssumption, FiniteInterval DEF WakeInv, ShapeOK, P
    <2> QED
      BY <2>1, FiniteSubset, Zenon DEF Asleep
  <1>1. S \subseteq Asleep /\ IsFiniteSet(S) /\ Cardinality(S) \in Nat /\ Cardinality(Asleep) \in Nat
    BY <1>0, FiniteSubset, FiniteSize, Zenon DEF Woken
  <1>2. CASE S = {}
    <2>1. Cardinality(S) = 0
      BY <1>2, EmptySize, Zenon
    <2>2. Cardinality(Asleep) = 0
      BY <1>1, <2>1 DEF Woken
    <2>3. Asleep = {}
      BY <1>0, <2>2, EmptySize, Zenon
    <2> QED
      BY <1>0, <2>3, Zenon DEF Asleep
  <1>3. CASE S # {}
    BY <1>1, <1>3, Zenon DEF Asleep
  <1> QED
    BY <1>2, <1>3, Zenon

\* A thread signals idle_cond.
LEMMA SignalStep ==
    ASSUME Library, WakeInv, NEW t \in P \cup {Main}, signal(t)
    PROVE  WakeInv'
  <1>0. /\ t \in Thread /\ DOMAIN th = Thread /\ Main \in Thread /\ P \subseteq Thread /\ Main \notin P /\ P' = P
        /\ \A x \in Thread : DOMAIN th[x] = Fields /\ th[x].then \in Thens
        /\ th[t].at = "signal" /\ idle_lock = None /\ UNCHANGED <<world, running, lock, runq, head, idle_lock>>
    BY Threads, Zenon DEF WakeInv, ShapeOK, signal, P
  <1>1. PICK S \in Woken(th[t].n) :
          th' = [x \in Thread |-> IF x \in S THEN [th[x] EXCEPT !.at = "woken"]
                                 ELSE IF x = t THEN [th[x] EXCEPT !.at = th[t].then, !.n = 0]
                                 ELSE th[x]]
    BY Zenon DEF signal
  <1>2. S \subseteq Asleep /\ t \notin S /\ Main \notin S /\ S \subseteq P
    BY <1>0, Zenon DEF Woken, Asleep
  <1>3. /\ DOMAIN th' = Thread
        /\ \A x \in Thread : DOMAIN th'[x] = Fields /\ th'[x].then = th[x].then
        /\ \A x \in S : th'[x].at = "woken"
        /\ th'[t].at = th[t].then /\ th'[t].n = 0
        /\ \A x \in Thread \ (S \cup {t}) : th'[x] = th[x]
    BY <1>0, <1>1, <1>2, Zenon DEF Fields
  <1> HIDE DEF Woken
  <1>4. ShapeOK'
    BY <1>0, <1>3, Zenon DEF WakeInv, ShapeOK
  <1>5. LocksOK'
    <2>1. ASSUME NEW q \in Worker, lock[q] # None PROVE HoldsLock(lock[q], q)' /\ lock[q] \in P \cup {Main}
      <3>1. lock[q] \in P \cup {Main} /\ HoldsLock(lock[q], q)
        BY <2>1, Zenon DEF WakeInv, LocksOK
      <3>2. lock[q] \notin S
        BY <1>2, <3>1, Zenon DEF Asleep, HoldsLock, GoingTo
      <3>3. CASE lock[q] # t
        <4>1. th'[lock[q]] = th[lock[q]]
          BY <1>0, <1>3, <3>1, <3>2, <3>3, ZenonT(40)
        <4> QED
          BY <1>0, <3>1, <4>1, ZenonT(40) DEF HoldsLock, GoingTo
      <3>4. CASE lock[q] = t
        BY <1>0, <1>3, <3>1, <3>4, ZenonT(40) DEF HoldsLock, GoingTo
      <3> QED
        BY <3>1, <3>3, <3>4, Zenon
    <2> QED
      BY <1>0, <2>1, Zenon DEF WakeInv, LocksOK
  <1>6. IdleOK'
    BY <1>0, Threads, Zenon DEF IdleOK, WakeInv, ShapeOK
  <1>7. CASE t # Main
    <2>0. t \in P /\ th'[Main] = th[Main] /\ th'[t].at # "asleep"
      BY <1>0, <1>2, <1>3, <1>7, Zenon DEF Thens
    <2>1. MainOK'
      <3>1. \A x \in Thread \ (P \cup {Main}) : th'[x] = th[x]
        BY <1>2, <1>3, <2>0, ZenonT(40)
      <3>2. th[Main].at = "join" => Asleep' = {}
        BY <1>0, <1>2, <1>3, <2>0, SMTT(40) DEF WakeInv, MainOK, StopIsSeen, Asleep
      <3>3. ~(\A x \in P : th[x].at = "off")
        BY <1>0, <2>0, Zenon
      <3> QED
        BY <1>0, <2>0, <3>1, <3>2, <3>3, ZenonT(40) DEF WakeInv, MainOK, StopIsSeen
    <2>2. WorkSeen'
      <3>1. Awake'
        BY <1>0, <2>0, Threads, ZenonT(40) DEF Awake, WakeInv, ShapeOK
      <3> QED
        BY <3>1, Zenon DEF WorkSeen
    <2> QED
      BY <1>4, <1>5, <1>6, <2>1, <2>2, ZenonT(40) DEF WakeInv
  <1>8. CASE t = Main
    <2>1. th'[Main].at \in {"go_signal", "go_count"} /\ th'[Main].at = th[Main].then
      BY <1>0, <1>3, <1>8, ZenonT(40) DEF WakeInv, MainOK
    <2>2. MainOK'
      <3>1. \A x \in Thread \ (P \cup {Main}) : th'[x] = th[x]
        BY <1>2, <1>3, <1>8, Zenon
      <3>2. ~running => \A x \in P : th'[x].at = "off"
        <4>1. ~running => \A x \in P : th[x].at = "off"
          BY <1>0, <1>8, Zenon DEF WakeInv, MainOK
        <4> QED
          BY <1>0, <1>2, <1>3, <1>8, <4>1, ZenonT(40) DEF Asleep
      <3> QED
        BY <1>0, <2>1, <3>1, <3>2, SMTT(40) DEF WakeInv, MainOK, StopIsSeen
    <2>3. WorkSeen'
      <3>1. CASE th[Main].then = "go_signal"
        BY <2>1, <3>1, ZenonT(40) DEF WorkSeen, Pend
      <3>2. CASE th[Main].then # "go_signal"
        <4>1. th[t].n = 1
          BY <1>0, <1>8, <3>2, Zenon DEF WakeInv, MainOK
        <4>2. PICK w \in P : w \in S \/ th[w].at # "asleep"
          BY <1>1, <4>1, SignalWakes, Zenon
        <4>3. th'[w].at # "asleep" /\ idle_lock' # w
          BY <1>0, <1>3, <1>8, <4>2, Threads, ZenonT(40) DEF WakeInv, ShapeOK
        <4>4. Awake'
          BY <1>0, <4>3, Zenon DEF Awake
        <4> QED
          BY <4>4, Zenon DEF WorkSeen
      <3> QED
        BY <3>1, <3>2, Zenon
    <2> QED
      BY <1>4, <1>5, <1>6, <2>2, <2>3, Zenon DEF WakeInv
  <1> QED
    BY <1>7, <1>8, Zenon

\* The main thread moves on.
LEMMA MainMoves ==
    ASSUME WakeInv, Moves(Main), LocksOK', UNCHANGED <<world, idle_lock>>, running' \in {running, FALSE},
           th'[Main].at \in {"off", "main", "waited", "go_put", "go_signal", "go_count", "put", "peek",
                             "signal", "broadcast"},
           th'[Main].at \in {"put", "peek"} => th'[Main].then = "go_signal",
           th'[Main].at = "signal" => \/ th'[Main].then = "go_signal"
                                      \/ th'[Main].then = "go_count" /\ th'[Main].n = 1,
           th'[Main].at \in {"main", "waited"} => running',
           th'[Main].at \in {"off", "broadcast"} => ~running',
           th[Main].at \notin {"broadcast", "join"}, running' # running => th'[Main].at = "broadcast",
           Pend' \/ (~Pend /\ UNCHANGED <<runq, head>>)
    PROVE  WakeInv'
  <1>0. P' = P /\ P \subseteq Thread /\ Main \in Thread /\ Main \notin P /\ world' \in Worlds
    BY Threads, Zenon DEF WakeInv, ShapeOK, P
  <1>1. ShapeOK'
    BY <1>0, Zenon DEF WakeInv, ShapeOK, Moves
  <1>2. IdleOK'
    BY <1>0, Zenon DEF WakeInv, IdleOK, Moves
  <1>3. MainOK'
    <2>1. \A t \in Thread \ (P \cup {Main}) : th'[t].at = "off"
      BY Zenon DEF Moves, WakeInv, MainOK
    <2>2. ~running' /\ th'[Main].at \notin {"broadcast", "join"} => \A w \in P : th'[w].at = "off"
      BY <1>0, Zenon DEF Moves, WakeInv, MainOK
    <2> QED
      BY <1>0, <2>1, <2>2, Zenon DEF MainOK, StopIsSeen
  <1>4. WorkSeen'
    <2>1. CASE Pend'
      BY <2>1, ZenonT(40) DEF WorkSeen
    <2>2. CASE ~Pend /\ UNCHANGED <<runq, head>>
      <3>1. \A w \in P : th'[w] = th[w]
        BY <1>0, Zenon DEF Moves
      <3>2. Awake => Awake'
        BY <1>0, <3>1, Zenon DEF Awake
      <3> QED
        BY <1>0, <2>2, <3>1, <3>2, SMTT(40) DEF WakeInv, WorkSeen
    <2> QED
      BY <2>1, <2>2, Zenon
  <1> QED
    BY <1>1, <1>2, <1>3, <1>4, Zenon DEF WakeInv

\* The main thread in coco_go().
LEMMA MainGoes ==
    ASSUME WakeInv,
           \/ global_runq_put(Main) \/ global_runq_peek(Main) \/ runq_put(Main) \/ go_signal(Main)
           \/ go_count(Main) \/ \E p \in P : coco_go(Main, p)
    PROVE  WakeInv'
  <1>0. /\ Main \in Thread /\ DOMAIN th = Thread /\ DOMAIN th[Main] = Fields /\ th[Main].then \in Thens
        /\ Main \notin P /\ Main \notin Worker /\ P \subseteq Worker /\ DOMAIN lock = Worker
    BY MTSchedAssumption, Threads, ZenonT(40) DEF WakeInv, ShapeOK, LocksOK
  <1>a. \A q \in Worker : lock[q] = Main => HoldsLock(Main, q)
    BY MTSchedAssumption DEF WakeInv, LocksOK, Thread
  <1>m. MainOK
    BY DEF WakeInv
  <1>1. CASE global_runq_put(Main)
    <2>1. Moves(Main) /\ th'[Main].at = "peek" /\ th'[Main].then = "go_signal"
          /\ UNCHANGED <<world, idle_lock, running, lock>>
      BY <1>0, <1>1, <1>m, Zenon DEF global_runq_put, Moves, Fields, MainOK
    <2>2. LocksOK' /\ Pend'
      <3>1. \A q \in Worker : ~HoldsLock(Main, q)
        BY <1>0, <1>1, Zenon DEF global_runq_put, HoldsLock, GoingTo
      <3> QED
        BY <2>1, <3>1, LocksSame, Zenon DEF Pend, GoingTo
    <2> QED
      BY <1>1, <2>1, <2>2, MainMoves, ZenonT(40) DEF global_runq_put
  <1>2. CASE global_runq_peek(Main)
    <2>1. Moves(Main) /\ th'[Main].at \in {"signal", "go_signal"} /\ th'[Main].then = "go_signal"
          /\ UNCHANGED <<world, idle_lock, running, lock>>
      BY <1>0, <1>2, <1>m, Zenon DEF global_runq_peek, Moves, Fields, MainOK
    <2>2. LocksOK' /\ Pend'
      <3>1. \A q \in Worker : ~HoldsLock(Main, q)
        BY <1>0, <1>2, Zenon DEF global_runq_peek, HoldsLock, GoingTo
      <3> QED
        BY <2>1, <3>1, LocksSame, Zenon DEF Pend, GoingTo
    <2> QED
      BY <1>2, <2>1, <2>2, MainMoves, ZenonT(40) DEF global_runq_peek
  <1>3. CASE runq_put(Main)
    <2>1. Moves(Main) /\ UNCHANGED <<world, idle_lock, running>>
          /\ (\/ th'[Main].at = "go_signal"
              \/ th'[Main].at = "put" /\ th'[Main].then = "go_signal")
      <3>1. UNCHANGED <<world, idle_lock, running>>
        BY <1>3, Zenon DEF runq_put
      <3>2. CASE th' = [th EXCEPT ![Main].at = "put", ![Main].n = 0, ![Main].then = "go_signal"]
        BY <1>0, <3>1, <3>2, Zenon DEF Moves, Fields, Thens
      <3>3. CASE th' = [th EXCEPT ![Main].at = "go_signal", ![Main].n = 0, ![Main].g = None]
        <4>1. Moves(Main) /\ th'[Main].at = "go_signal"
          BY <1>0, <3>3, Zenon DEF Moves, Fields, Thens
        <4> QED
          BY <3>1, <4>1, Zenon
      <3> QED
        BY <1>3, <3>2, <3>3, Zenon DEF runq_put
    <2>2. LockStep(Main)
      BY <1>0, <1>a, <1>3, ZenonT(40) DEF LockStep, runq_put, HoldsLock, GoingTo, Fields
    <2>3. LocksOK' /\ Pend'
      BY <2>1, <2>2, LocksKept, Zenon DEF Pend, GoingTo
    <2> QED
      BY <1>3, <2>1, <2>3, MainMoves, ZenonT(40) DEF runq_put
  <1>4. CASE go_signal(Main)
    <2>1. Moves(Main) /\ th'[Main].at = "signal" /\ th'[Main].then = "go_count" /\ th'[Main].n = 1
          /\ UNCHANGED <<world, idle_lock, running, lock>>
      BY <1>0, <1>4, Zenon DEF go_signal, Moves, Fields, Thens
    <2>2. LocksOK' /\ Pend'
      <3>1. \A q \in Worker : ~HoldsLock(Main, q)
        BY <1>0, <1>4, ZenonT(40) DEF go_signal, HoldsLock, GoingTo
      <3> QED
        BY <2>1, <3>1, LocksSame, ZenonT(40) DEF Pend, GoingTo
    <2> QED
      BY <1>4, <2>1, <2>2, MainMoves, ZenonT(40) DEF go_signal
  <1>5. CASE go_count(Main)
    <2>1. Moves(Main) /\ th'[Main].at = (IF running THEN "main" ELSE "off")
          /\ UNCHANGED <<world, idle_lock, running, lock, runq, head>>
      BY <1>0, <1>5, Zenon DEF go_count, Moves, Fields, Thens
    <2>2. LocksOK'
      <3>1. \A q \in Worker : ~HoldsLock(Main, q)
        BY <1>0, <1>5, Zenon DEF go_count, HoldsLock, GoingTo
      <3> QED
        BY <2>1, <3>1, LocksSame, ZenonT(40)
    <2>3. ~Pend
      BY <1>5, Zenon DEF go_count, Pend, GoingTo
    <2> QED
      BY <1>5, <2>1, <2>2, <2>3, MainMoves, SMTT(40) DEF go_count
  <1>6. CASE \E p \in P : coco_go(Main, p)
    <2>1. PICK p \in P : coco_go(Main, p)
      BY <1>6, Zenon
    <2>2. PICK c : th' = [th EXCEPT ![Main].at = "go_put", ![Main].g = c, ![Main].n = p]
      BY <2>1, Zenon DEF coco_go
    <2>3. th[Main].at \in {"off", "main", "waited"} /\ UNCHANGED <<world, idle_lock, running>>
      BY <1>0, <2>1, Zenon DEF coco_go, MayGo
    <2>4. lock' = [lock EXCEPT ![p] = Main] /\ \A q \in Worker : lock[q] # Main
      BY <1>0, <1>a, <2>1, <2>3, ZenonT(40) DEF coco_go, HoldsLock, GoingTo
    <2>5. Moves(Main) /\ th'[Main].at = "go_put" /\ HoldsLock(Main, p)'
      BY <1>0, <2>2, Zenon DEF Moves, Fields, HoldsLock
    <2>6. LockStep(Main)
      BY <1>0, <2>4, <2>5, Zenon DEF LockStep
    <2>7. LocksOK' /\ Pend'
      BY <2>3, <2>5, <2>6, LocksKept, Zenon DEF Pend
    <2> QED
      BY <2>3, <2>5, <2>7, MainMoves, Zenon
  <1> QED
    BY <1>1, <1>2, <1>3, <1>4, <1>5, <1>6, ZenonT(40)

\* The main thread waits for the workers, or stops them.
LEMMA MainWaits ==
    ASSUME WakeInv, coco_global_sched_wait \/ coco_global_sched_stop
    PROVE  WakeInv'
  <1>0. /\ Main \in Thread /\ DOMAIN th = Thread /\ DOMAIN th[Main] = Fields /\ th[Main].then \in Thens
        /\ Main \notin Worker /\ th[Main].at \in {"main", "waited"} /\ running
    BY MTSchedAssumption, Threads, Zenon DEF WakeInv, ShapeOK, MainOK, coco_global_sched_wait,
       coco_global_sched_stop
  <1>1. /\ Moves(Main) /\ UNCHANGED <<world, idle_lock, lock, runq, head>>
        /\ \/ th'[Main].at = "waited" /\ running' = running
           \/ th'[Main].at = "broadcast" /\ running' = FALSE
    BY <1>0, Zenon DEF coco_global_sched_wait, coco_global_sched_stop, Goto, Moves, Fields
  <1>2. LocksOK' /\ ~Pend
    <2>1. \A q \in Worker : ~HoldsLock(Main, q)
      BY <1>0, Zenon DEF HoldsLock, GoingTo
    <2> QED
      BY <1>0, <1>1, <2>1, LocksSame, Zenon DEF Pend, GoingTo
  <1> QED
    BY <1>0, <1>1, <1>2, MainMoves, ZenonT(40)

\* The workers are started.
LEMMA StartStep ==
    ASSUME WakeInv, coco_global_sched_start
    PROVE  WakeInv'
  <1>0. /\ Main \in Thread /\ P \subseteq Thread /\ P # {} /\ Main \notin P /\ P' = P /\ None \notin P
        /\ th[Main].at = "off" /\ UNCHANGED <<world, lock, idle_lock, runq, head>> /\ running'
    BY Threads, Zenon DEF WakeInv, ShapeOK, coco_global_sched_start, P
  <1>1. th' = [t \in Thread |-> IF t \in P THEN Worker0
                               ELSE IF t = Main THEN [Local EXCEPT !.at = "main"] ELSE th[t]]
    BY Zenon DEF coco_global_sched_start
  <1>2. \A w \in P : th[w].at = "off"
    BY <1>0, Zenon DEF WakeInv, MainOK
  <1>3. idle_lock = None /\ \A q \in Worker : lock[q] = None
    BY <1>0, <1>2, Zenon DEF WakeInv, IdleOK, LocksOK, Look, HoldsLock, GoingTo
  <1>4. /\ DOMAIN th' = Thread /\ (\A w \in P : th'[w] = Worker0) /\ th'[Main] = [Local EXCEPT !.at = "main"]
        /\ \A t \in Thread \ (P \cup {Main}) : th'[t] = th[t]
    BY <1>0, <1>1, Zenon
  <1>5. ShapeOK'
    BY <1>0, <1>4, SMTT(40) DEF WakeInv, ShapeOK, Worker0, Local, Fields, Thens
  <1>6. LocksOK' /\ IdleOK'
    BY <1>0, <1>3, Zenon DEF WakeInv, LocksOK, IdleOK
  <1>7. MainOK'
    BY <1>0, <1>4, SMTT(40) DEF WakeInv, MainOK, StopIsSeen, Local
  <1>8. WorkSeen'
    <2>1. Awake'
      BY <1>0, <1>3, <1>4, SMTT(40) DEF Awake, Worker0, Local
    <2> QED
      BY <2>1, Zenon DEF WorkSeen
  <1> QED
    BY <1>5, <1>6, <1>7, <1>8, ZenonT(40) DEF WakeInv

\* The broadcast of coco_global_sched_stop().
LEMMA BroadcastStep ==
    ASSUME WakeInv, stop_broadcast
    PROVE  WakeInv'
  <1>0. /\ Main \in Thread /\ P \subseteq Thread /\ P # {} /\ Main \notin P /\ P' = P /\ None \notin P
        /\ th[Main].at = "broadcast" /\ idle_lock = None /\ DOMAIN th = Thread
        /\ \A t \in Thread : DOMAIN th[t] = Fields /\ th[t].then \in Thens
        /\ UNCHANGED <<world, lock, idle_lock, runq, head, running>> /\ ~running
    BY Threads, Zenon DEF WakeInv, ShapeOK, stop_broadcast, P, MainOK
  <1>1. th' = [t \in Thread |-> IF t \in Asleep THEN [th[t] EXCEPT !.at = "woken"]
                               ELSE IF t = Main THEN [th[t] EXCEPT !.at = "join"] ELSE th[t]]
    BY Zenon DEF stop_broadcast
  <1>2. /\ DOMAIN th' = Thread
        /\ \A t \in Thread : DOMAIN th'[t] = Fields /\ th'[t].then = th[t].then
        /\ \A t \in Asleep : th'[t].at = "woken"
        /\ th'[Main].at = "join"
        /\ \A t \in Thread \ (Asleep \cup {Main}) : th'[t] = th[t]
    BY <1>0, <1>1, Zenon DEF Asleep, Fields
  <1>3. \A w \in P : th'[w].at # "asleep"
    BY <1>0, <1>2, Zenon DEF Asleep
  <1>4. ShapeOK'
    BY <1>0, <1>2, Zenon DEF WakeInv, ShapeOK
  <1>5. LocksOK'
    <2>1. ASSUME NEW q \in Worker, lock[q] # None PROVE HoldsLock(lock[q], q)' /\ lock[q] \in P \cup {Main}
      <3>1. lock[q] \in P \cup {Main} /\ HoldsLock(lock[q], q)
        BY <2>1, Zenon DEF WakeInv, LocksOK
      <3>2. CASE lock[q] # Main
        <4>1. lock[q] \notin Asleep
          BY <3>1, Zenon DEF Asleep, HoldsLock, GoingTo
        <4>2. th'[lock[q]] = th[lock[q]]
          BY <1>0, <1>2, <3>1, <3>2, <4>1, ZenonT(40)
        <4> QED
          BY <1>0, <3>1, <4>2, Zenon DEF HoldsLock, GoingTo
      <3>3. CASE lock[q] = Main
        BY <1>0, <3>1, <3>3, Zenon DEF HoldsLock, GoingTo
      <3> QED
        BY <3>1, <3>2, <3>3, Zenon
    <2> QED
      BY <1>0, <2>1, Zenon DEF WakeInv, LocksOK
  <1>6. IdleOK'
    BY <1>0, ZenonT(40) DEF IdleOK
  <1>7. MainOK'
    <2>1. \A t \in Thread \ (P \cup {Main}) : th'[t] = th[t]
      BY <1>2, Zenon DEF Asleep
    <2>2. Asleep' = {}
      BY <1>0, <1>3, Zenon DEF Asleep
    <2> QED
      BY <1>0, <1>2, <2>1, <2>2, SMTT(40) DEF WakeInv, MainOK, StopIsSeen
  <1>8. WorkSeen'
    <2>1. Awake'
      BY <1>0, <1>3, ZenonT(40) DEF Awake
    <2> QED
      BY <2>1, Zenon DEF WorkSeen
  <1> QED
    BY <1>4, <1>5, <1>6, <1>7, <1>8, ZenonT(40) DEF WakeInv

\* The end of coco_global_sched_stop().
LEMMA DrainStep ==
    ASSUME WakeInv, stop_drain
    PROVE  WakeInv'
  <1>0. /\ Main \in Thread /\ P \subseteq Worker /\ P \subseteq Thread /\ Main \notin P /\ P' = P
        /\ th[Main].at = "join" /\ (\A w \in P : th[w].at = "exit") /\ world \in Worlds /\ ~running
    BY Threads, Zenon DEF WakeInv, ShapeOK, stop_drain, P, MainOK
  <1>1. /\ th' = [t \in Thread |-> Local] /\ head' = None /\ runq' = [w \in Worker |-> <<>>]
        /\ UNCHANGED <<world, lock, idle_lock, running>>
    BY Zenon DEF stop_drain
  <1>2. idle_lock = None /\ \A q \in Worker : lock[q] = None
    BY <1>0, Zenon DEF WakeInv, IdleOK, LocksOK, Look, HoldsLock, GoingTo
  <1>3. \A t \in Thread : th'[t] = Local
    BY <1>1, Zenon
  <1>4. ShapeOK'
    BY <1>0, <1>1, Zenon DEF ShapeOK, Local, Fields, Thens
  <1>5. LocksOK' /\ IdleOK'
    <2>1. DOMAIN lock = Worker /\ None \notin P
      BY <1>0, Threads, Zenon DEF WakeInv, LocksOK
    <2>2. LocksOK'
      BY <1>1, <1>2, <2>1, Zenon DEF LocksOK
    <2>3. IdleOK'
      BY <1>0, <1>1, <1>2, <2>1, Zenon DEF IdleOK
    <2> QED
      BY <2>2, <2>3, Zenon
  <1>6. MainOK'
    BY <1>0, <1>1, <1>3, Zenon DEF MainOK, StopIsSeen, Local
  <1>7. WorkSeen'
    BY <1>0, <1>1, Zenon DEF WorkSeen
  <1> QED
    BY <1>4, <1>5, <1>6, <1>7, Zenon DEF WakeInv

\* The threads that are not there do nothing.
LEMMA OthersOff ==
    ASSUME NoOutside, WakeInv, NEW t \in Thread,
           \/ global_runq_put(t) \/ global_runq_peek(t) \/ signal(t)
           \/ runq_put(t) \/ go_signal(t) \/ go_count(t)
           \/ (\E p \in P : coco_go(t, p))
           \/ (\E c \in Coro : schedule_ready(t, c))
    PROVE  t \in P \cup {Main} /\ (t = Main => ~ \E c \in Coro : schedule_ready(t, c))
  <1>0. world \in Worlds /\ ~world.outside /\ Main \notin P /\ Main # Outside
    BY Threads, Zenon DEF NoOutside, WakeInv, ShapeOK
  <1>1. t \notin P \cup {Main} => th[t].at = "off"
    BY Zenon DEF WakeInv, MainOK
  <1> QED
    BY <1>0, <1>1, Zenon DEF global_runq_put, global_runq_peek, signal, runq_put, go_signal,
       go_count,
       coco_go, MayGo,
       schedule_ready, MayWake

\* Every step keeps the invariant.
LEMMA NextWakeInv == ASSUME Library, NoOutside, WakeInv, [Next]_vars PROVE WakeInv'
  <1>1. ASSUME NEW t \in Thread,
               \/ global_runq_put(t) \/ global_runq_peek(t) \/ signal(t)
               \/ runq_put(t) \/ go_signal(t) \/ go_count(t)
               \/ (\E p \in P : coco_go(t, p))
               \/ (\E c \in Coro : schedule_ready(t, c))
        PROVE  WakeInv'
    BY <1>1, OthersOff, SignalStep, MainGoes, PlainSteps, LockSteps, ZenonT(40)
  <1>2. ASSUME NEW w \in P,
               \/ worker_loop(w) \/ runq_get(w) \/ global_runq_load(w) \/ global_runq_cas(w)
               \/ runq_steal(w) \/ runq_put_batch(w)
               \/ idle_enter(w) \/ idle_leave(w) \/ idle_uncount(w)
               \/ coco_yield(w) \/ block(w) \/ ctx_switch(w) \/ coco_exit(w)
               \/ handle_coro_done(w) \/ push_overflow(w) \/ push_one(w)
               \/ balance(w) \/ balance_collect(w) \/ balance_spread(w)
        PROVE  WakeInv'
    BY <1>2, PlainSteps, LockSteps, FindSteps, StealStep, IdleStep, ZenonT(40)
  <1>3. CASE coco_global_sched_start \/ coco_global_sched_wait \/ coco_global_sched_stop \/ stop_broadcast
             \/ stop_drain
    BY <1>3, StartStep, MainWaits, BroadcastStep, DrainStep, ZenonT(40)
  <1>4. CASE UNCHANGED vars
    <2>1. P' = P /\ Asleep' = Asleep
      BY <1>4, Zenon DEF vars, P, Asleep
    <2>2. ShapeOK' /\ IdleOK'
      BY <1>4, <2>1, Zenon DEF vars, WakeInv, ShapeOK, IdleOK
    <2>3. LocksOK'
      BY <1>4, <2>1, Zenon DEF vars, WakeInv, LocksOK, HoldsLock, GoingTo
    <2>4. MainOK'
      BY <1>4, <2>1, Zenon DEF vars, WakeInv, MainOK, StopIsSeen
    <2>5. WorkSeen'
      BY <1>4, <2>1, Zenon DEF vars, WakeInv, WorkSeen, Pend, Awake, GoingTo
    <2> QED
      BY <2>2, <2>3, <2>4, <2>5, Zenon DEF WakeInv
  <1> QED
    BY <1>1, <1>2, <1>3, <1>4, Zenon DEF Next

\* The invariant says that nobody sleeps on work, and that a stop is seen.
LEMMA WakeInvWakes == WakeInv => WorkersWakeUp
  <1> SUFFICES ASSUME WakeInv PROVE WorkersWakeUp
    BY Zenon
  <1>1. NobodySleepsOnWork
    <2> SUFFICES ASSUME \A w \in P : th[w].at = "asleep", th[Main].at \in {"off", "main", "waited"}
                 PROVE  head = None /\ \A p \in P : runq[p] = <<>>
      BY Zenon DEF NobodySleepsOnWork
    <2>1. ~Pend /\ ~Awake /\ \A w \in P : idle_lock # w
      BY Zenon DEF Pend, Awake, GoingTo, WakeInv, IdleOK, Look
    <2> QED
      BY <2>1, Zenon DEF WakeInv, WorkSeen
  <1> QED
    BY <1>1, Zenon DEF WorkersWakeUp, WakeInv, MainOK

-----------------------------------------------------------------------------
(* The theorems.                                                           *)

INSTANCE FiniteSetTheorems

\* What the proofs take from the library is there.
LEMMA LibraryHolds == Library
  <1>1. ASSUME NEW T \in SUBSET Nat, T # {}
        PROVE  \E m \in T : \A k \in T : m <= k
    <2>1. PICK m \in T : \A k \in T : <<k, m>> \notin OpToRel(<, Nat)
      BY <1>1, WFMin, NatLessThanWellFounded, ZenonT(40)
    <2>2. \A k \in T : ~(k < m)
      BY <2>1, ZenonT(40) DEF OpToRel
    <2> QED
      BY <2>2, SMTT(40)
  <1>2. \A S : IsFiniteSet(S) => Cardinality(S) \in Nat /\ (Cardinality(S) = 0 => S = {})
    BY FS_CardinalityType, FS_EmptySet, SMTT(40)
  <1>3. \A S : \A T \in SUBSET S : IsFiniteSet(S) => IsFiniteSet(T) /\ Cardinality(T) <= Cardinality(S)
    BY FS_Subset, SMTT(40)
  <1>4. Cardinality({}) = 0 /\ \A x : Cardinality({x}) = 1
    BY FS_EmptySet, FS_Singleton, SMTT(40)
  <1>5. \A a, b \in Int : IsFiniteSet(a..b)
    BY FS_Interval, SMTT(40)
  <1> QED
    BY <1>1, <1>2, <1>3, <1>4, <1>5, ZenonT(40) DEF Library

\* However many threads start and end coroutines on however many processors,
\* and whatever pools are flushed, destroyed and created again: a mapped stack
\* belongs to one coroutine, or is kept free in one place, or was lost with a
\* thread, and it is as large as the place says.
THEOREM StacksKeptCorrect == PoolSpec => []StacksKept
  <1>1. PoolInv => StacksKept
    <2> SUFFICES ASSUME PoolInv PROVE StacksKept
      BY Zenon
    <2>1. StackInOnePlace
      <3> SUFFICES ASSUME NEW s \in Stack
                   PROVE  Cardinality({k \in Kept : k[1] = s}) + Cardinality({u \in used : u.stack = s})
                          + (IF s \in lost THEN 1 ELSE 0) = IF mapped[s] # 0 THEN 1 ELSE 0
        BY Zenon DEF StackInOnePlace
      <3>1. Cardinality({k \in Kept : k[1] = s}) =
               IF s \in Cached(cache) \cup Listed(freelists) THEN 1 ELSE 0
        BY LibraryHolds, KeptOnce, ZenonT(40)
      <3>2. Cardinality({u \in used : u.stack = s}) = IF s \in InUse(used) THEN 1 ELSE 0
        BY LibraryHolds, UsedOnce, ZenonT(40)
      <3>3. /\ mapped[s] # 0 <=> \/ s \in Cached(cache) \/ s \in Listed(freelists)
                                 \/ s \in InUse(used) \/ s \in lost
            /\ s \in Cached(cache) \cup Listed(freelists) => s \notin InUse(used) /\ s \notin lost
            /\ s \in InUse(used) => s \notin lost
        BY ZenonT(40) DEF PoolInv, Apart
      <3> QED
        BY <3>1, <3>2, <3>3, SMTT(40)
    <2>2. ASSUME NEW k \in Kept PROVE mapped[k[1]] = Classes[k[2]]
      BY KeptSize, ZenonT(40)
    <2>3. \A u \in used : mapped[u.stack] = u.size
      BY Zenon DEF PoolInv, UsedOK
    <2> QED
      BY <2>1, <2>2, <2>3, ZenonT(40) DEF StacksKept, StackAsLargeAsTold
  <1>2. PoolInv /\ [PoolNext]_poolVars => PoolInv'
    BY LibraryHolds, NextPoolInv, ZenonT(40)
  <1> QED
    BY <1>1, <1>2, InitPoolInv, PTL DEF PoolSpec

\* With no thread outside the scheduler, a worker that goes to sleep is woken for
\* work that is queued and for the stop, for any number of workers and coroutines
\* and any capacity of the queues, whatever the coroutines do.
THEOREM WakeCorrect == NoOutside => (Spec => []WorkersWakeUp)
  <1> SUFFICES ASSUME NoOutside PROVE Spec => []WorkersWakeUp
    BY Zenon
  <1>1. WakeInv /\ [Next]_vars => WakeInv'
    BY LibraryHolds, NextWakeInv, Zenon
  <1> QED
    BY <1>1, InitWakeInv, WakeInvWakes, PTL DEF Spec
=============================================================================
