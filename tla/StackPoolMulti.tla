--------------------------- MODULE StackPoolMulti ---------------------------
(***************************************************************************)
(* The stack pools of the processors (core/stack_pool_multi.c): a list of  *)
(* free stacks per pool and size class, and in front of it a cache of one  *)
(* stack per class in every thread, which all the pools share.  A          *)
(* coroutine remembers the pool it was given a stack by and may end on     *)
(* another thread than the one that started it.                            *)
(*                                                                         *)
(* What the thread does with the shared lists is one step under the lock   *)
(* of the class, and the rest touches only the thread's own cache, so that *)
(* every operation is one action.  The statistics are left out.            *)
(***************************************************************************)
EXTENDS Integers, Sequences, FiniteSets

CONSTANTS
    Stack, NoStack,    \* the stacks mmap() can give
    PoolThread,        \* the threads; the first of them is the main thread
    Pool,              \* the pools, one per processor
    Classes,           \* the sizes of the classes, increasing
    CLASS_LIMIT,       \* the most free stacks of a class (256 in the code)
    Requests           \* the sizes asked for

MainThread == 1
Class == 1..Len(Classes)

ASSUME StackPoolAssumption ==
    /\ NoStack \notin Stack
    /\ PoolThread = 1..Cardinality(PoolThread) /\ MainThread \in PoolThread
    /\ Classes \in Seq(Nat \ {0}) /\ \A i, j \in Class : i < j => Classes[i] < Classes[j]
    /\ CLASS_LIMIT \in Nat /\ Requests \subseteq Nat \ {0}

VARIABLES
    mapped,            \* the size a stack was mapped with, 0 when it is not
    cache,             \* tl_stack_cache of a thread
    freelists,         \* of a pool, and counts, which is their length
    alive,             \* the pools created and not destroyed
    used,              \* the stacks of the coroutines: stack_top, size, pool
    lost               \* what was in the cache of a thread that has ended

poolVars == <<mapped, cache, freelists, alive, used, lost>>

NoStacks == [i \in Class |-> NoStack]

\* stack_pool_multi_get_class_index(): the first class that is large enough.
get_class_index(size) ==
    LET fit == {i \in Class : size <= Classes[i]} IN
    IF fit = {} THEN -1 ELSE CHOOSE i \in fit : \A j \in fit : i <= j

\* What coco_go_with_opts() takes the size of the stack to be.
ActualSize(size) == IF get_class_index(size) = -1 THEN size ELSE Classes[get_class_index(size)]

\* alloc_stack_mmap(): a stack not in use; the operating system is external.
Unmapped == {s \in Stack : mapped[s] = 0}

Use(s, size, p) == used' = used \cup {[stack |-> s, size |-> ActualSize(size), pool |-> p]}

\* stack_pool_multi_alloc() by thread t for pool p: from the thread's cache, the
\* list of the class, or mapped.
stack_pool_multi_alloc(t, p, size) ==
    LET i == get_class_index(size) IN
    /\ p \in alive
    /\ \/ /\ i # -1 /\ cache[t][i] # NoStack
          /\ Use(cache[t][i], size, p)
          /\ cache' = [cache EXCEPT ![t][i] = NoStack]
          /\ UNCHANGED <<freelists, mapped>>
       \/ /\ i # -1 /\ cache[t][i] = NoStack /\ freelists[p][i] # <<>>
          /\ Use(Head(freelists[p][i]), size, p)
          /\ freelists' = [freelists EXCEPT ![p][i] = Tail(@)]
          /\ UNCHANGED <<cache, mapped>>
       \/ /\ i # -1 => cache[t][i] = NoStack /\ freelists[p][i] = <<>>
          /\ \E s \in Unmapped : /\ Use(s, size, p)
                                 /\ mapped' = [mapped EXCEPT ![s] = IF i = -1 THEN size ELSE Classes[i]]
          /\ UNCHANGED <<cache, freelists>>
    /\ UNCHANGED <<alive, lost>>

\* A stack is pushed on the list of its class, or unmapped when it is full.
GiveBack(p, i, s) ==
    IF Len(freelists[p][i]) < CLASS_LIMIT
    THEN freelists' = [freelists EXCEPT ![p][i] = <<s>> \o @] /\ UNCHANGED mapped
    ELSE mapped' = [mapped EXCEPT ![s] = 0] /\ UNCHANGED freelists

\* Mutant of stack_pool_multi_free: what the cache holds is overwritten.
stack_pool_multi_free_Over(t, u) ==
    LET i == get_class_index(u.size) IN
    /\ u \in used /\ used' = used \ {u}
    /\ cache' = IF i = -1 THEN cache ELSE [cache EXCEPT ![t][i] = u.stack]
    /\ UNCHANGED <<freelists, mapped, alive, lost>>

\* stack_pool_multi_free(): the thread's cache, if that is free, else
\* free_slow().  An oversized stack is unmapped.
stack_pool_multi_free(t, u) ==
    LET i == get_class_index(u.size) IN
    /\ u \in used /\ used' = used \ {u}
    /\ \/ /\ i # -1 /\ cache[t][i] = NoStack
          /\ cache' = [cache EXCEPT ![t][i] = u.stack]
          /\ UNCHANGED <<freelists, mapped>>
       \/ /\ i # -1 /\ cache[t][i] # NoStack
          /\ GiveBack(u.pool, i, u.stack)
          /\ UNCHANGED <<cache>>
       \/ /\ i = -1
          /\ mapped' = [mapped EXCEPT ![u.stack] = 0]
          /\ UNCHANGED <<cache, freelists>>
    /\ UNCHANGED <<alive, lost>>

\* flush_tl_cache_to_pool(): the cached stacks are given to the pool, or unmapped
\* when all are to be or the list is full.
flush_tl_cache_to_pool(t, p, free_all) ==
    LET kept == {i \in Class : ~ free_all /\ cache[t][i] # NoStack
                               /\ Len(freelists[p][i]) < CLASS_LIMIT}
        freed == {cache[t][i] : i \in {j \in Class \ kept : cache[t][j] # NoStack}}
    IN  /\ cache' = [cache EXCEPT ![t] = NoStacks]
        /\ freelists' = [freelists EXCEPT ![p] =
              [i \in Class |-> IF free_all THEN <<>>
                               ELSE IF i \in kept THEN <<cache[t][i]>> \o @[i] ELSE @[i]]]
        /\ mapped' = [s \in Stack |->
              IF \/ s \in freed
                 \/ free_all /\ \E i \in Class : s \in {freelists[p][i][k] : k \in 1..Len(freelists[p][i])}
              THEN 0 ELSE mapped[s]]

\* stack_pool_multi_get_stats(), which flushes the cache of its caller only.
stack_pool_multi_get_stats(t, p) ==
    /\ p \in alive
    /\ flush_tl_cache_to_pool(t, p, FALSE)
    /\ UNCHANGED <<alive, used, lost>>

\* A worker ends, and with it its cache.
worker_exit(t) ==
    /\ t # MainThread
    /\ lost' = lost \cup {cache[t][i] : i \in {j \in Class : cache[t][j] # NoStack}}
    /\ cache' = [cache EXCEPT ![t] = NoStacks]
    /\ UNCHANGED <<mapped, freelists, alive, used>>

\* stack_pool_multi_destroy() by the main thread, when no coroutine of the pool
\* is left: its cache and the lists are unmapped.
stack_pool_multi_destroy(p) ==
    /\ p \in alive /\ \A u \in used : u.pool # p
    /\ flush_tl_cache_to_pool(MainThread, p, TRUE)
    /\ alive' = alive \ {p}
    /\ UNCHANGED <<used, lost>>

\* stack_pool_multi_create().
stack_pool_multi_create(p) ==
    /\ p \notin alive
    /\ alive' = alive \cup {p}
    /\ UNCHANGED <<mapped, cache, freelists, used, lost>>

PoolInit ==
    /\ mapped = [s \in Stack |-> 0]
    /\ cache = [t \in PoolThread |-> NoStacks]
    /\ freelists = [p \in Pool |-> [i \in Class |-> <<>>]]
    /\ alive = Pool /\ used = {} /\ lost = {}

PoolNext ==
    \/ \E t \in PoolThread, p \in Pool, size \in Requests : stack_pool_multi_alloc(t, p, size)
    \/ \E t \in PoolThread, u \in used : stack_pool_multi_free(t, u)
    \/ \E t \in PoolThread, p \in Pool : stack_pool_multi_get_stats(t, p)
    \/ \E t \in PoolThread : worker_exit(t)
    \/ \E p \in Pool : stack_pool_multi_destroy(p) \/ stack_pool_multi_create(p)

PoolSpec == PoolInit /\ [][PoolNext]_poolVars

-----------------------------------------------------------------------------

\* The free stacks, each with the class it is kept in and where.
Kept ==
    (UNION {{<<cache[t][i], i, t, 0>> : i \in {j \in Class : cache[t][j] # NoStack}} : t \in PoolThread})
    \cup (UNION {UNION {{<<freelists[p][i][k], i, p, k>> : k \in 1..Len(freelists[p][i])}
                        : i \in Class} : p \in Pool})

\* Whichever threads start and end coroutines: a mapped stack belongs to one
\* coroutine or is kept free in one place (or was lost with a thread), and no
\* stack that is kept or used has been unmapped.
StackInOnePlace ==
    \A s \in Stack : Cardinality({k \in Kept : k[1] = s}) + Cardinality({u \in used : u.stack = s})
                     + (IF s \in lost THEN 1 ELSE 0) = IF mapped[s] # 0 THEN 1 ELSE 0

\* A stack has the size it is kept for, and a coroutine the size it asked for.
StackAsLargeAsTold ==
    /\ \A k \in Kept : mapped[k[1]] = Classes[k[2]]
    /\ \A u \in used : mapped[u.stack] = u.size

\* A stack that a coroutine is given is its own and as large as it was told.
StacksKept == StackInOnePlace /\ StackAsLargeAsTold
=============================================================================
