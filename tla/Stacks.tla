------------------------------- MODULE Stacks -------------------------------
(***************************************************************************)
(* The memory coroutines of the single-threaded scheduler run on: the hot  *)
(* slots they share (core/hot_stack.c and the hot part of switch_to_coro() *)
(* in core/coro.c), from which the least recently used one is evicted to a *)
(* backup, and the stacks of their own that large coroutines take from the *)
(* pool (core/stack_pool.c).                                               *)
(*                                                                         *)
(* A stack is the cells 1..Depth counted from its top.  A coroutine that   *)
(* runs leaves frames in the cells down to its depth, and a frame holds    *)
(* pointers into the place it was written at; what the coroutine finds     *)
(* when it is resumed has to be what it left.  A cell holds the frame a    *)
(* coroutine left when it was last suspended, or else Junk: its older      *)
(* frames, wherever copies of them are, are as wrong as any other bytes.   *)
(* Which ready coroutine is dispatched is the business of Sched: here it   *)
(* is any of them.                                                         *)
(***************************************************************************)
EXTENDS Integers, Sequences, FiniteSets

CONSTANTS
    Coro,          \* the coroutines
    None,          \* the NULL pointer
    Stack,         \* the stacks mmap() can provide
    NSlots,        \* hot_slot_count (8 in the code); slot 0 is reserved
    Depth,         \* cells of a stack
    Limit,         \* STACK_POOL_CLASS_LIMIT
    Ranked,        \* the coroutines coco_set_priority() is called for
    Realloc        \* what realloc() of a backup may answer: {TRUE} or BOOLEAN

Slot == 0..(NSlots - 1)
Cell == 1..Depth
RESERVED == 0

ASSUME StacksAssumption ==
    /\ None \notin Coro
    /\ None \notin Stack
    /\ NSlots \in Nat \ {0}
    /\ Depth \in Nat \ {0}
    /\ Limit \in Nat
    /\ Ranked \subseteq Coro
    /\ Realloc \subseteq BOOLEAN
    /\ Stack \cap Slot = {}

VARIABLES
    state,         \* coro->state; NONE when there is no such coroutine
    high,          \* the coroutines of COCO_PRIORITY_HIGH
    own,           \* an exclusive coroutine's stack, None for a hot one
    big,           \* the exclusive coroutines whose stack is larger than 64K
    hot_slot_idx,  \* the slot a hot coroutine is in, -1 if it is in none
    occupant,      \* slot->occupant; in_use is occupant # None
    lru,           \* the list hot_lru_head .. hot_lru_tail
    hot_coro_count,
    stack_used,    \* how much of its stack is saved on eviction
    stack_top,     \* the slot coro->stack_top points to, None before the first
    backup,        \* stack_backup: its size (0 when NULL) and its cells
    mem,           \* the cells of every slot and stack
    depth,         \* how deep the coroutine was when it was suspended
    restarted,     \* coroutines whose saved context was replaced by coco_ctx_init()
    current,       \* the coroutine that runs, or None
    freelist,      \* the pool's list for 64K stacks
    count,         \* its length as the code counts it
    mapped         \* the stacks that are mapped

poolVars == <<freelist, count, mapped, own, big>>
slotVars == <<hot_slot_idx, occupant, lru, hot_coro_count>>
dataVars == <<stack_used, stack_top, backup, mem, depth, restarted>>
vars == <<state, high, poolVars, slotVars, dataVars, current>>

States == {"NONE", "READY", "RUNNING", "WAITING", "DEAD"}

\* A frame of coroutine c, with pointers into place p.
Frame(c, p) == <<c, p>>
Junk == <<None, None>>
Place == Slot \cup Stack
NoCells == [i \in Cell |-> Junk]

\* What the parts of the state hold.
TypeOK ==
    /\ state \in [Coro -> States]
    /\ high \subseteq Coro
    /\ own \in [Coro -> Stack \cup {None}]
    /\ big \subseteq Coro
    /\ hot_slot_idx \in [Coro -> Slot \cup {-1}]
    /\ occupant \in [Slot -> Coro \cup {None}]
    /\ lru \in Seq(Coro)
    /\ hot_coro_count \in Nat
    /\ freelist \in Seq(Stack)
    /\ count \in Nat
    /\ mapped \subseteq Stack
    /\ current \in Coro \cup {None}

Max2(a, b) == IF a > b THEN a ELSE b
IndexIn(s, x) == CHOOSE i \in 1..Len(s) : s[i] = x

\* hot_lru_remove(): the list without c.
hot_lru_remove(s, c) ==
    LET k == IndexIn(s, c)
    IN  [j \in 1..(Len(s) - 1) |-> IF j < k THEN s[j] ELSE s[j + 1]]

\* hot_lru_insert_head() and hot_lru_move_to_head().
hot_lru_insert_head(s, c) == <<c>> \o s
hot_lru_move_to_head(s, c) == hot_lru_insert_head(hot_lru_remove(s, c), c)

-----------------------------------------------------------------------------
(* The pool.                                                               *)

\* stack_pool_alloc() for c: from the list of its size class, else a fresh
\* mapping; a stack larger than the largest class is always mapped.
stack_pool_alloc(c, large) ==
    \/ /\ ~large /\ freelist # <<>>
       /\ own' = [own EXCEPT ![c] = Head(freelist)]
       /\ freelist' = Tail(freelist)
       /\ count' = count - 1
       /\ UNCHANGED mapped
    \/ /\ large \/ freelist = <<>>
       /\ \E s \in Stack \ mapped :
            /\ own' = [own EXCEPT ![c] = s]
            /\ mapped' = mapped \cup {s}
       /\ UNCHANGED <<freelist, count>>

\* stack_pool_free() of c's stack: unmapped if it is large or the list of
\* the class is full, else put at the head of the list.
stack_pool_free(c) ==
    /\ own' = [own EXCEPT ![c] = None]
    /\ IF c \in big \/ count >= Limit
       THEN /\ mapped' = mapped \ {own[c]}
            /\ UNCHANGED <<freelist, count>>
       ELSE /\ freelist' = <<own[c]>> \o freelist
            /\ count' = count + 1
            /\ UNCHANGED mapped

-----------------------------------------------------------------------------
(* The hot slots.                                                          *)

LeastOf(S) == CHOOSE x \in S : \A y \in S : x <= y

\* find_free_slot(): slot 0 only for a HIGH coroutine.
FreeFor(c) == {s \in Slot : occupant[s] = None /\ (s # RESERVED \/ c \in high)}

\* find_eviction_victim_slot(): positions in the list whose coroutine may be
\* evicted for c.
Evictable(c) == {k \in 1..Len(lru) : /\ lru[k] # c
                                     /\ \/ hot_slot_idx[lru[k]] # RESERVED
                                        \/ c \in high}

\* The slot hot_slot_acquire() gives c: a free one, else that of the least
\* recently used coroutine it may evict, else none (-1).
AcquiredSlot(c) ==
    IF FreeFor(c) # {} THEN LeastOf(FreeFor(c))
    ELSE IF Evictable(c) # {}
         THEN hot_slot_idx[lru[CHOOSE k \in Evictable(c) : \A j \in Evictable(c) : j <= k]]
         ELSE -1

\* The cells of a backup of n cells, from those of a place.
Saved(cells, n) == [i \in Cell |-> IF i <= n THEN cells[i] ELSE Junk]

\* backup_coro_stack() of v in slot s: the cells in use, in a buffer grown
\* twofold when it is too small; if it cannot grow nothing is saved.
backup_coro_stack(v, s, ok) ==
    IF stack_used[v] = 0 THEN backup[v]
    ELSE IF backup[v].size >= stack_used[v]
         THEN [backup[v] EXCEPT !.cells = Saved(mem[s], stack_used[v])]
         ELSE IF ok
              THEN [size |-> Max2(Max2(2 * backup[v].size, 1), stack_used[v]),
                    cells |-> Saved(mem[s], stack_used[v])]
              ELSE backup[v]

\* The cells of slot s once c has been restored into it: its backup, with
\* the pointers into its old place moved to the new one.
Restored(c, s) ==
    [i \in Cell |->
       IF i > stack_used[c] THEN mem[s][i]
       ELSE LET f == backup[c].cells[i]
            IN  IF f[2] = stack_top[c] THEN Frame(f[1], s) ELSE f]

\* The rest of switch_to_coro() for a cold c, once it has slot s: its stack
\* is restored, or its context set up afresh, and c becomes the occupant.
\* `evicted' is the coroutine that was moved out of s, or None.
Occupy(c, s, evicted, ok) ==
    LET rest == IF evicted = None THEN lru ELSE hot_lru_remove(lru, evicted)
        saved == IF evicted = None THEN backup
                 ELSE [backup EXCEPT ![evicted] = backup_coro_stack(evicted, s, ok)]
        restore == stack_used[c] > 0 /\ backup[c].size > 0
    IN  /\ backup' = saved
        /\ mem' = IF restore THEN [mem EXCEPT ![s] = Restored(c, s)] ELSE mem
        /\ restarted' = IF ~restore /\ depth[c] > 0 THEN restarted \cup {c} ELSE restarted
        /\ hot_slot_idx' = [x \in Coro |-> IF x = c THEN s
                                           ELSE IF x = evicted THEN -1 ELSE hot_slot_idx[x]]
        /\ occupant' = [occupant EXCEPT ![s] = c]
        /\ lru' = hot_lru_insert_head(rest, c)
        /\ hot_coro_count' = hot_coro_count + (IF evicted = None THEN 1 ELSE 0)
        /\ stack_top' = [stack_top EXCEPT ![c] = s]

-----------------------------------------------------------------------------
(* The operations.                                                         *)

\* coco_create() of a hot coroutine: nothing is allocated yet.
coco_create_hot(c) ==
    /\ state[c] = "NONE"
    /\ state' = [state EXCEPT ![c] = "READY"]
    /\ UNCHANGED <<high, poolVars, slotVars, dataVars, current>>

\* coco_create() with a stack size of 64K or more; NULL if there is none.
coco_create_exclusive(c, large) ==
    /\ state[c] = "NONE"
    /\ stack_pool_alloc(c, large)
    /\ state' = [state EXCEPT ![c] = "READY"]
    /\ big' = IF large THEN big \cup {c} ELSE big
    /\ UNCHANGED <<high, slotVars, dataVars, current>>

\* coco_set_priority() of a living coroutine, as far as the slots care.
coco_set_priority(c) ==
    /\ state[c] \in {"READY", "WAITING"}
    /\ high' = IF c \in high THEN high \ {c} ELSE high \cup {c}
    /\ UNCHANGED <<state, poolVars, slotVars, dataVars, current>>

\* switch_to_coro() of a coroutine with a stack of its own.
switch_to_exclusive(c) ==
    /\ current = None
    /\ state[c] = "READY" /\ own[c] # None
    /\ state' = [state EXCEPT ![c] = "RUNNING"]
    /\ current' = c
    /\ UNCHANGED <<high, poolVars, slotVars, dataVars>>

\* switch_to_coro() of a coroutine that is in a slot.
switch_to_hot(c) ==
    /\ current = None
    /\ state[c] = "READY" /\ hot_slot_idx[c] >= 0
    /\ state' = [state EXCEPT ![c] = "RUNNING"]
    /\ current' = c
    /\ lru' = hot_lru_move_to_head(lru, c)
    /\ UNCHANGED <<high, poolVars, hot_slot_idx, occupant, hot_coro_count, dataVars>>

\* switch_to_coro() of a coroutine that is in no slot; if there is none for
\* it, it goes back to its ready list.
switch_to_cold(c) ==
    /\ current = None
    /\ state[c] = "READY" /\ own[c] = None /\ hot_slot_idx[c] = -1
    /\ LET s == AcquiredSlot(c)
       IN  IF s = -1
           THEN UNCHANGED <<state, current, slotVars, dataVars>>
           ELSE /\ \E ok \in Realloc : Occupy(c, s, occupant[s], ok)
                /\ state' = [state EXCEPT ![c] = "RUNNING"]
                /\ current' = c
                /\ UNCHANGED <<stack_used, depth>>
    /\ UNCHANGED <<high, poolVars>>

\* Cells in which the frames of c are out of date.
Forget(cells, c) == [i \in Cell |-> IF cells[i][1] = c THEN Junk ELSE cells[i]]

\* The running coroutine c has executed and stops d cells deep: these cells
\* are rewritten.
Rewrite(c, d) ==
    LET here == IF own[c] = None THEN hot_slot_idx[c] ELSE own[c]
    IN  /\ mem' = [p \in Place |->
                     IF p # here THEN Forget(mem[p], c)
                     ELSE [i \in Cell |-> IF i <= d THEN Frame(c, p)
                                          ELSE Forget(mem[p], c)[i]]]
        /\ backup' = [backup EXCEPT ![c].cells = Forget(@, c)]
        /\ depth' = [depth EXCEPT ![c] = d]

\* Mutant of Used: stack_used keeps what the first yield found.
Used_FirstOnly(c, d) == IF stack_used[c] = 0 THEN d ELSE stack_used[c]

\* coco_yield() and the end of switch_to_coro() raise the stack_used of a
\* coroutine in a slot to what is in use.
Used(c, d) == Max2(stack_used[c], d)

\* coco_yield(), of a coroutine that stays ready or has set itself WAITING.
coco_yield(d, to) ==
    /\ current # None
    /\ Rewrite(current, d)
    /\ stack_used' = IF own[current] # None THEN stack_used
                     ELSE [stack_used EXCEPT ![current] = Used(current, d)]
    /\ state' = [state EXCEPT ![current] = to]
    /\ current' = None
    /\ UNCHANGED <<high, poolVars, slotVars, stack_top, restarted>>

\* Whatever the coroutine waits for makes it ready.
enqueue_ready(c) ==
    /\ state[c] = "WAITING"
    /\ state' = [state EXCEPT ![c] = "READY"]
    /\ UNCHANGED <<high, poolVars, slotVars, dataVars, current>>

\* What hot_slot_release() and coro_migrate_prepare() both undo.
LeaveSlot(c) ==
    /\ hot_slot_idx' = [hot_slot_idx EXCEPT ![c] = -1]
    /\ occupant' = [occupant EXCEPT ![hot_slot_idx[c]] = None]
    /\ lru' = hot_lru_remove(lru, c)
    /\ hot_coro_count' = hot_coro_count - 1

\* Mutant of coco_exit: the slot of a dead coroutine is not released.
coco_exit_KeepsSlot ==
    /\ current # None
    /\ state' = [state EXCEPT ![current] = "DEAD"]
    /\ hot_slot_idx' = [hot_slot_idx EXCEPT ![current] = -1]
    /\ mem' = [p \in Place |-> Forget(mem[p], current)]
    /\ backup' = [backup EXCEPT ![current] = [size |-> 0, cells |-> NoCells]]
    /\ current' = None
    /\ UNCHANGED <<high, poolVars, occupant, lru, hot_coro_count, stack_used, stack_top,
                   depth, restarted>>

\* coco_exit(): the slot is released and the backup freed.
coco_exit ==
    /\ current # None
    /\ state' = [state EXCEPT ![current] = "DEAD"]
    /\ IF hot_slot_idx[current] >= 0 THEN LeaveSlot(current) ELSE UNCHANGED slotVars
    /\ mem' = [p \in Place |-> Forget(mem[p], current)]
    /\ backup' = [backup EXCEPT ![current] = [size |-> 0, cells |-> NoCells]]
    /\ current' = None
    /\ UNCHANGED <<high, poolVars, stack_used, stack_top, depth, restarted>>

\* coro_migrate_prepare() of a ready coroutine that another thread takes
\* over: saved, and out of its slot.
coro_migrate_prepare(c) ==
    /\ state[c] = "READY" /\ hot_slot_idx[c] >= 0
    /\ \E ok \in Realloc :
         backup' = [backup EXCEPT ![c] = backup_coro_stack(c, hot_slot_idx[c], ok)]
    /\ LeaveSlot(c)
    /\ UNCHANGED <<state, high, poolVars, current, stack_used, stack_top, mem, depth,
                   restarted>>

\* coco_destroy() of a dead coroutine: a stack of its own goes to the pool,
\* and the control block is free for another coco_create().
coco_destroy(c) ==
    /\ state[c] = "DEAD"
    /\ state' = [state EXCEPT ![c] = "NONE"]
    /\ IF own[c] # None THEN stack_pool_free(c)
                        ELSE UNCHANGED <<own, freelist, count, mapped>>
    /\ big' = big \ {c}
    /\ high' = high \ {c}
    /\ stack_used' = [stack_used EXCEPT ![c] = 0]
    /\ stack_top' = [stack_top EXCEPT ![c] = None]
    /\ depth' = [depth EXCEPT ![c] = 0]
    /\ restarted' = restarted \ {c}
    /\ UNCHANGED <<slotVars, backup, mem, current>>

-----------------------------------------------------------------------------

Init ==
    /\ state = [c \in Coro |-> "NONE"]
    /\ high = {}
    /\ own = [c \in Coro |-> None]
    /\ big = {}
    /\ hot_slot_idx = [c \in Coro |-> -1]
    /\ occupant = [s \in Slot |-> None]
    /\ lru = <<>>
    /\ hot_coro_count = 0
    /\ stack_used = [c \in Coro |-> 0]
    /\ stack_top = [c \in Coro |-> None]
    /\ backup = [c \in Coro |-> [size |-> 0, cells |-> NoCells]]
    /\ mem = [p \in Place |-> NoCells]
    /\ depth = [c \in Coro |-> 0]
    /\ restarted = {}
    /\ current = None
    /\ freelist = <<>>
    /\ count = 0
    /\ mapped = {}

Next ==
    \/ \E c \in Coro : coco_create_hot(c)
    \/ \E c \in Coro, large \in BOOLEAN : coco_create_exclusive(c, large)
    \/ \E c \in Ranked : coco_set_priority(c)
    \/ \E c \in Coro : switch_to_exclusive(c)
    \/ \E c \in Coro : switch_to_hot(c)
    \/ \E c \in Coro : switch_to_cold(c)
    \/ \E d \in Cell, to \in {"READY", "WAITING"} : coco_yield(d, to)
    \/ \E c \in Coro : enqueue_ready(c)
    \/ coco_exit
    \/ \E c \in Coro : coro_migrate_prepare(c)
    \/ \E c \in Coro : coco_destroy(c)

Spec == Init /\ [][Next]_vars

-----------------------------------------------------------------------------
(* Properties.                                                             *)

\* A coroutine that is resumed goes on where it was and finds on its stack
\* exactly the frames it left, with pointers into the place it now runs at:
\* no eviction, restoration into another slot, shared slot or reused pool
\* stack has changed them.
StackIntact ==
    current # None =>
        LET p == IF own[current] = None THEN hot_slot_idx[current] ELSE own[current]
        IN  /\ current \notin restarted
            /\ \A i \in 1..depth[current] : mem[p][i] = Frame(current, p)

\* The slots, the coroutines and the LRU list agree: a coroutine is in a
\* slot iff it is the slot's occupant, the list holds exactly the coroutines
\* in slots, each once, and hot_coro_count is its length.
SlotsAgree ==
    /\ \A c \in Coro, s \in Slot : hot_slot_idx[c] = s <=> occupant[s] = c
    /\ \A c \in Coro : hot_slot_idx[c] >= 0 <=> \E i \in 1..Len(lru) : lru[i] = c
    /\ \A i, j \in 1..Len(lru) : lru[i] = lru[j] => i = j
    /\ hot_coro_count = Len(lru)

\* With two slots or more a slot is found for every coroutine dispatched:
\* switch_to_coro() never has to put one back.
SlotAlwaysFound ==
    NSlots >= 2 => \A c \in Coro : hot_slot_idx[c] = -1 => AcquiredSlot(c) # -1

\* Every mapped stack is held by exactly one coroutine or is in the pool
\* exactly once, nothing unmapped is, and the pool's count is the length of
\* its list and within the limit.
EachStackOnce ==
    /\ \A c, e \in Coro : own[c] = own[e] /\ c # e => own[c] = None
    /\ \A i, j \in 1..Len(freelist) : freelist[i] = freelist[j] => i = j
    /\ \A c \in Coro, i \in 1..Len(freelist) : own[c] # freelist[i]
    /\ \A s \in Stack : s \in mapped <=> \/ \E c \in Coro : own[c] = s
                                        \/ \E i \in 1..Len(freelist) : freelist[i] = s
    /\ count = Len(freelist)
    /\ count <= Limit

\* Nobody shares a stack: slots, occupants, the LRU list, the stacks that
\* coroutines own and the pool agree through every dispatch, eviction, exit and
\* migration, and there is always a slot to be had.
PlacesAgree == TypeOK /\ SlotsAgree /\ SlotAlwaysFound /\ EachStackOnce

\* Slot 0 is only given to a coroutine that is HIGH at that moment, whoever
\* has to leave for it.
ReservedForHigh ==
    [][\A c \in Coro : occupant'[RESERVED] = c /\ occupant[RESERVED] # c => c \in high]_vars
=============================================================================
