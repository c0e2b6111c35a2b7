-------------------------------- MODULE Cls ---------------------------------
(***************************************************************************)
(* Coroutine-local storage (core/cls.c): the list of keys, values and      *)
(* destructors a coroutine owns, up to coco_exit() which destroys it.      *)
(***************************************************************************)
EXTENDS Integers, Sequences

CONSTANTS
    Key,           \* the keys
    Value,         \* the values, each set at most once
    NoValue        \* the NULL pointer

ASSUME ClsAssumption == NoValue \notin Value

VARIABLES
    cls_table,     \* the list of entries, the newest first
    owned,         \* the values set with a destructor
    destroyed,     \* how often the destructor of a value was called
    unused,        \* the values not set yet
    last,          \* what was last set for a key, if it was not deleted
    exited         \* coco_exit() was called

clsVars == <<cls_table, owned, destroyed, unused, last, exited>>

Entry(k, v, d) == [key |-> k, value |-> v, destructor |-> d]

\* find_entry(): the first entry of a key, 0 if there is none.
find_entry(k) ==
    IF \E i \in 1..Len(cls_table) : cls_table[i].key = k
    THEN CHOOSE i \in 1..Len(cls_table) :
           cls_table[i].key = k /\ \A j \in 1..(i - 1) : cls_table[j].key # k
    ELSE 0

\* cls_get().
cls_get(k) == IF find_entry(k) = 0 THEN NoValue ELSE cls_table[find_entry(k)].value

\* The calls of destructors for the entries es.
Destroy(es) ==
    destroyed' = [v \in Value |->
        destroyed[v] + (IF \E e \in es : e.destructor /\ e.value = v THEN 1 ELSE 0)]

\* Mutant of coco_cls_set: an old value is replaced without its destructor.
coco_cls_set_Leaks(k, v, d) ==
    LET i == find_entry(k) IN
    /\ ~exited
    /\ v = NoValue \/ v \in unused
    /\ cls_table' = IF i = 0 THEN <<Entry(k, v, d)>> \o cls_table
                             ELSE [cls_table EXCEPT ![i] = Entry(k, v, d)]
    /\ UNCHANGED destroyed
    /\ owned' = IF d /\ v # NoValue THEN owned \cup {v} ELSE owned
    /\ unused' = unused \ {v}
    /\ last' = [last EXCEPT ![k] = v]
    /\ UNCHANGED exited

\* coco_cls_set(): an old value of the key is destroyed and replaced, or a
\* new entry is put in front.
coco_cls_set(k, v, d) ==
    LET i == find_entry(k) IN
    /\ ~exited
    /\ v = NoValue \/ v \in unused
    /\ cls_table' = IF i = 0 THEN <<Entry(k, v, d)>> \o cls_table
                             ELSE [cls_table EXCEPT ![i] = Entry(k, v, d)]
    /\ Destroy(IF i = 0 THEN {} ELSE {cls_table[i]})
    /\ owned' = IF d /\ v # NoValue THEN owned \cup {v} ELSE owned
    /\ unused' = unused \ {v}
    /\ last' = [last EXCEPT ![k] = v]
    /\ UNCHANGED exited

\* coco_cls_delete() of a key that is there: unlinked and destroyed.
coco_cls_delete(k) ==
    LET i == find_entry(k) IN
    /\ ~exited
    /\ i # 0
    /\ cls_table' = SubSeq(cls_table, 1, i - 1) \o SubSeq(cls_table, i + 1, Len(cls_table))
    /\ Destroy({cls_table[i]})
    /\ last' = [last EXCEPT ![k] = NoValue]
    /\ UNCHANGED <<owned, unused, exited>>

\* cls_destroy_table(), from coco_exit(), coco_destroy() or
\* coco_sched_destroy().
cls_destroy_table ==
    /\ ~exited
    /\ exited' = TRUE
    /\ Destroy({cls_table[i] : i \in 1..Len(cls_table)})
    /\ cls_table' = <<>>
    /\ last' = [k \in Key |-> NoValue]
    /\ UNCHANGED <<owned, unused>>

ClsInit ==
    /\ cls_table = <<>>
    /\ owned = {}
    /\ destroyed = [v \in Value |-> 0]
    /\ unused = Value
    /\ last = [k \in Key |-> NoValue]
    /\ exited = FALSE

ClsNext ==
    \/ \E k \in Key, v \in Value \cup {NoValue}, d \in BOOLEAN : coco_cls_set(k, v, d)
    \/ \E k \in Key : coco_cls_delete(k)
    \/ cls_destroy_table

ClsSpec == ClsInit /\ [][ClsNext]_clsVars

-----------------------------------------------------------------------------

\* Every value set with a destructor is either in the table, not destroyed,
\* or has left it, whether replaced, deleted or with the coroutine, and has
\* been destroyed exactly once; the others are never destroyed.
DestroyedExactlyOnce ==
    \A v \in Value :
        destroyed[v] = IF v \in owned /\ \A i \in 1..Len(cls_table) : cls_table[i].value # v
                       THEN 1 ELSE 0

\* coco_cls_get() returns what was last set for the key, or NULL if it was
\* deleted or never set, whatever happened to other keys.
GetReturnsLast == \A k \in Key : cls_get(k) = last[k]

\* The table of a coroutine owns the values in it, and only those.
ClsOwnsValues == DestroyedExactlyOnce /\ GetReturnsLast
=============================================================================
