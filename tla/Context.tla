------------------------------ MODULE Context -------------------------------
(***************************************************************************)
(* Contexts (core/context_api.c and core/context_coro.c): a tree of        *)
(* reference-counted nodes shared by threads, along which cancellation and *)
(* deadlines spread from parents to children.                              *)
(*                                                                         *)
(* The functions call one another recursively and take the lock of a node  *)
(* for part of their work, so each thread has a stack of the calls it is   *)
(* in.  A step of a thread is what its top call does up to the next point  *)
(* where another thread can tell: an atomic access, a lock, a call.        *)
(* Callbacks of the user are counted and do nothing else.                  *)
(***************************************************************************)
EXTENDS Integers, Sequences, FiniteSets

CONSTANTS
    Thread,        \* the threads that use contexts
    Ctx,           \* the contexts
    Background,    \* the one coco_context_background() returns
    Timed,         \* those created with a timeout
    Does,          \* the functions the program calls in each thread
    Under,         \* the parents (or NULL) each context may be created under
    Runner,        \* the thread of the coroutine that has a context
    NULL           \* the NULL pointer

ASSUME ContextAssumption ==
    /\ NULL \notin Ctx \cup Thread
    /\ Background \in Ctx
    /\ Timed \subseteq Ctx
    /\ \A c \in Ctx : Under[c] \subseteq Ctx \cup {NULL}
    /\ \A t \in Thread : Does[t] \subseteq
         {"create", "background", "ref", "unref", "cancel", "is_cancelled", "is_done",
          "set_context"}
    /\ Runner \in Thread

VARIABLES
    life,          \* NONE, LIVE or FREED
    parent,        \* ctx->parent
    refcount,
    cancelled,     \* the contexts whose flag `cancelled' is set
    done,          \* those whose flag `done' is set
    deadline,      \* NEVER, AHEAD or PASSED
    value,         \* the value a context carries: NONE, HELD or DESTROYED
    notified,      \* how often cancel_cb was called
    children,      \* ctx->children
    lock,          \* who holds children_lock
    handles,       \* the references each thread owns
    context,       \* coro->context, of the coroutine of Runner
    calls,         \* each thread's stack of calls, the innermost first
    result         \* what the call a thread returned from has returned to its caller

tree == <<life, parent, deadline>>
flags == <<cancelled, done, notified>>
users == <<handles, context>>
ctxVars == <<tree, flags, users, refcount, value, children, lock, calls, result>>

\* A call of function op for context c, at a point of its body; i counts the
\* children a loop has handled, and of a query the answer may be known to be
\* due when it starts.
Call(op, c, at) == [op |-> op, c |-> c, at |-> at, i |-> 0, due |-> FALSE]
Points == {"cas", "mark", "lock", "loop", "deadline", "parent", "inherit", "load", "done",
           "sub", "remove", "free", "add", "decide", "own", "old", "new"}
CallOK(f) == f.c \in Ctx \cup {NULL} /\ f.at \in Points /\ f.i \in Nat /\ f.due \in BOOLEAN

\* What the parts of the state hold.
CtxTypeOK ==
    /\ life \in [Ctx -> {"NONE", "LIVE", "FREED"}]
    /\ parent \in [Ctx -> Ctx \cup {NULL}]
    /\ refcount \in [Ctx -> Nat]
    /\ cancelled \subseteq Ctx /\ done \subseteq Ctx
    /\ deadline \in [Ctx -> {"NEVER", "AHEAD", "PASSED"}]
    /\ value \in [Ctx -> {"NONE", "HELD", "DESTROYED"}]
    /\ notified \in [Ctx -> Nat]
    /\ \A c \in Ctx : \A i \in 1..Len(children[c]) : children[c][i] \in Ctx
    /\ lock \in [Ctx -> Thread \cup {NULL}]
    /\ handles \in [Thread -> SUBSET Ctx]
    /\ context \in Ctx \cup {NULL}
    /\ \A t \in Thread : \A k \in 1..Len(calls[t]) : CallOK(calls[t][k])
    /\ result \in [Thread -> BOOLEAN]

\* Thread t is in no call; it calls op; its innermost call is one of op, for
\* the context Of(t).
Idle(t) == calls[t] = <<>>
Calls(t, op) == Idle(t) /\ op \in Does[t]
In(t, op, at) == calls[t] # <<>> /\ Head(calls[t]).op = op /\ Head(calls[t]).at = at
Of(t) == Head(calls[t]).c

\* The innermost call returns, goes on at another point, or calls f before.
Return(t) == calls' = [calls EXCEPT ![t] = Tail(@)]
Goto(t, at) == calls' = [calls EXCEPT ![t] = <<[Head(@) EXCEPT !.at = at]>> \o Tail(@)]
GotoAfter(t, at, f) ==
    calls' = [calls EXCEPT ![t] = <<f, [Head(@) EXCEPT !.at = at]>> \o Tail(@)]
Start(t, f) == calls' = [calls EXCEPT ![t] = <<f>>]

\* c and the contexts above it.
Above(c) ==
    LET up[n \in 0..Cardinality(Ctx)] ==
          IF n = 0 THEN {c} ELSE up[n - 1] \cup ({parent[x] : x \in up[n - 1]} \ {NULL})
    IN  up[Cardinality(Ctx)]

Without(s, x) == SelectSeq(s, LAMBDA y : y # x)

-----------------------------------------------------------------------------
(* coco_context_cancel().                                                  *)

\* Only the first to set the flag goes on.
cancel_cas(t) ==
    /\ In(t, "cancel", "cas")
    /\ cancelled' = cancelled \cup {Of(t)}
    /\ IF Of(t) \in cancelled THEN Return(t) ELSE Goto(t, "mark")
    /\ UNCHANGED <<tree, users, done, notified, refcount, value, children, lock, result>>

\* It is done, and the callback is called.
cancel_mark(t) ==
    /\ In(t, "cancel", "mark")
    /\ done' = done \cup {Of(t)}
    /\ notified' = [notified EXCEPT ![Of(t)] = @ + 1]
    /\ Goto(t, "lock")
    /\ UNCHANGED <<tree, users, cancelled, refcount, value, children, lock, result>>

cancel_lock(t) ==
    /\ In(t, "cancel", "lock")
    /\ lock[Of(t)] = NULL
    /\ lock' = [lock EXCEPT ![Of(t)] = t]
    /\ Goto(t, "loop")
    /\ UNCHANGED <<tree, flags, users, refcount, value, children, result>>

\* With the lock held every child is cancelled.
cancel_loop(t) ==
    LET f == Head(calls[t]) IN
    /\ In(t, "cancel", "loop")
    /\ IF f.i < Len(children[f.c])
       THEN /\ calls' = [calls EXCEPT ![t] =
                           <<Call("cancel", children[f.c][f.i + 1], "cas"),
                             [f EXCEPT !.i = @ + 1]>> \o Tail(@)]
            /\ UNCHANGED lock
       ELSE /\ lock' = [lock EXCEPT ![f.c] = NULL]
            /\ Return(t)
    /\ UNCHANGED <<tree, flags, users, refcount, value, children, result>>

-----------------------------------------------------------------------------
(* coco_context_is_cancelled() and coco_context_is_done().                 *)

\* The rest of is_cancelled for c, the call f: the parent is asked, if any.
AskParent(t, f) ==
    calls' = [calls EXCEPT ![t] =
                (IF parent[f.c] = NULL
                 THEN <<[f EXCEPT !.at = "load"]>>
                 ELSE <<Call("is_cancelled", parent[f.c], "deadline"),
                        [f EXCEPT !.at = "inherit"]>>) \o Tail(@)]

\* Mutant of is_cancelled_deadline: the parent is not asked.
is_cancelled_deadline_Alone(t) ==
    /\ In(t, "is_cancelled", "deadline")
    /\ IF deadline[Of(t)] = "PASSED"
       THEN GotoAfter(t, "parent", Call("cancel", Of(t), "cas"))
       ELSE Goto(t, "load")
    /\ UNCHANGED <<tree, flags, users, refcount, value, children, lock, result>>

\* A context whose deadline has passed is cancelled by whoever asks.
is_cancelled_deadline(t) ==
    /\ In(t, "is_cancelled", "deadline")
    /\ IF deadline[Of(t)] = "PASSED"
       THEN GotoAfter(t, "parent", Call("cancel", Of(t), "cas"))
       ELSE AskParent(t, Head(calls[t]))
    /\ UNCHANGED <<tree, flags, users, refcount, value, children, lock, result>>

is_cancelled_parent(t) ==
    /\ In(t, "is_cancelled", "parent")
    /\ AskParent(t, Head(calls[t]))
    /\ UNCHANGED <<tree, flags, users, refcount, value, children, lock, result>>

\* The child of a cancelled context is cancelled.
is_cancelled_inherit(t) ==
    /\ In(t, "is_cancelled", "inherit")
    /\ IF result[t] THEN GotoAfter(t, "load", Call("cancel", Of(t), "cas"))
                    ELSE Goto(t, "load")
    /\ result' = [result EXCEPT ![t] = FALSE]
    /\ UNCHANGED <<tree, flags, users, refcount, value, children, lock>>

is_cancelled_load(t) ==
    /\ In(t, "is_cancelled", "load")
    /\ result' = [result EXCEPT ![t] = Of(t) \in cancelled /\ Len(calls[t]) > 1]
    /\ Return(t)
    /\ UNCHANGED <<tree, flags, users, refcount, value, children, lock>>

\* (What is returned to the program is not kept.)
is_done_load(t) ==
    /\ In(t, "is_done", "done")
    /\ result' = [result EXCEPT ![t] = FALSE]
    /\ Return(t)
    /\ UNCHANGED <<tree, flags, users, refcount, value, children, lock>>

-----------------------------------------------------------------------------
(* coco_context_unref().                                                   *)

\* Whoever drops the last reference goes on to free the context.
unref_sub(t) ==
    /\ In(t, "unref", "sub")
    /\ refcount' = [refcount EXCEPT ![Of(t)] = @ - 1]
    /\ IF refcount[Of(t)] # 1 THEN Return(t)
       ELSE Goto(t, IF parent[Of(t)] = NULL THEN "free" ELSE "remove")
    /\ UNCHANGED <<tree, flags, users, value, children, lock, result>>

\* Mutant of unref_remove: the child leaves the list without the lock.
unref_remove_Unlocked(t) ==
    LET p == parent[Of(t)] IN
    /\ In(t, "unref", "remove")
    /\ children' = [children EXCEPT ![p] = Without(@, Of(t))]
    /\ GotoAfter(t, "free", Call("unref", p, "sub"))
    /\ UNCHANGED <<tree, flags, users, refcount, value, lock, result>>

\* coco_context_remove_child(), then the reference to the parent is dropped.
unref_remove(t) ==
    LET p == parent[Of(t)] IN
    /\ In(t, "unref", "remove")
    /\ lock[p] = NULL
    /\ children' = [children EXCEPT ![p] = Without(@, Of(t))]
    /\ GotoAfter(t, "free", Call("unref", p, "sub"))
    /\ UNCHANGED <<tree, flags, users, refcount, value, lock, result>>

\* Children left are cancelled and dropped; then the value is destroyed and
\* the context freed, with all it says.
unref_free(t) ==
    LET f == Head(calls[t]) IN
    /\ In(t, "unref", "free")
    /\ lock[f.c] \in {NULL, t}
    /\ IF f.i < Len(children[f.c])
       THEN LET k == children[f.c][f.i + 1]
            IN  /\ calls' = [calls EXCEPT ![t] =
                               <<Call("cancel", k, "cas"), Call("unref", k, "sub"),
                                 [f EXCEPT !.i = @ + 1]>> \o Tail(@)]
                /\ lock' = [lock EXCEPT ![f.c] = t]
                /\ UNCHANGED <<tree, flags, children, value>>
       ELSE /\ Return(t)
            /\ lock' = [lock EXCEPT ![f.c] = NULL]
            /\ life' = [life EXCEPT ![f.c] = "FREED"]
            /\ parent' = [parent EXCEPT ![f.c] = NULL]
            /\ deadline' = [deadline EXCEPT ![f.c] = "NEVER"]
            /\ cancelled' = cancelled \ {f.c}
            /\ done' = done \ {f.c}
            /\ notified' = [notified EXCEPT ![f.c] = 0]
            /\ children' = [children EXCEPT ![f.c] = <<>>]
            /\ value' = [value EXCEPT ![f.c] = IF @ = "HELD" THEN "DESTROYED" ELSE @]
    /\ UNCHANGED <<users, refcount, result>>

-----------------------------------------------------------------------------
(* coco_context_create(), also for coco_context_with_timeout(),            *)
(* coco_context_with_cancel() and coco_context_with_value().               *)

\* A new context under p, to which the caller has a reference (or p = NULL).
create_start(t, c, p) ==
    /\ Calls(t, "create")
    /\ life[c] = "NONE"
    /\ p \in Under[c] /\ (p = NULL \/ p \in handles[t])
    /\ life' = [life EXCEPT ![c] = "LIVE"]
    /\ parent' = [parent EXCEPT ![c] = p]
    /\ refcount' = [x \in Ctx |-> IF x = c THEN 1 ELSE IF x = p THEN refcount[x] + 1
                                                              ELSE refcount[x]]
    /\ deadline' = [deadline EXCEPT ![c] = IF c \in Timed THEN "AHEAD" ELSE "NEVER"]
    /\ Start(t, Call("create", c, IF p = NULL THEN "own" ELSE "add"))
    /\ UNCHANGED <<flags, users, value, children, lock, result>>

\* Mutant of create_add: the parent is not asked once the child is linked.
create_add_Unchecked(t) ==
    LET p == parent[Of(t)] IN
    /\ In(t, "create", "add")
    /\ lock[p] = NULL
    /\ children' = [children EXCEPT ![p] = Append(@, Of(t))]
    /\ Goto(t, "own")
    /\ UNCHANGED <<tree, flags, users, refcount, value, lock, result>>

\* Mutant of create_add: the parent is asked while it is locked.
create_add_Locked(t) ==
    LET p == parent[Of(t)] IN
    /\ In(t, "create", "add")
    /\ lock[p] = NULL
    /\ lock' = [lock EXCEPT ![p] = t]
    /\ children' = [children EXCEPT ![p] = Append(@, Of(t))]
    /\ GotoAfter(t, "decide", Call("is_cancelled", p, "deadline"))
    /\ UNCHANGED <<tree, flags, users, refcount, value, result>>

\* coco_context_add_child(), then the parent is asked.
create_add(t) ==
    LET p == parent[Of(t)] IN
    /\ In(t, "create", "add")
    /\ lock[p] = NULL
    /\ children' = [children EXCEPT ![p] = Append(@, Of(t))]
    /\ GotoAfter(t, "decide", Call("is_cancelled", p, "deadline"))
    /\ UNCHANGED <<tree, flags, users, refcount, value, lock, result>>

\* If the parent has been cancelled so is the new context.
create_decide(t) ==
    /\ In(t, "create", "decide")
    /\ IF result[t] THEN GotoAfter(t, "own", Call("cancel", Of(t), "cas"))
                    ELSE Goto(t, "own")
    /\ result' = [result EXCEPT ![t] = FALSE]
    /\ UNCHANGED <<tree, flags, users, refcount, value, children, lock>>

\* The caller gets the context; coco_context_with_value() adds the value.
create_return(t) ==
    /\ In(t, "create", "own")
    /\ handles' = [handles EXCEPT ![t] = @ \cup {Of(t)}]
    /\ value' = [value EXCEPT ![Of(t)] = "HELD"]
    /\ Return(t)
    /\ UNCHANGED <<tree, flags, context, refcount, children, lock, result>>

-----------------------------------------------------------------------------
(* The calls of the API.                                                   *)

\* coco_context_background(), and coco_context_todo() likewise.
coco_context_background(t) ==
    /\ Calls(t, "background") /\ Background \notin handles[t]
    /\ refcount' = [refcount EXCEPT ![Background] = @ + 1]
    /\ handles' = [handles EXCEPT ![t] = @ \cup {Background}]
    /\ UNCHANGED <<tree, flags, context, value, children, lock, calls, result>>

\* coco_context_ref() by a thread that has a reference, for another one.
coco_context_ref(t, u, c) ==
    /\ Calls(t, "ref") /\ c \in handles[t] /\ c \notin handles[u]
    /\ refcount' = [refcount EXCEPT ![c] = @ + 1]
    /\ handles' = [handles EXCEPT ![u] = @ \cup {c}]
    /\ UNCHANGED <<tree, flags, context, value, children, lock, calls, result>>

coco_context_unref(t, c) ==
    /\ Calls(t, "unref") /\ c \in handles[t]
    /\ handles' = [handles EXCEPT ![t] = @ \ {c}]
    /\ Start(t, Call("unref", c, "sub"))
    /\ UNCHANGED <<tree, flags, context, refcount, value, children, lock, result>>

coco_context_cancel(t, c) ==
    /\ Calls(t, "cancel") /\ c \in handles[t] /\ c \notin cancelled
    /\ Start(t, Call("cancel", c, "cas"))
    /\ UNCHANGED <<tree, flags, users, refcount, value, children, lock, result>>

\* The answer to a query of c is known when it starts.
Due(c) == \E a \in Above(c) : a \in cancelled \/ deadline[a] = "PASSED"

\* A query is about a context the thread, or its coroutine, has a reference to.
Holds(t, c) == c \in handles[t] \/ (t = Runner /\ c = context)

\* coco_context_is_cancelled(), also from coco_coro_should_cancel().
coco_context_is_cancelled(t, c) ==
    /\ Calls(t, "is_cancelled") /\ Holds(t, c)
    /\ Start(t, [Call("is_cancelled", c, "deadline") EXCEPT !.due = Due(c)])
    /\ UNCHANGED <<tree, flags, users, refcount, value, children, lock, result>>

\* coco_context_is_done(), the body of coco_context_wait_done().
coco_context_is_done(t, c) ==
    /\ Calls(t, "is_done") /\ Holds(t, c)
    /\ calls' = [calls EXCEPT ![t] = <<Call("is_cancelled", c, "deadline"),
                                       Call("is_done", c, "done")>>]
    /\ UNCHANGED <<tree, flags, users, refcount, value, children, lock, result>>

\* coco_coro_set_context() for the coroutine of Runner, with a context it has
\* a reference to, or NULL.
coco_coro_set_context(c) ==
    /\ Calls(Runner, "set_context")
    /\ c # context
    /\ c = NULL \/ c \in handles[Runner]
    /\ IF context = NULL
       THEN Start(Runner, Call("set_context", c, "new"))
       ELSE calls' = [calls EXCEPT ![Runner] = <<Call("unref", context, "sub"),
                                                 Call("set_context", c, "new")>>]
    /\ context' = NULL
    /\ UNCHANGED <<tree, flags, handles, refcount, value, children, lock, result>>

set_context_new ==
    LET c == Of(Runner) IN
    /\ In(Runner, "set_context", "new")
    /\ context' = c
    /\ refcount' = IF c = NULL THEN refcount ELSE [refcount EXCEPT ![c] = @ + 1]
    /\ Return(Runner)
    /\ UNCHANGED <<tree, flags, handles, value, children, lock, result>>

\* Time passes a deadline.
Expire(c) ==
    /\ life[c] = "LIVE" /\ deadline[c] = "AHEAD"
    /\ deadline' = [deadline EXCEPT ![c] = "PASSED"]
    /\ UNCHANGED <<life, parent, flags, users, refcount, value, children, lock, calls,
                   result>>

-----------------------------------------------------------------------------

CtxInit ==
    /\ life = [c \in Ctx |-> IF c = Background THEN "LIVE" ELSE "NONE"]
    /\ parent = [c \in Ctx |-> NULL]
    /\ refcount = [c \in Ctx |-> IF c = Background THEN 1 ELSE 0]
    /\ cancelled = {} /\ done = {}
    /\ deadline = [c \in Ctx |-> "NEVER"]
    /\ value = [c \in Ctx |-> "NONE"]
    /\ notified = [c \in Ctx |-> 0]
    /\ children = [c \in Ctx |-> <<>>]
    /\ lock = [c \in Ctx |-> NULL]
    /\ handles = [t \in Thread |-> {}]
    /\ context = NULL
    /\ calls = [t \in Thread |-> <<>>]
    /\ result = [t \in Thread |-> FALSE]

\* What a thread does inside a call.
Step(t) ==
    \/ cancel_cas(t) \/ cancel_mark(t) \/ cancel_lock(t) \/ cancel_loop(t)
    \/ is_cancelled_deadline(t) \/ is_cancelled_parent(t) \/ is_cancelled_inherit(t)
    \/ is_cancelled_load(t) \/ is_done_load(t)
    \/ unref_sub(t) \/ unref_remove(t) \/ unref_free(t)
    \/ create_add(t) \/ create_decide(t) \/ create_return(t)
    \/ t = Runner /\ set_context_new

CtxNext ==
    \/ \E t \in Thread : Step(t)
    \/ \E t \in Thread, c \in Ctx, p \in Ctx \cup {NULL} : create_start(t, c, p)
    \/ \E t \in Thread : coco_context_background(t)
    \/ \E t, u \in Thread, c \in Ctx : coco_context_ref(t, u, c)
    \/ \E t \in Thread, c \in Ctx : coco_context_unref(t, c)
    \/ \E t \in Thread, c \in Ctx : coco_context_cancel(t, c)
    \/ \E t \in Thread, c \in Ctx : coco_context_is_cancelled(t, c)
    \/ \E t \in Thread, c \in Ctx : coco_context_is_done(t, c)
    \/ \E c \in Ctx \cup {NULL} : coco_coro_set_context(c)
    \/ \E c \in Ctx : Expire(c)

-----------------------------------------------------------------------------
(* Properties.                                                             *)

\* No call is ever about a context that has been freed, nor does a list of
\* children or a parent pointer of a living context lead to one: the
\* references children hold and the lock under which they leave keep every
\* node alive for as long as somebody can walk to it.  So whoever holds a
\* context finds the values of all above it (coco_context_value()) intact.
NothingFreedInUse ==
    /\ \A t \in Thread : \A k \in 1..Len(calls[t]) :
         calls[t][k].c # NULL => life[calls[t][k].c] = "LIVE"
    /\ \A c \in Ctx : life[c] = "LIVE" =>
         /\ parent[c] # NULL =>
              \/ life[parent[c]] = "LIVE"
              \/ \E t \in Thread : \E k \in 1..Len(calls[t]) :
                   calls[t][k].op = "unref" /\ calls[t][k].c = c /\ calls[t][k].at = "free"
         /\ \A i \in 1..Len(children[c]) : life[children[c][i]] = "LIVE"
    /\ \A t \in Thread : \A c \in handles[t] : \A a \in Above(c) :
         life[a] = "LIVE" /\ value[a] # "DESTROYED"

\* The threads in a call of op for c at one of these points.
Pending(op, c, ats) ==
    {t \in Thread : \E k \in 1..Len(calls[t]) :
        calls[t][k].op = op /\ calls[t][k].c = c /\ calls[t][k].at \in ats}

\* The refcount of a context is the number of references there are: those
\* of threads and of the coroutine, one for every child, the global one of
\* the background context, and those on their way in or out.
RefcountExact ==
    \A c \in Ctx : life[c] # "NONE" =>
        refcount[c] =
            Cardinality({t \in Thread : c \in handles[t]})
          + (IF context = c THEN 1 ELSE 0)
          + (IF c = Background THEN 1 ELSE 0)
          + Cardinality({k \in Ctx : life[k] = "LIVE" /\ parent[k] = c
                                     /\ Pending("unref", k, {"free"}) = {}})
          + Cardinality(Pending("unref", c, {"sub"}))
          + Cardinality(Pending("create", c, {"add", "decide", "own"}))

\* A context lives exactly as long as somebody can reach it, whichever threads
\* create, share and drop references at the same time (coco_context_ref,
\* coco_context_unref, context_add_child, context_remove_child).
ReferencesHold == CtxTypeOK /\ NothingFreedInUse /\ RefcountExact

\* Cancellation misses nobody: a child of a cancelled context is cancelled,
\* or it will be by a call under way, which is either the canceller of the
\* parent that has not come to it yet or the creation of the child.
CancelReachesChildren ==
    \A c \in Ctx : life[c] = "LIVE" /\ parent[c] # NULL /\ parent[c] \in cancelled =>
        \/ c \in cancelled
        \/ \E t \in Thread : \E k \in 1..Len(calls[t]) :
             \/ calls[t][k].op = "cancel" /\ calls[t][k].c = parent[c]
             \/ calls[t][k].op = "create" /\ calls[t][k].c = c
             \/ calls[t][k].op = "unref" /\ calls[t][k].c = c /\ calls[t][k].at # "sub"

\* A cancelled context has its callback called once, whoever cancels it and
\* however many do so at the same time.
NotifiedOnce == \A c \in Ctx : notified[c] <= 1

\* coco_context_cancel() reaches every context below, each one once, even
\* those created or dropped while it goes down the tree.
CancelReachesOnce == CancelReachesChildren /\ NotifiedOnce

\* A query started when the context, or one above it, was cancelled or past
\* its deadline answers that it is cancelled.
QueryIsCurrent ==
    [][\A t \in Thread : is_cancelled_load(t) /\ Head(calls[t]).due => Of(t) \in cancelled]_ctxVars

\* Thread t waits for the lock of a context.
Blocked(t) ==
    \/ In(t, "cancel", "lock") /\ lock[Of(t)] # NULL
    \/ In(t, "unref", "free") /\ lock[Of(t)] \notin {NULL, t}
    \/ In(t, "unref", "remove") /\ lock[parent[Of(t)]] # NULL
    \/ In(t, "create", "add") /\ lock[parent[Of(t)]] # NULL

\* The locks, taken from a parent to its children by a cancellation and one
\* at a time by a context that joins or leaves its parent, never make a
\* thread wait for itself or all threads wait for one another.
NoDeadlock == (\E t \in Thread : ~Idle(t)) => \E t \in Thread : ~Idle(t) /\ ~Blocked(t)
=============================================================================
