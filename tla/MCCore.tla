------------------------------- MODULE MCCore -------------------------------
(***************************************************************************)
(* An instance for TLC of what a coroutine owns: its stack and hot-stack   *)
(* slot, its context (with a thread that hands contexts out and gives one  *)
(* to its coroutine and a thread that works under them), its local         *)
(* storage, or the thread it runs on with the preemption timer.  The four  *)
(* share nothing, so each behaviour is about one.                          *)
(***************************************************************************)
EXTENDS Stacks, Context, Cls, Signals, TLC

CONSTANTS x1, x2

VARIABLE part

Roles == [t \in Thread |->
            IF t = Runner THEN {"background", "create", "ref", "unref", "set_context"}
                          ELSE {"unref", "cancel", "is_cancelled", "is_done"}]

Parents == [x \in Ctx |-> CASE x = x1 -> {Background}
                            [] x = x2 -> {x1}
                            [] OTHER  -> {}]

Symmetric == Permutations(Coro \ Ranked) \cup Permutations(Stack)

MCInit == part \in {"stacks", "context", "cls", "signals"} /\ Init /\ CtxInit /\ ClsInit /\ SigInit

MCNext ==
    \/ part = "stacks" /\ Next /\ UNCHANGED <<ctxVars, clsVars, sigVars, part>>
    \/ part = "context" /\ CtxNext /\ UNCHANGED <<vars, clsVars, sigVars, part>>
    \/ part = "cls" /\ ClsNext /\ UNCHANGED <<vars, ctxVars, sigVars, part>>
    \/ part = "signals" /\ SigNext /\ UNCHANGED <<vars, ctxVars, clsVars, part>>

MCSpec == MCInit /\ [][MCNext]_<<vars, ctxVars, clsVars, sigVars, part>>
=============================================================================
