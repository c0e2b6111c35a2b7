------------------------------ MODULE Signals -------------------------------
(***************************************************************************)
(* The preemption timer and the signal handlers of a thread that has       *)
(* several schedulers (core/preempt.c, platform/linux/preempt.c, the       *)
(* set-up and removal of core/signal.c, and their use in core/coro.c).     *)
(* The timer may go off, and its signal be delivered, between any two      *)
(* steps of the thread that do not mask it.                                *)
(***************************************************************************)
EXTENDS Integers

CONSTANTS
    MaxScheds,     \* bound: schedulers alive at once
    MaxNest        \* bound: sections with the signal blocked, one in the other

ASSUME SignalsAssumption == MaxScheds \in Nat \ {0} /\ MaxNest \in Nat

VARIABLES
    preempt,       \* g_preempt_state and g_linux_preempt: ref_count, enabled,
                   \* preempt_pending, armed, old_sa
    signal_refs,   \* g_signal_ref_count
    nest,          \* g_preempt_block_nest
    g_current,     \* g_current_coro: its kind and state
    at,            \* what the thread does: "main", "run" (a coroutine), or a
                   \* step of an arm, a disarm or a clean-up
    os,            \* the process: the SIGALRM and SIGSEGV handlers, the signal
                   \* stack, the timer, a raised SIGALRM, and the mask
    allocated,     \* the signal stacks that are allocated
    expired        \* history: the timer has gone off since the last switch

sigVars == <<preempt, signal_refs, nest, g_current, at, os, allocated, expired>>

NoCoro == [kind |-> "none", state |-> "none"]

-----------------------------------------------------------------------------
(* Schedulers come and go.                                                 *)

\* Where the program may create or destroy a scheduler: outside the
\* coroutines, or in one.  A system call returns after its signals are
\* delivered.
InProgram == at \in {"main", "run"} /\ ~os.raised /\ nest = 0

\* What coco_signal_init() and coco_preempt_platform_init() install.
coco_signal_init(o) == [o EXCEPT !.segv = "own", !.stack = "signal"]
coco_preempt_platform_init(o) == [o EXCEPT !.alrm = "own"]

\* coco_sched_create() calls coco_signal_init() and coco_preempt_init(): the
\* first scheduler installs the handlers and a signal stack for each, and
\* the one of the preemption replaces the other.
coco_sched_create ==
    /\ InProgram
    /\ preempt.ref_count < MaxScheds
    /\ signal_refs' = signal_refs + 1
    /\ IF preempt.ref_count > 0
       THEN preempt' = [preempt EXCEPT !.ref_count = @ + 1] /\ UNCHANGED <<os, allocated>>
       ELSE /\ preempt' = [ref_count |-> 1, enabled |-> FALSE, pending |-> FALSE,
                           armed |-> FALSE, old_sa |-> os.alrm]
            /\ allocated' = allocated \cup {"signal", "preempt"}
            /\ os' = coco_preempt_platform_init([coco_signal_init(os) EXCEPT !.stack = "preempt"])
    /\ UNCHANGED <<nest, g_current, at, expired>>

\* coco_signal_cleanup(), of coco_sched_destroy().  A coroutine does not
\* destroy the last scheduler, which is its own.
coco_signal_cleanup ==
    /\ InProgram
    /\ preempt.ref_count > 0
    /\ at = "run" => preempt.ref_count > 1
    /\ signal_refs' = signal_refs - 1
    /\ IF signal_refs > 1 THEN UNCHANGED <<os, allocated>>
       ELSE /\ os' = [os EXCEPT !.segv = "default", !.stack = "none"]
            /\ allocated' = allocated \ {"signal"}
    /\ at' = IF at = "run" THEN "cleanup_run" ELSE "cleanup_main"
    /\ UNCHANGED <<preempt, nest, g_current, expired>>

\* Mutant of LastReference: every scheduler removes what it shares.
LastReference_Ignored(refs) == TRUE

\* The clean-up of the last scheduler is the one that counts.
LastReference(refs) == refs = 1

\* coco_preempt_cleanup(), after it: the old handler comes back, and then
\* the timer is stopped and the signal stack freed.
coco_preempt_cleanup ==
    /\ at \in {"cleanup_run", "cleanup_main"}
    /\ preempt' = [preempt EXCEPT !.ref_count = @ - 1]
    /\ IF LastReference(preempt.ref_count)
       THEN /\ os' = [os EXCEPT !.alrm = preempt.old_sa]
            /\ at' = IF at = "cleanup_run" THEN "removed_run" ELSE "removed_main"
       ELSE /\ at' = IF at = "cleanup_run" THEN "run" ELSE "main"
            /\ UNCHANGED os
    /\ UNCHANGED <<signal_refs, nest, g_current, allocated, expired>>

Removed ==
    /\ at \in {"removed_run", "removed_main"}
    /\ os' = [os EXCEPT !.timer = @ /\ ~preempt.armed, !.stack = "none"]
    /\ preempt' = [preempt EXCEPT !.armed = FALSE]
    /\ allocated' = allocated \ {"preempt"}
    /\ at' = IF at = "removed_run" THEN "run" ELSE "main"
    /\ UNCHANGED <<signal_refs, nest, g_current, expired>>

-----------------------------------------------------------------------------
(* Coroutines run.                                                         *)

\* switch_to_coro(): only a coroutine with a stack of its own is timed.
switch_to_coro(kind) ==
    /\ at = "main" /\ ~os.raised /\ nest = 0
    /\ preempt.ref_count > 0
    /\ g_current' = [kind |-> kind, state |-> "RUNNING"]
    /\ at' = IF kind = "exclusive" THEN "arm_enable" ELSE "run"
    /\ expired' = FALSE
    /\ UNCHANGED <<preempt, signal_refs, nest, os, allocated>>

\* coco_preempt_platform_arm(): the timer is set.
coco_preempt_platform_arm(o) == [o EXCEPT !.timer = TRUE]

\* coco_preempt_arm(), in its order: enabled, pending, the timer.
coco_preempt_arm ==
    /\ \/ /\ at = "arm_enable" /\ at' = "arm_clear"
          /\ preempt' = [preempt EXCEPT !.enabled = TRUE]
          /\ UNCHANGED os
       \/ /\ at = "arm_clear" /\ at' = "arm_timer"
          /\ preempt' = [preempt EXCEPT !.pending = FALSE]
          /\ UNCHANGED os
       \/ /\ at = "arm_timer" /\ at' = "run"
          /\ preempt' = [preempt EXCEPT !.armed = TRUE]
          /\ os' = coco_preempt_platform_arm(os)
    /\ UNCHANGED <<signal_refs, nest, g_current, allocated, expired>>

\* Mutant of Disarmed: the mark of the signal outlives the switch.
Disarmed_KeepsPending(p) == [p EXCEPT !.enabled = FALSE]

\* What coco_preempt_disarm() does to the flags, before the timer is stopped.
Disarmed(p) == [p EXCEPT !.enabled = FALSE, !.pending = FALSE]

\* coco_preempt_disarm(), when a timed coroutine has switched back.
coco_preempt_disarm ==
    /\ \/ /\ at = "disarm_flags" /\ at' = "disarm_timer"
          /\ preempt' = Disarmed(preempt)
          /\ UNCHANGED os
       \/ /\ at = "disarm_timer" /\ at' = "main"
          /\ preempt' = [preempt EXCEPT !.armed = FALSE]
          /\ os' = [os EXCEPT !.timer = FALSE]
    /\ UNCHANGED <<signal_refs, nest, g_current, allocated, expired>>

\* The coroutine yields or blocks, or ends in coco_exit(), which clears
\* g_current_coro.
SwitchBack ==
    /\ at = "run" /\ nest = 0
    /\ g_current' \in {[g_current EXCEPT !.state = "READY"], NoCoro}
    /\ at' = IF g_current.kind = "exclusive" THEN "disarm_flags" ELSE "main"
    /\ UNCHANGED <<preempt, signal_refs, nest, os, allocated, expired>>

\* coco_preempt_enable() and coco_preempt_disable().
coco_preempt_enable(on) ==
    /\ at = "run"
    /\ preempt' = [preempt EXCEPT !.enabled = on]
    /\ UNCHANGED <<signal_refs, nest, g_current, at, os, allocated, expired>>

\* coco_preempt_checkpoint(), when there is something to do.
coco_preempt_checkpoint ==
    /\ at = "run" /\ nest = 0
    /\ preempt.pending /\ preempt.enabled
    /\ preempt' = [preempt EXCEPT !.pending = FALSE]
    /\ g_current' = [g_current EXCEPT !.state = "READY"]
    /\ at' = IF g_current.kind = "exclusive" THEN "disarm_flags" ELSE "main"
    /\ UNCHANGED <<signal_refs, nest, os, allocated, expired>>

\* coco_preempt_block_signal(): the outermost one masks the signal.
coco_preempt_block_signal ==
    /\ at \in {"main", "run"} /\ nest < MaxNest
    /\ nest' = nest + 1
    /\ os' = IF nest = 0 THEN [os EXCEPT !.masked = TRUE] ELSE os
    /\ UNCHANGED <<preempt, signal_refs, g_current, at, allocated, expired>>

\* The end of the outermost section unmasks it.
Outermost(n) == n = 1

\* coco_preempt_unblock_signal().
coco_preempt_unblock_signal ==
    /\ at \in {"main", "run"} /\ nest > 0
    /\ nest' = nest - 1
    /\ os' = IF Outermost(nest) THEN [os EXCEPT !.masked = FALSE] ELSE os
    /\ UNCHANGED <<preempt, signal_refs, g_current, at, allocated, expired>>

-----------------------------------------------------------------------------
(* The kernel and the handler.                                             *)

\* The one-shot timer goes off.
TimerExpires ==
    /\ os.timer
    /\ os' = [os EXCEPT !.timer = FALSE, !.raised = TRUE]
    /\ expired' = TRUE
    /\ UNCHANGED <<preempt, signal_refs, nest, g_current, at, allocated>>

\* coco_preempt_handler() marks a coroutine that runs and may be preempted.
coco_preempt_handler ==
    /\ os.raised /\ ~os.masked
    /\ os' = [os EXCEPT !.raised = FALSE]
    /\ preempt' = [preempt EXCEPT !.pending = @ \/ (preempt.enabled /\ g_current.state = "RUNNING")]
    /\ UNCHANGED <<signal_refs, nest, g_current, at, allocated, expired>>

SigInit ==
    /\ preempt = [ref_count |-> 0, enabled |-> FALSE, pending |-> FALSE, armed |-> FALSE,
                  old_sa |-> "default"]
    /\ signal_refs = 0 /\ nest = 0
    /\ g_current = NoCoro
    /\ at = "main"
    /\ os = [segv |-> "default", alrm |-> "default", stack |-> "none",
             timer |-> FALSE, raised |-> FALSE, masked |-> FALSE]
    /\ allocated = {}
    /\ expired = FALSE

SigNext ==
    \/ coco_sched_create \/ coco_signal_cleanup \/ coco_preempt_cleanup \/ Removed
    \/ \E kind \in {"exclusive", "hot"} : switch_to_coro(kind)
    \/ coco_preempt_arm \/ coco_preempt_disarm \/ SwitchBack
    \/ \E enabled \in BOOLEAN : coco_preempt_enable(enabled)
    \/ coco_preempt_checkpoint
    \/ coco_preempt_block_signal \/ coco_preempt_unblock_signal
    \/ TimerExpires \/ coco_preempt_handler

SigSpec == SigInit /\ [][SigNext]_sigVars

-----------------------------------------------------------------------------
(* Properties.                                                             *)

\* A SIGALRM that is raised or can still come finds its handler, whose
\* default would end the process, and the signal stack is never memory that
\* was freed, whichever scheduler is destroyed first and wherever.  A section
\* with the signal blocked is not interrupted before its own end, though
\* sections it contains have ended, and nothing stays blocked after it.
SignalsAreSafe ==
    /\ os.timer \/ os.raised => os.alrm = "own"
    /\ os.stack \in allocated \cup {"none"}
    /\ os.masked <=> nest > 0

\* A pending preemption is about the coroutine that runs: its own timer went
\* off since the switch to it.  A signal between two steps of a disarm or of
\* the next arm does not charge the coroutine that comes next.
PendingIsOwn ==
    preempt.pending => expired /\ g_current.kind # "hot" /\ at # "main"
=============================================================================
