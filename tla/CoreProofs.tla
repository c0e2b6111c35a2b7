----------------------------- MODULE CoreProofs -----------------------------
(***************************************************************************)
(* What a coroutine owns.  Local storage destroys a value once, when it    *)
(* leaves the table; the preemption signal finds only memory that is       *)
(* there, and is pending only for the coroutine that runs: for any number  *)
(* of keys, values and schedulers and any depth of blocked sections.  The  *)
(* slots, the LRU list and the pool of stacks are consistent whatever the  *)
(* number of coroutines, slots and stacks, the reserved slot is only given *)
(* to a HIGH coroutine, and a coroutine always finds its frames again, for *)
(* any depth, as long as realloc() of a backup succeeds.                   *)
(***************************************************************************)
EXTENDS Stacks, Cls, Signals, TLAPS

-----------------------------------------------------------------------------
(* The signals.                                                            *)

\* Where the thread can be: in a coroutine or on the way into it, on the way
\* out of it, or outside.
Inside == {"arm_enable", "arm_clear", "arm_timer", "run", "cleanup_run"}
Outside == {"disarm_flags", "disarm_timer", "main", "cleanup_main", "removed_main"}
Arming == {"arm_enable", "arm_clear", "arm_timer"}
Idle == {"main", "cleanup_main", "removed_main"}

\* The types of the variables.
Preempts == [ref_count : Nat, enabled : BOOLEAN, pending : BOOLEAN, armed : BOOLEAN,
             old_sa : {"default", "own"}]
Processes == [segv : {"default", "own"}, alrm : {"default", "own"},
              stack : {"none", "signal", "preempt"},
              timer : BOOLEAN, raised : BOOLEAN, masked : BOOLEAN]

SigTypes ==
    /\ preempt \in Preempts
    /\ signal_refs \in Nat
    /\ nest \in Nat
    /\ g_current \in [kind : {"none", "exclusive", "hot"}, state : {"none", "RUNNING", "READY"}]
    /\ at \in Inside \cup Outside
    /\ os \in Processes
    /\ allocated \in SUBSET {"signal", "preempt"}
    /\ expired \in BOOLEAN

\* The counts: equal but during a clean-up, and not 0 where a coroutine runs
\* or has just run.
CountInv ==
    /\ signal_refs = IF at \in {"cleanup_run", "cleanup_main"} THEN preempt.ref_count - 1
                                                               ELSE preempt.ref_count
    /\ at \in (Inside \cup {"disarm_flags", "disarm_timer", "cleanup_main"}) => preempt.ref_count > 0
    /\ at = "cleanup_run" => preempt.ref_count > 1
    /\ at = "removed_main" => preempt.ref_count = 0

\* What is installed: the handler while a scheduler is alive, and a stack only
\* while it is allocated.
HandlerInv ==
    /\ preempt.ref_count > 0 => os.alrm = "own" /\ "preempt" \in allocated
    /\ os.stack \in {"none", "preempt"}
    /\ os.stack = "preempt" => preempt.ref_count > 0 /\ signal_refs > 0

\* The timer runs only where a timed coroutine does, or has just left; its
\* signal waits at most until the next one is switched to, and comes with a
\* clean-up only if that is of another scheduler than the last.
TimerInv ==
    /\ os.timer => at \in {"run", "cleanup_run", "disarm_flags", "disarm_timer"}
    /\ os.raised => at \in {"run", "cleanup_run", "disarm_flags", "disarm_timer", "main"}
    /\ os.raised => preempt.ref_count > 0 /\ expired
    /\ preempt.pending => expired
    /\ g_current.kind = "hot" => ~os.timer /\ ~os.raised /\ ~preempt.pending
    /\ at \in Inside <=> g_current.state = "RUNNING"
    /\ at \in Arming \cup Idle \cup {"disarm_timer"} => ~preempt.pending
    /\ at \in Arming => g_current.kind = "exclusive"
    /\ at \in Inside => g_current.kind # "none"

\* The signal is masked exactly inside blocked sections.
MaskInv == os.masked <=> nest > 0

\* The inductive invariant.
SignalInv == SigTypes /\ CountInv /\ HandlerInv /\ TimerInv /\ MaskInv

\* It holds when the thread starts.
LEMMA InitSignalInv == SigInit => SignalInv
  <1> SUFFICES ASSUME SigInit PROVE SignalInv
    BY Zenon
  <1> USE DEF SigInit, NoCoro, Inside, Outside, Arming, Idle
  <1>1. SigTypes
    BY Zenon DEF SigTypes, Preempts, Processes
  <1>2. CountInv
    BY Zenon DEF CountInv
  <1>3. HandlerInv
    BY DEF HandlerInv
  <1>4. TimerInv
    BY Zenon DEF TimerInv
  <1>5. MaskInv
    BY DEF MaskInv
  <1> QED
    BY <1>1, <1>2, <1>3, <1>4, <1>5, Zenon DEF SignalInv

\* What the first scheduler installs: its handler and its stack; it leaves
\* the timer, the signal and the mask as they are.
LEMMA InstalledFields ==
    ASSUME NEW o \in Processes
    PROVE  LET n == coco_preempt_platform_init([coco_signal_init(o) EXCEPT !.stack = "preempt"])
           IN  /\ n \in Processes
               /\ n.alrm = "own" /\ n.stack = "preempt"
               /\ n.timer = o.timer /\ n.raised = o.raised /\ n.masked = o.masked
  <1> DEFINE n1 == coco_signal_init(o)
             n2 == [n1 EXCEPT !.stack = "preempt"]
             n == coco_preempt_platform_init(n2)
  <1>1. n1 \in Processes /\ n1.timer = o.timer /\ n1.raised = o.raised /\ n1.masked = o.masked
    BY Zenon DEF coco_signal_init, Processes
  <1> HIDE DEF n1
  <1>2. /\ n2 \in Processes /\ n2.stack = "preempt"
        /\ n2.timer = n1.timer /\ n2.raised = n1.raised /\ n2.masked = n1.masked
    BY <1>1, Zenon DEF Processes
  <1> HIDE DEF n2
  <1>3. /\ n \in Processes /\ n.alrm = "own" /\ n.stack = n2.stack
        /\ n.timer = n2.timer /\ n.raised = n2.raised /\ n.masked = n2.masked
    BY <1>2, Zenon DEF coco_preempt_platform_init, Processes
  <1>4. /\ n \in Processes /\ n.alrm = "own" /\ n.stack = "preempt"
        /\ n.timer = o.timer /\ n.raised = o.raised /\ n.masked = o.masked
    BY <1>1, <1>2, <1>3, Zenon
  <1> QED
    BY <1>4, Zenon DEF n1, n2

\* The state of the preemption when the first scheduler is created.
LEMMA FirstFields ==
    ASSUME NEW sa \in {"default", "own"}
    PROVE  LET p == [ref_count |-> 1, enabled |-> FALSE, pending |-> FALSE, armed |-> FALSE,
                     old_sa |-> sa]
           IN  p \in Preempts /\ p.ref_count = 1 /\ ~p.pending
  BY Zenon DEF Preempts

\* Every step keeps it.
LEMMA NextSignalInv ==
    ASSUME SignalInv, [SigNext]_sigVars
    PROVE  SignalInv'
  <1> USE SignalsAssumption DEF SignalInv, Inside, Outside, Arming, Idle, Preempts, Processes
  <1>1. CASE coco_sched_create
    <2> USE <1>1 DEF coco_sched_create, InProgram
    <2>0. /\ preempt' \in Preempts /\ os' \in Processes
          /\ preempt.ref_count = 0 => /\ os'.alrm = "own" /\ os'.stack = "preempt"
                                      /\ preempt'.ref_count = 1 /\ ~preempt'.pending
          /\ os'.timer = os.timer /\ os'.raised = os.raised /\ os'.masked = os.masked
      <3>1. CASE preempt.ref_count > 0
        BY <3>1 DEF SigTypes
      <3>2. CASE preempt.ref_count = 0
        <4>1. os.alrm \in {"default", "own"} /\ os \in Processes
          BY Zenon DEF SigTypes
        <4> HIDE DEF Preempts, Processes
        <4>2. preempt' \in Preempts /\ preempt'.ref_count = 1 /\ ~preempt'.pending
          <5>1. preempt' = [ref_count |-> 1, enabled |-> FALSE, pending |-> FALSE,
                            armed |-> FALSE, old_sa |-> os.alrm]
            BY <3>2
          <5> QED
            BY ONLY <4>1, <5>1, FirstFields, Zenon
        <4> QED
          BY <3>2, <4>1, <4>2, InstalledFields
      <3> QED
        BY <3>1, <3>2 DEF SigTypes
    <2>1. SigTypes'
      <3>1. signal_refs' \in Nat
        BY DEF SigTypes
      <3> QED
        BY <2>0, <3>1 DEF SigTypes
    <2>2. CountInv'
      BY DEF SigTypes, CountInv
    <2>3. HandlerInv'
      <3>1. CASE preempt.ref_count > 0
        BY <3>1 DEF SigTypes, HandlerInv, CountInv
      <3>2. CASE preempt.ref_count = 0
        <4>1. os'.alrm = "own" /\ os'.stack = "preempt" /\ preempt'.ref_count = 1
          BY <2>0, <3>2, Zenon
        <4>2. signal_refs' > 0 /\ "preempt" \in allocated'
          BY <3>2 DEF SigTypes
        <4> QED
          BY <4>1, <4>2 DEF HandlerInv
      <3> QED
        BY <3>1, <3>2 DEF SigTypes
    <2>4. TimerInv'
      <3>1. CASE preempt.ref_count > 0
        <4>1. /\ os' = os /\ preempt'.ref_count > 0 /\ preempt'.pending = preempt.pending
              /\ UNCHANGED <<g_current, at, expired>>
          BY <3>1 DEF SigTypes
        <4> QED
          BY <4>1, <3>1 DEF TimerInv
      <3>2. CASE preempt.ref_count = 0
        <4>1. at = "main"
          BY <3>2 DEF CountInv
        <4>2. os'.timer = os.timer /\ os'.raised = os.raised /\ ~preempt'.pending
          BY <2>0, <3>2, Zenon
        <4>3. ~os.timer /\ ~os.raised
          BY <4>1, Zenon DEF TimerInv, SigTypes
        <4>4. UNCHANGED <<g_current, at, expired>>
          BY Zenon
        <4> QED
          BY <4>1, <4>2, <4>3, <4>4, Zenon DEF TimerInv
      <3> QED
        BY <3>1, <3>2 DEF SigTypes
    <2>5. MaskInv'
      BY <2>0, Zenon DEF SigTypes, MaskInv
    <2> QED
      BY <2>1, <2>2, <2>3, <2>4, <2>5, Zenon
  <1>2. CASE coco_signal_cleanup
    <2> USE <1>2 DEF coco_signal_cleanup, InProgram
    <2>1. SigTypes'
      <3>1. preempt' \in Preempts
        BY Zenon DEF SigTypes, CountInv
      <3>2. os' \in Processes
        <4>1. CASE signal_refs > 1
          BY <4>1, Zenon DEF SigTypes
        <4>2. CASE ~(signal_refs > 1)
          <5>1. os' = [os EXCEPT !.segv = "default", !.stack = "none"]
            BY <4>2, Zenon
          <5>2. os \in Processes
            BY Zenon DEF SigTypes
          <5> QED
            BY ONLY <5>1, <5>2, Zenon DEF Processes
        <4> QED
          BY <4>1, <4>2, Zenon
      <3>3. signal_refs' \in Nat /\ nest' \in Nat /\ at' \in Inside \cup Outside
        BY DEF SigTypes, CountInv
      <3> QED
        BY <3>1, <3>2, <3>3 DEF SigTypes
    <2>2. CountInv'
      BY Zenon DEF SigTypes, CountInv
    <2>3. HandlerInv'
      <3>1. CASE signal_refs > 1
        BY <3>1 DEF SigTypes, HandlerInv, CountInv
      <3>2. CASE ~(signal_refs > 1)
        <4>1. os'.alrm = os.alrm /\ os'.stack = "none" /\ allocated' = allocated \ {"signal"}
          BY <3>2, Zenon DEF SigTypes
        <4> QED
          BY <4>1, Zenon DEF HandlerInv
      <3> QED
        BY <3>1, <3>2, Zenon
    <2>4. TimerInv'
      <3>1. os'.timer = os.timer /\ os'.raised = os.raised
        BY ZenonT(40) DEF SigTypes
      <3>2. at \in {"main", "run"} /\ ~os.raised /\ preempt.ref_count > 0
        BY Zenon
      <3>3. at' = IF at = "run" THEN "cleanup_run" ELSE "cleanup_main"
        BY Zenon
      <3>4. UNCHANGED <<preempt, g_current, expired>>
        BY Zenon
      <3> QED
        BY <3>1, <3>2, <3>3, <3>4 DEF TimerInv
    <2>5. MaskInv'
      BY ZenonT(40) DEF SigTypes, MaskInv
    <2> QED
      BY <2>1, <2>2, <2>3, <2>4, <2>5, Zenon
  <1>3. CASE coco_preempt_cleanup
    <2> USE <1>3 DEF coco_preempt_cleanup, LastReference
    <2>1. SigTypes'
      <3>1. preempt' \in Preempts
        BY Zenon DEF SigTypes, CountInv
      <3>2. os' \in Processes
        BY DEF SigTypes
      <3>3. signal_refs' \in Nat /\ nest' \in Nat /\ at' \in Inside \cup Outside
        BY DEF SigTypes, CountInv
      <3> QED
        BY <3>1, <3>2, <3>3, Zenon DEF SigTypes
    <2>2. CountInv'
      BY DEF SigTypes, CountInv
    <2>3. HandlerInv'
      BY DEF SigTypes, HandlerInv, CountInv
    <2>4. TimerInv'
      BY DEF SigTypes, TimerInv, CountInv
    <2>5. MaskInv'
      BY DEF SigTypes, MaskInv
    <2> QED
      BY <2>1, <2>2, <2>3, <2>4, <2>5, Zenon
  <1>4. CASE Removed
    <2> USE <1>4 DEF Removed
    <2>1. SigTypes'
      <3>1. preempt' \in Preempts
        BY Zenon DEF SigTypes, CountInv
      <3>2. os' \in Processes
        BY Zenon DEF SigTypes
      <3>3. signal_refs' \in Nat /\ nest' \in Nat /\ at' \in Inside \cup Outside
        BY Zenon DEF SigTypes, CountInv
      <3> QED
        BY <3>1, <3>2, <3>3 DEF SigTypes
    <2>2. CountInv'
      BY Zenon DEF SigTypes, CountInv
    <2>3. HandlerInv'
      BY DEF SigTypes, HandlerInv, CountInv
    <2>4. TimerInv'
      BY Zenon DEF SigTypes, TimerInv, CountInv
    <2>5. MaskInv'
      BY Zenon DEF SigTypes, MaskInv
    <2> QED
      BY <2>1, <2>2, <2>3, <2>4, <2>5, Zenon
  <1>5. ASSUME NEW kind \in {"exclusive", "hot"}, switch_to_coro(kind)
        PROVE  SignalInv'
    <2> USE <1>5 DEF switch_to_coro
    <2>1. SigTypes'
      <3>1. preempt' \in Preempts
        BY Zenon DEF SigTypes, CountInv
      <3>2. os' \in Processes
        BY Zenon DEF SigTypes
      <3>3. signal_refs' \in Nat /\ nest' \in Nat /\ at' \in Inside \cup Outside
        BY Zenon DEF SigTypes, CountInv
      <3> QED
        BY <3>1, <3>2, <3>3, Zenon DEF SigTypes
    <2>2. CountInv'
      BY Zenon DEF SigTypes, CountInv
    <2>3. HandlerInv'
      BY Zenon DEF SigTypes, HandlerInv, CountInv
    <2>4. TimerInv'
      BY Zenon DEF SigTypes, TimerInv, CountInv
    <2>5. MaskInv'
      BY Zenon DEF SigTypes, MaskInv
    <2> QED
      BY <2>1, <2>2, <2>3, <2>4, <2>5, Zenon
  <1>6. CASE coco_preempt_arm
    <2> USE <1>6 DEF coco_preempt_arm, coco_preempt_platform_arm
    <2>1. SigTypes'
      <3>1. preempt' \in Preempts
        BY ZenonT(40) DEF SigTypes, CountInv
      <3>2. os' \in Processes
        BY ZenonT(40) DEF SigTypes
      <3>3. signal_refs' \in Nat /\ nest' \in Nat /\ at' \in Inside \cup Outside
        BY Zenon DEF SigTypes, CountInv
      <3> QED
        BY <3>1, <3>2, <3>3, Zenon DEF SigTypes
    <2>2. CountInv'
      BY DEF SigTypes, CountInv
    <2>3. HandlerInv'
      BY DEF SigTypes, HandlerInv, CountInv
    <2>4. TimerInv'
      BY DEF SigTypes, TimerInv, CountInv
    <2>5. MaskInv'
      BY DEF SigTypes, MaskInv
    <2> QED
      BY <2>1, <2>2, <2>3, <2>4, <2>5, Zenon
  <1>7. CASE coco_preempt_disarm
    <2> USE <1>7 DEF coco_preempt_disarm, Disarmed
    <2>1. SigTypes'
      <3>1. preempt' \in Preempts
        BY ZenonT(40) DEF SigTypes, CountInv
      <3>2. os' \in Processes
        BY ZenonT(40) DEF SigTypes
      <3>3. signal_refs' \in Nat /\ nest' \in Nat /\ at' \in Inside \cup Outside
        BY Zenon DEF SigTypes, CountInv
      <3> QED
        BY <3>1, <3>2, <3>3, Zenon DEF SigTypes
    <2>2. CountInv'
      BY ZenonT(40) DEF SigTypes, CountInv
    <2>3. HandlerInv'
      BY ZenonT(40) DEF SigTypes, HandlerInv, CountInv
    <2>4. TimerInv'
      BY ZenonT(40) DEF SigTypes, TimerInv, CountInv
    <2>5. MaskInv'
      BY DEF SigTypes, MaskInv
    <2> QED
      BY <2>1, <2>2, <2>3, <2>4, <2>5, Zenon
  <1>8. CASE SwitchBack
    <2> USE <1>8 DEF SwitchBack, NoCoro
    <2>1. SigTypes'
      <3>1. preempt' \in Preempts
        BY Zenon DEF SigTypes, CountInv
      <3>2. os' \in Processes
        BY Zenon DEF SigTypes
      <3>3. signal_refs' \in Nat /\ nest' \in Nat /\ at' \in Inside \cup Outside
        BY Zenon DEF SigTypes, CountInv
      <3> QED
        BY <3>1, <3>2, <3>3 DEF SigTypes
    <2>2. CountInv'
      BY Zenon DEF SigTypes, CountInv
    <2>3. HandlerInv'
      BY Zenon DEF SigTypes, HandlerInv, CountInv
    <2>4. TimerInv'
      <3>1. (os.timer => at \in {"run", "cleanup_run", "disarm_flags", "disarm_timer"})'
        BY Zenon DEF SigTypes, CountInv, TimerInv
      <3>2. (os.raised => at \in {"run", "cleanup_run", "disarm_flags", "disarm_timer", "main"})'
        BY Zenon DEF SigTypes, CountInv, TimerInv
      <3>3. (os.raised => preempt.ref_count > 0 /\ expired)'
        BY Zenon DEF SigTypes, CountInv, TimerInv
      <3>4. (preempt.pending => expired)'
        BY Zenon DEF SigTypes, CountInv, TimerInv
      <3>5. (g_current.kind = "hot" => ~os.timer /\ ~os.raised /\ ~preempt.pending)'
        BY DEF SigTypes, CountInv, TimerInv
      <3>6. (at \in Inside <=> g_current.state = "RUNNING")'
        BY DEF SigTypes, CountInv, TimerInv
      <3>7. (at \in Arming \cup Idle \cup {"disarm_timer"} => ~preempt.pending)'
        BY Zenon DEF SigTypes, CountInv, TimerInv
      <3>8. (at \in Arming => g_current.kind = "exclusive")'
        BY Zenon DEF SigTypes, CountInv, TimerInv
      <3>9. (at \in Inside => g_current.kind # "none")'
        BY Zenon DEF SigTypes, CountInv, TimerInv
      <3> QED
        BY <3>1, <3>2, <3>3, <3>4, <3>5, <3>6, <3>7, <3>8, <3>9, Zenon DEF TimerInv
    <2>5. MaskInv'
      BY Zenon DEF SigTypes, MaskInv
    <2> QED
      BY <2>1, <2>2, <2>3, <2>4, <2>5, Zenon
  <1>9. ASSUME NEW enabled \in BOOLEAN, coco_preempt_enable(enabled)
        PROVE  SignalInv'
    <2> USE <1>9 DEF coco_preempt_enable
    <2>1. SigTypes'
      <3>1. preempt' \in Preempts
        BY Zenon DEF SigTypes, CountInv
      <3>2. os' \in Processes
        BY Zenon DEF SigTypes
      <3>3. signal_refs' \in Nat /\ nest' \in Nat /\ at' \in Inside \cup Outside
        BY Zenon DEF SigTypes, CountInv
      <3> QED
        BY <3>1, <3>2, <3>3, Zenon DEF SigTypes
    <2>2. CountInv'
      BY Zenon DEF SigTypes, CountInv
    <2>3. HandlerInv'
      BY Zenon DEF SigTypes, HandlerInv, CountInv
    <2>4. TimerInv'
      BY Zenon DEF SigTypes, TimerInv, CountInv
    <2>5. MaskInv'
      BY Zenon DEF SigTypes, MaskInv
    <2> QED
      BY <2>1, <2>2, <2>3, <2>4, <2>5, Zenon
  <1>10. CASE coco_preempt_checkpoint
    <2> USE <1>10 DEF coco_preempt_checkpoint
    <2>1. SigTypes'
      <3>1. preempt' \in Preempts
        BY Zenon DEF SigTypes, CountInv
      <3>2. os' \in Processes
        BY Zenon DEF SigTypes
      <3>3. signal_refs' \in Nat /\ nest' \in Nat /\ at' \in Inside \cup Outside
        BY Zenon DEF SigTypes, CountInv
      <3> QED
        BY <3>1, <3>2, <3>3, Zenon DEF SigTypes
    <2>2. CountInv'
      BY Zenon DEF SigTypes, CountInv
    <2>3. HandlerInv'
      BY Zenon DEF SigTypes, HandlerInv, CountInv
    <2>4. TimerInv'
      <3>1. (os.timer => at \in {"run", "cleanup_run", "disarm_flags", "disarm_timer"})'
        BY Zenon DEF SigTypes, CountInv, TimerInv
      <3>2. (os.raised => at \in {"run", "cleanup_run", "disarm_flags", "disarm_timer", "main"})'
        BY Zenon DEF SigTypes, CountInv, TimerInv
      <3>3. (os.raised => preempt.ref_count > 0 /\ expired)'
        BY Zenon DEF SigTypes, CountInv, TimerInv
      <3>4. (preempt.pending => expired)'
        BY Zenon DEF SigTypes, CountInv, TimerInv
      <3>5. (g_current.kind = "hot" => ~os.timer /\ ~os.raised /\ ~preempt.pending)'
        BY Zenon DEF SigTypes, CountInv, TimerInv
      <3>6. (at \in Inside <=> g_current.state = "RUNNING")'
        BY Zenon DEF SigTypes, CountInv, TimerInv
      <3>7. (at \in Arming \cup Idle \cup {"disarm_timer"} => ~preempt.pending)'
        BY Zenon DEF SigTypes, CountInv, TimerInv
      <3>8. (at \in Arming => g_current.kind = "exclusive")'
        BY Zenon DEF SigTypes, CountInv, TimerInv
      <3>9. (at \in Inside => g_current.kind # "none")'
        BY Zenon DEF SigTypes, CountInv, TimerInv
      <3> QED
        BY <3>1, <3>2, <3>3, <3>4, <3>5, <3>6, <3>7, <3>8, <3>9, Zenon DEF TimerInv
    <2>5. MaskInv'
      BY Zenon DEF SigTypes, MaskInv
    <2> QED
      BY <2>1, <2>2, <2>3, <2>4, <2>5, Zenon
  <1>11. CASE coco_preempt_block_signal
    <2> USE <1>11 DEF coco_preempt_block_signal
    <2>1. SigTypes'
      <3>1. preempt' \in Preempts
        BY Zenon DEF SigTypes, CountInv
      <3>2. os' \in Processes
        BY Zenon DEF SigTypes
      <3>3. signal_refs' \in Nat /\ nest' \in Nat /\ at' \in Inside \cup Outside
        BY DEF SigTypes, CountInv
      <3> QED
        BY <3>1, <3>2, <3>3, Zenon DEF SigTypes
    <2>2. CountInv'
      BY Zenon DEF SigTypes, CountInv
    <2>3. HandlerInv'
      BY Zenon DEF SigTypes, HandlerInv, CountInv
    <2>4. TimerInv'
      BY Zenon DEF SigTypes, TimerInv, CountInv
    <2>5. MaskInv'
      BY DEF SigTypes, MaskInv
    <2> QED
      BY <2>1, <2>2, <2>3, <2>4, <2>5, Zenon
  <1>12. CASE coco_preempt_unblock_signal
    <2> USE <1>12 DEF coco_preempt_unblock_signal, Outermost
    <2>1. SigTypes'
      <3>1. preempt' \in Preempts
        BY Zenon DEF SigTypes, CountInv
      <3>2. os' \in Processes
        BY Zenon DEF SigTypes
      <3>3. signal_refs' \in Nat /\ nest' \in Nat /\ at' \in Inside \cup Outside
        BY DEF SigTypes, CountInv
      <3> QED
        BY <3>1, <3>2, <3>3, Zenon DEF SigTypes
    <2>2. CountInv'
      BY Zenon DEF SigTypes, CountInv
    <2>3. HandlerInv'
      BY Zenon DEF SigTypes, HandlerInv, CountInv
    <2>4. TimerInv'
      BY Zenon DEF SigTypes, TimerInv, CountInv
    <2>5. MaskInv'
      BY DEF SigTypes, MaskInv
    <2> QED
      BY <2>1, <2>2, <2>3, <2>4, <2>5, Zenon
  <1>13. CASE TimerExpires
    <2> USE <1>13 DEF TimerExpires
    <2>1. SigTypes'
      <3>1. preempt' \in Preempts
        BY Zenon DEF SigTypes, CountInv
      <3>2. os' \in Processes
        BY Zenon DEF SigTypes
      <3>3. signal_refs' \in Nat /\ nest' \in Nat /\ at' \in Inside \cup Outside
        BY Zenon DEF SigTypes, CountInv
      <3> QED
        BY <3>1, <3>2, <3>3, Zenon DEF SigTypes
    <2>2. CountInv'
      BY Zenon DEF SigTypes, CountInv
    <2>3. HandlerInv'
      BY Zenon DEF SigTypes, HandlerInv, CountInv
    <2>4. TimerInv'
      BY Zenon DEF SigTypes, TimerInv, CountInv
    <2>5. MaskInv'
      BY Zenon DEF SigTypes, MaskInv
    <2> QED
      BY <2>1, <2>2, <2>3, <2>4, <2>5, Zenon
  <1>14. CASE coco_preempt_handler
    <2> USE <1>14 DEF coco_preempt_handler
    <2>1. SigTypes'
      <3>1. preempt' \in Preempts
        BY Zenon DEF SigTypes, CountInv
      <3>2. os' \in Processes
        BY Zenon DEF SigTypes
      <3>3. signal_refs' \in Nat /\ nest' \in Nat /\ at' \in Inside \cup Outside
        BY Zenon DEF SigTypes, CountInv
      <3> QED
        BY <3>1, <3>2, <3>3, Zenon DEF SigTypes
    <2>2. CountInv'
      BY Zenon DEF SigTypes, CountInv
    <2>3. HandlerInv'
      BY Zenon DEF SigTypes, HandlerInv, CountInv
    <2>4. TimerInv'
      BY Zenon DEF SigTypes, TimerInv, CountInv
    <2>5. MaskInv'
      BY Zenon DEF SigTypes, MaskInv
    <2> QED
      BY <2>1, <2>2, <2>3, <2>4, <2>5, Zenon
  <1>15. CASE UNCHANGED sigVars
    BY <1>15 DEF sigVars, SigTypes, CountInv, HandlerInv, TimerInv, MaskInv
  <1> QED
    BY <1>1, <1>2, <1>3, <1>4, <1>5, <1>6, <1>7, <1>8, <1>9, <1>10, <1>11, <1>12, <1>13, <1>14,
       <1>15, Zenon DEF SigNext

\* SignalInv holds in every reachable state.
THEOREM SignalsInvariant == SigSpec => []SignalInv
  BY InitSignalInv, NextSignalInv, PTL DEF SigSpec

\* SIGALRM always finds its handler, and the signal stack is allocated
\* memory, however many schedulers a thread creates and destroys.
THEOREM SignalsSafe == SigSpec => []SignalsAreSafe
  <1>1. SignalInv => SignalsAreSafe
    BY Zenon DEF SignalInv, SigTypes, CountInv, HandlerInv, TimerInv, MaskInv, SignalsAreSafe,
       Inside,
       Outside
  <1> QED
    BY <1>1, SignalsInvariant, PTL

\* A preemption that is pending is charged to the coroutine whose timer went
\* off (coco_preempt_arm and coco_preempt_disarm, in the order of their steps).
THEOREM PendingCorrect == SigSpec => []PendingIsOwn
  <1>1. SignalInv => PendingIsOwn
    BY Zenon DEF SignalInv, TimerInv, PendingIsOwn, Idle
  <1> QED
    BY <1>1, SignalsInvariant, PTL

-----------------------------------------------------------------------------
(* Coroutine-local storage.                                                *)

\* What an entry of the table is.
Entry0 == [key : Key, value : Value \cup {NoValue}, destructor : BOOLEAN]

\* The entries of a table, and that no two of its places have the same key.
Entries(t) == {t[i] : i \in 1..Len(t)}
Distinct(t) == \A i, j \in 1..Len(t) : t[i].key = t[j].key => i = j

\* What is known of the entries: a value is in one of them only, and has a
\* destructor there if it is owned.
EntriesOK(E) ==
    /\ \A e, f \in E : e.value = f.value /\ e.value # NoValue => e = f
    /\ \A e, f \in E : e.key = f.key => e = f
    /\ \A e \in E : e.value \notin unused
    /\ \A e \in E : e.value # NoValue => (e.destructor <=> e.value \in owned)
    /\ \A e \in E : last[e.key] = e.value
    /\ \A k \in Key : (\A e \in E : e.key # k) => last[k] = NoValue
    /\ \A v \in Value : destroyed[v] = IF v \in owned /\ \A e \in E : e.value # v THEN 1 ELSE 0

\* The inductive invariant.
ClsInv ==
    /\ cls_table \in Seq(Entry0) /\ Distinct(cls_table)
    /\ owned \in SUBSET Value /\ unused \in SUBSET Value /\ owned \cap unused = {}
    /\ destroyed \in [Value -> Nat] /\ last \in [Key -> Value \cup {NoValue}]
    /\ exited \in BOOLEAN
    /\ EntriesOK(Entries(cls_table))

-----------------------------------------------------------------------------
(* The table.                                                              *)

\* An entry is found where it is, and a key that has none is not found.
LEMMA FindFacts ==
    ASSUME NEW k, ClsInv
    PROVE  /\ find_entry(k) # 0 => /\ find_entry(k) \in 1..Len(cls_table)
                                   /\ cls_table[find_entry(k)].key = k
                                   /\ cls_table[find_entry(k)] \in Entries(cls_table)
           /\ find_entry(k) = 0 => \A e \in Entries(cls_table) : e.key # k
  <1>1. CASE \E i \in 1..Len(cls_table) : cls_table[i].key = k
    <2>1. PICK i \in 1..Len(cls_table) : cls_table[i].key = k
      BY <1>1, Zenon
    <2>2. \A j \in 1..(i - 1) : j \in 1..Len(cls_table) /\ j # i
      BY DEF ClsInv
    <2>3. \A j \in 1..(i - 1) : cls_table[j].key # k
      BY <2>1, <2>2, Zenon DEF ClsInv, Distinct
    <2>4. find_entry(k) = CHOOSE o \in 1..Len(cls_table) :
             cls_table[o].key = k /\ \A j \in 1..(o - 1) : cls_table[j].key # k
      BY <1>1, Zenon DEF find_entry
    <2>5. find_entry(k) \in 1..Len(cls_table) /\ cls_table[find_entry(k)].key = k
      BY <2>1, <2>3, <2>4, Zenon
    <2> QED
      BY <2>5 DEF Entries
  <1>2. CASE ~ \E i \in 1..Len(cls_table) : cls_table[i].key = k
    <2>1. find_entry(k) = 0
      BY <1>2, Zenon DEF find_entry
    <2> QED
      BY <1>2, <2>1, Zenon DEF Entries
  <1> QED
    BY <1>1, <1>2, Zenon

\* A new entry is put in front.
LEMMA ConsTable ==
    ASSUME NEW t \in Seq(Entry0), Distinct(t), NEW e \in Entry0, \A f \in Entries(t) : f.key # e.key
    PROVE  /\ <<e>> \o t \in Seq(Entry0) /\ Distinct(<<e>> \o t)
           /\ Entries(<<e>> \o t) = Entries(t) \cup {e}
  <1> DEFINE u == <<e>> \o t
  <1>1. /\ u \in Seq(Entry0) /\ Len(u) = Len(t) + 1 /\ u[1] = e /\ Len(t) \in Nat
        /\ \A i \in 2..(Len(t) + 1) : u[i] = t[i - 1] /\ i - 1 \in 1..Len(t)
        /\ \A i \in 1..Len(t) : u[i + 1] = t[i] /\ i + 1 \in 1..Len(u)
    OBVIOUS
  <1> HIDE DEF u
  <1>2. \A i \in 1..Len(u) : i = 1 \/ i \in 2..(Len(t) + 1)
    BY <1>1
  <1>3. Entries(u) = Entries(t) \cup {e}
    <2>1. ASSUME NEW i \in 1..Len(u) PROVE u[i] \in Entries(t) \cup {e}
      BY <1>1, <1>2, ZenonT(40) DEF Entries
    <2>2. e \in Entries(u)
      <3>1. 1 \in 1..Len(u)
        BY <1>1
      <3> QED
        BY <1>1, <3>1, Zenon DEF Entries
    <2>3. ASSUME NEW i \in 1..Len(t) PROVE t[i] \in Entries(u)
      BY <1>1, Zenon DEF Entries
    <2>4. Entries(u) \subseteq Entries(t) \cup {e}
      BY <2>1, Zenon DEF Entries
    <2>5. Entries(t) \subseteq Entries(u)
      BY <2>3, Zenon DEF Entries
    <2> QED
      BY <2>2, <2>4, <2>5, Zenon
  <1>4. \A i \in 1..Len(t) : t[i].key # e.key
    BY Zenon DEF Entries
  <1>5. Distinct(u)
    <2> SUFFICES ASSUME NEW i \in 1..Len(u), NEW j \in 1..Len(u), u[i].key = u[j].key PROVE i = j
      BY Zenon DEF Distinct
    <2>1. CASE i = 1
      BY <1>1, <1>2, <1>4, <2>1, ZenonT(40)
    <2>2. CASE j = 1
      BY <1>1, <1>2, <1>4, <2>2, SMTT(40)
    <2>3. CASE i # 1 /\ j # 1
      <3>1. /\ i - 1 \in 1..Len(t) /\ j - 1 \in 1..Len(t)
            /\ t[i - 1].key = t[j - 1].key
        BY <1>1, <1>2, <2>3, Zenon
      <3>2. i - 1 = j - 1
        BY <3>1, Zenon DEF Distinct
      <3> QED
        BY <3>2
    <2> QED
      BY <2>1, <2>2, <2>3, Zenon
  <1> QED
    BY <1>1, <1>3, <1>5, Zenon DEF u

\* The entry of a key is replaced.
LEMMA ReplaceTable ==
    ASSUME NEW t \in Seq(Entry0), Distinct(t), NEW i \in 1..Len(t), NEW e \in Entry0, t[i].key = e.key
    PROVE  LET u == [t EXCEPT ![i] = e]
           IN  u \in Seq(Entry0) /\ Distinct(u) /\ Entries(u) = (Entries(t) \ {t[i]}) \cup {e}
  <1> DEFINE u == [t EXCEPT ![i] = e]
  <1>1. /\ u \in Seq(Entry0) /\ Len(u) = Len(t) /\ u[i] = e
        /\ \A j \in 1..Len(t) : j # i => u[j] = t[j]
    OBVIOUS
  <1> HIDE DEF u
  <1>2. Distinct(u)
    BY <1>1 DEF Distinct
  <1>3. \A j \in 1..Len(t) : j # i => t[j] # t[i]
    BY Zenon DEF Distinct
  <1>4. Entries(u) = (Entries(t) \ {t[i]}) \cup {e}
    BY <1>1, <1>3, SMTT(40) DEF Entries
  <1> QED
    BY <1>1, <1>2, <1>4, Zenon DEF u

\* What the concatenation of two lists is.
LEMMA ConcatFacts ==
    ASSUME NEW S, NEW a \in Seq(S), NEW b \in Seq(S)
    PROVE  /\ a \o b \in Seq(S) /\ Len(a \o b) = Len(a) + Len(b)
           /\ \A j \in 1..(Len(a) + Len(b)) :
                 (a \o b)[j] = IF j <= Len(a) THEN a[j] ELSE b[j - Len(a)]
  OBVIOUS

\* The entry of a key is unlinked.
LEMMA RemoveTable ==
    ASSUME NEW t \in Seq(Entry0), Distinct(t), NEW i \in 1..Len(t)
    PROVE  LET u == SubSeq(t, 1, i - 1) \o SubSeq(t, i + 1, Len(t))
           IN  u \in Seq(Entry0) /\ Distinct(u) /\ Entries(u) = Entries(t) \ {t[i]}
  <1> DEFINE a == SubSeq(t, 1, i - 1)
             b == SubSeq(t, i + 1, Len(t))
             u == a \o b
  <1>0. Len(t) \in Nat /\ i \in Nat /\ i >= 1 /\ i <= Len(t)
    OBVIOUS
  <1>1. /\ a \in Seq(Entry0) /\ Len(a) = i - 1 /\ \A j \in 1..(i - 1) : a[j] = t[j]
    BY <1>0
  <1>2. /\ b \in Seq(Entry0) /\ Len(b) = Len(t) - i /\ \A j \in 1..(Len(t) - i) : b[j] = t[i + j]
    BY <1>0
  <1> HIDE DEF a, b
  <1>3. /\ u \in Seq(Entry0) /\ Len(u) = Len(t) - 1
        /\ \A j \in 1..(Len(t) - 1) : u[j] = IF j < i THEN t[j] ELSE t[j + 1]
    <2>1. /\ u \in Seq(Entry0) /\ Len(u) = Len(a) + Len(b)
          /\ \A j \in 1..(Len(a) + Len(b)) : u[j] = IF j <= Len(a) THEN a[j] ELSE b[j - Len(a)]
      BY <1>1, <1>2, ConcatFacts, Zenon
    <2>2. Len(u) = Len(t) - 1
      BY <1>0, <1>1, <1>2, <2>1
    <2> HIDE DEF u
    <2>3. ASSUME NEW j \in 1..(Len(t) - 1) PROVE u[j] = IF j < i THEN t[j] ELSE t[j + 1]
      <3>1. j \in 1..(Len(a) + Len(b)) /\ (j <= Len(a) <=> j < i)
        BY <1>0, <1>1, <1>2
      <3>2. CASE j < i
        BY <1>0, <1>1, <2>1, <3>1, <3>2
      <3>3. CASE ~(j < i)
        <4>1. j - Len(a) \in 1..(Len(t) - i) /\ i + (j - Len(a)) = j + 1
          BY <1>0, <1>1, <3>3
        <4> QED
          BY <1>2, <2>1, <3>1, <3>3, <4>1, Zenon
      <3> QED
        BY <3>2, <3>3, Zenon
    <2> QED
      BY <2>1, <2>2, <2>3, Zenon
  <1> HIDE DEF u
  <1>4. ASSUME NEW j \in 1..Len(u)
        PROVE  LET n == IF j < i THEN j ELSE j + 1
               IN  n \in 1..Len(t) /\ n # i /\ u[j] = t[n]
    BY <1>0, <1>3, SMTT(40)
  <1>5. ASSUME NEW n \in 1..Len(t), n # i PROVE \E j \in 1..Len(u) : u[j] = t[n]
    <2>1. CASE n < i
      <3>1. n \in 1..Len(u) /\ u[n] = t[n]
        BY <1>0, <1>3, <2>1
      <3> QED
        BY <3>1, Zenon
    <2>2. CASE n > i
      <3>1. n - 1 \in 1..Len(u) /\ u[n - 1] = t[n]
        BY <1>0, <1>3, <2>2
      <3> QED
        BY <3>1, Zenon
    <2> QED
      BY <1>0, <1>5, <2>1, <2>2
  <1>6. Distinct(u)
    <2> SUFFICES ASSUME NEW j \in 1..Len(u), NEW k \in 1..Len(u), u[j].key = u[k].key PROVE j = k
      BY Zenon DEF Distinct
    <2> DEFINE n == IF j < i THEN j ELSE j + 1
               m == IF k < i THEN k ELSE k + 1
    <2>1. n \in 1..Len(t) /\ m \in 1..Len(t) /\ u[j] = t[n] /\ u[k] = t[m]
      BY <1>4, Zenon
    <2> HIDE DEF n, m
    <2>2. n = m
      BY <2>1, Zenon DEF Distinct
    <2> QED
      BY <1>0, <1>3, <2>2 DEF n, m
  <1>7. \A n \in 1..Len(t) : n # i => t[n] # t[i]
    BY Zenon DEF Distinct
  <1>8. Entries(u) = Entries(t) \ {t[i]}
    <2>1. ASSUME NEW j \in 1..Len(u) PROVE u[j] \in Entries(t) \ {t[i]}
      BY <1>4, <1>7, Zenon DEF Entries
    <2>2. ASSUME NEW n \in 1..Len(t), t[n] # t[i] PROVE t[n] \in Entries(u)
      BY <1>5, <2>2, Zenon DEF Entries
    <2> QED
      BY <2>1, <2>2, Zenon DEF Entries
  <1> QED
    BY <1>3, <1>6, <1>8, Zenon DEF u, a, b

-----------------------------------------------------------------------------
(* The operations.                                                         *)

\* coco_cls_set() of a key that has no entry, or has one.
LEMMA SetClsInv ==
    ASSUME ClsInv, NEW k \in Key, NEW v \in Value \cup {NoValue}, NEW d \in BOOLEAN,
           coco_cls_set(k, v, d)
    PROVE  ClsInv'
  <1> DEFINE i == find_entry(k)
             E == Entries(cls_table)
             e == Entry(k, v, d)
  <1>0. /\ v = NoValue \/ v \in unused
        /\ owned' = IF d /\ v # NoValue THEN owned \cup {v} ELSE owned
        /\ unused' = unused \ {v} /\ last' = [last EXCEPT ![k] = v] /\ exited' = exited
    BY Zenon DEF coco_cls_set
  <1>1. e \in Entry0 /\ e.key = k /\ e.value = v /\ e.destructor = d
    BY Zenon DEF Entry, Entry0
  <1>2. /\ i # 0 => i \in 1..Len(cls_table) /\ cls_table[i].key = k /\ cls_table[i] \in E
        /\ i = 0 => \A f \in E : f.key # k
    BY FindFacts, Zenon
  <1>3. E \subseteq Entry0
    BY DEF ClsInv, Entries
  <1>4. NoValue \notin Value
    BY ClsAssumption, Zenon
  <1>5. PICK O \in SUBSET E :
           /\ cls_table' \in Seq(Entry0) /\ Distinct(cls_table')
           /\ Entries(cls_table') = (E \ O) \cup {e}
           /\ \A f \in E \ O : f.key # k
           /\ \A f \in O : f.key = k
           /\ destroyed' = [x \in Value |->
                 destroyed[x] + (IF \E f \in O : f.destructor /\ f.value = x THEN 1 ELSE 0)]
    <2>1. CASE i = 0
      <3>1. cls_table' = <<e>> \o cls_table
        BY <2>1, Zenon DEF coco_cls_set
      <3>2. destroyed' = [x \in Value |->
                 destroyed[x] + (IF \E f \in {} : f.destructor /\ f.value = x THEN 1 ELSE 0)]
        BY <2>1, Zenon DEF coco_cls_set, Destroy
      <3>3. cls_table \in Seq(Entry0) /\ Distinct(cls_table) /\ \A f \in E : f.key # e.key
        BY <1>1, <1>2, <2>1, Zenon DEF ClsInv
      <3>4. /\ cls_table' \in Seq(Entry0) /\ Distinct(cls_table')
            /\ Entries(cls_table') = E \cup {e}
        BY ONLY <1>1, <3>1, <3>3, ConsTable, Zenon
      <3> WITNESS {} \in SUBSET E
      <3> HIDE DEF i, E, e
      <3> QED
        BY <1>2, <2>1, <3>2, <3>4, Zenon
    <2>2. CASE i # 0
      <3>1. cls_table' = [cls_table EXCEPT ![i] = e]
        BY <2>2, Zenon DEF coco_cls_set
      <3>2. destroyed' = [x \in Value |->
              destroyed[x] + (IF \E f \in {cls_table[i]} : f.destructor /\ f.value = x THEN 1 ELSE 0)]
        BY <2>2, Zenon DEF coco_cls_set, Destroy
      <3>3. /\ cls_table \in Seq(Entry0) /\ Distinct(cls_table) /\ i \in 1..Len(cls_table)
            /\ cls_table[i].key = e.key
        BY <1>1, <1>2, <2>2, Zenon DEF ClsInv
      <3> HIDE DEF i, e
      <3>4. /\ cls_table' \in Seq(Entry0) /\ Distinct(cls_table')
            /\ Entries(cls_table') = (E \ {cls_table[i]}) \cup {e}
        BY ONLY <1>1, <3>1, <3>3, ReplaceTable, Zenon
      <3>5. {cls_table[i]} \in SUBSET E /\ \A f \in E \ {cls_table[i]} : f.key # k
        <4>1. \A f \in E : f.key = k => f = cls_table[i]
          BY <1>2, <2>2 DEF ClsInv, EntriesOK
        <4> QED
          BY <1>2, <2>2, <4>1, Zenon
      <3> USE <3>5
      <3> WITNESS {cls_table[i]} \in SUBSET E
      <3> QED
        BY <1>2, <2>2, <3>2, <3>4, <3>5, Zenon
    <2> QED
      BY <2>1, <2>2, Zenon
  <1>6. /\ owned \in SUBSET Value /\ unused \in SUBSET Value /\ owned \cap unused = {}
        /\ destroyed \in [Value -> Nat] /\ last \in [Key -> Value \cup {NoValue}]
        /\ exited \in BOOLEAN /\ EntriesOK(E)
    BY Zenon DEF ClsInv
  <1> HIDE DEF i, E, e
  <1>7. /\ owned' \in SUBSET Value /\ unused' \in SUBSET Value /\ owned' \cap unused' = {}
        /\ destroyed' \in [Value -> Nat] /\ last' \in [Key -> Value \cup {NoValue}]
        /\ exited' \in BOOLEAN
    BY <1>0, <1>4, <1>5, <1>6
  <1>8. EntriesOK(Entries(cls_table))'
    <2> DEFINE F == (E \ O) \cup {e}
    <2>0. \A f \in E : f.value # v \/ v = NoValue
      BY <1>0, <1>6 DEF EntriesOK
    <2>1. \A f, g \in F : f.value = g.value /\ f.value # NoValue => f = g
      BY <1>1, <1>6, <2>0, Zenon DEF EntriesOK
    <2>2. \A f, g \in F : f.key = g.key => f = g
      BY <1>1, <1>5, <1>6 DEF EntriesOK
    <2>3. \A f \in F : f.value \notin unused'
      BY <1>0, <1>1, <1>6, Zenon DEF EntriesOK
    <2>4. \A f \in F : f.value # NoValue => (f.destructor <=> f.value \in owned')
      <3>1. ASSUME NEW f \in E \ O, f.value # NoValue PROVE f.destructor <=> f.value \in owned'
        BY <1>0, <1>6, <2>0, <3>1, Zenon DEF EntriesOK
      <3>2. v # NoValue => v \notin owned
        BY <1>0, <1>6, Zenon
      <3>3. e.value # NoValue => (e.destructor <=> e.value \in owned')
        BY <1>0, <1>1, <3>2, Zenon
      <3> QED
        BY <3>1, <3>3, Zenon
    <2>5. \A f \in F : last'[f.key] = f.value
      BY <1>0, <1>1, <1>3, <1>5, <1>6 DEF EntriesOK, Entry0
    <2>6. \A x \in Key : (\A f \in F : f.key # x) => last'[x] = NoValue
      BY <1>0, <1>1, <1>5, <1>6, Zenon DEF EntriesOK
    <2>7. ASSUME NEW x \in Value
          PROVE  destroyed'[x] = IF x \in owned' /\ \A f \in F : f.value # x THEN 1 ELSE 0
      <3>1. destroyed[x] = IF x \in owned /\ \A f \in E : f.value # x THEN 1 ELSE 0
        BY <1>6, Zenon DEF EntriesOK
      <3>2. destroyed'[x] = destroyed[x] + (IF \E f \in O : f.destructor /\ f.value = x THEN 1 ELSE 0)
        BY <1>5, Zenon
      <3>3. \A f \in O : f.value = x => (f.destructor <=> x \in owned) /\ \A g \in E \ O : g.value # x
        <4> TAKE f \in O
        <4> HAVE f.value = x
        <4>1. x # NoValue /\ f \in E
          BY <1>4, <1>5, Zenon
        <4> QED
          BY <1>6, <4>1, Zenon DEF EntriesOK
      <3>4. CASE x = v
        <4>1. x \in unused /\ x \notin owned /\ \A f \in E : f.value # x
          BY <1>0, <1>4, <1>6, <2>0, <3>4, Zenon
        <4> QED
          BY <1>1, <3>1, <3>2, <3>4, <4>1
      <3>5. CASE x # v
        <4>1. x \in owned' <=> x \in owned
          BY <1>0, <3>5, Zenon
        <4>2. (\A f \in F : f.value # x) <=> (\A f \in E \ O : f.value # x)
          BY <1>1, <3>5, Zenon
        <4>3. CASE \E f \in O : f.value = x
          <5>1. PICK f \in O : f.value = x
            BY <4>3, Zenon
          <5>2. /\ f.destructor <=> x \in owned
                /\ \A g \in E \ O : g.value # x
            BY <3>3, <5>1, Zenon
          <5>3. destroyed[x] = 0
            BY <1>5, <3>1, <5>1, Zenon
          <5>4. (\E g \in O : g.destructor /\ g.value = x) <=> x \in owned
            BY <3>3, <5>1, <5>2, Zenon
          <5> QED
            BY <3>2, <4>1, <4>2, <5>2, <5>3, <5>4
        <4>4. CASE \A f \in O : f.value # x
          <5>1. (\A f \in E : f.value # x) <=> (\A f \in E \ O : f.value # x)
            BY <4>4, Zenon
          <5>2. destroyed'[x] = destroyed[x]
            BY <3>1, <3>2, <4>4
          <5> QED
            BY <3>1, <4>1, <4>2, <5>1, <5>2, Zenon
        <4> QED
          BY <4>3, <4>4, Zenon
      <3> QED
        BY <3>4, <3>5, Zenon
    <2>8. Entries(cls_table)' = F
      BY <1>5, Zenon
    <2> HIDE DEF F
    <2> QED
      BY <2>1, <2>2, <2>3, <2>4, <2>5, <2>6, <2>7, <2>8, Zenon DEF EntriesOK
  <1> QED
    BY <1>5, <1>7, <1>8, Zenon DEF ClsInv

\* Entries leave the table, each with a call of its destructor.
LEMMA LeaveClsInv ==
    ASSUME ClsInv, NEW O \in SUBSET Entries(cls_table),
           cls_table' \in Seq(Entry0), Distinct(cls_table'),
           Entries(cls_table') = Entries(cls_table) \ O,
           destroyed' = [x \in Value |->
              destroyed[x] + (IF \E f \in O : f.destructor /\ f.value = x THEN 1 ELSE 0)],
           last' \in [Key -> Value \cup {NoValue}],
           \A f \in Entries(cls_table) \ O : last'[f.key] = last[f.key],
           \A k \in Key : (\A f \in Entries(cls_table) \ O : f.key # k) => last'[k] = NoValue,
           UNCHANGED <<owned, unused>>, exited' \in BOOLEAN
    PROVE  ClsInv'
  <1> DEFINE E == Entries(cls_table)
             F == E \ O
  <1>1. /\ owned \in SUBSET Value /\ unused \in SUBSET Value /\ owned \cap unused = {}
        /\ destroyed \in [Value -> Nat] /\ EntriesOK(E)
    BY Zenon DEF ClsInv
  <1>2. NoValue \notin Value
    BY ClsAssumption, Zenon
  <1>3. destroyed' \in [Value -> Nat]
    BY <1>1
  <1>4. ASSUME NEW x \in Value
        PROVE  destroyed'[x] = IF x \in owned /\ \A f \in F : f.value # x THEN 1 ELSE 0
    <2> HIDE DEF E
    <2>1. destroyed[x] = IF x \in owned /\ \A f \in E : f.value # x THEN 1 ELSE 0
      BY <1>1, Zenon DEF EntriesOK
    <2>2. destroyed'[x] = destroyed[x] + (IF \E f \in O : f.destructor /\ f.value = x THEN 1 ELSE 0)
      BY Zenon
    <2>3. O \subseteq E
      BY Zenon DEF E
    <2>4. CASE \E f \in O : f.value = x
      <3>1. PICK f \in O : f.value = x
        BY <2>4, Zenon
      <3>2. (f.destructor <=> x \in owned) /\ \A g \in E : g.value = x => g = f
        BY <1>1, <1>2, <2>3, <3>1 DEF EntriesOK
      <3>3. destroyed[x] = 0 /\ \A g \in F : g.value # x
        BY <2>1, <2>3, <3>1, <3>2, Zenon
      <3>4. (\E g \in O : g.destructor /\ g.value = x) <=> x \in owned
        BY <2>3, <3>1, <3>2, Zenon
      <3> QED
        BY <2>2, <3>3, <3>4
    <2>5. CASE \A f \in O : f.value # x
      <3>1. (\A f \in E : f.value # x) <=> (\A f \in F : f.value # x)
        BY <2>5, Zenon
      <3>2. destroyed'[x] = destroyed[x]
        BY <2>1, <2>2, <2>5
      <3> QED
        BY <2>1, <3>1, <3>2, Zenon
    <2> QED
      BY <2>4, <2>5, Zenon
  <1>5. /\ \A e, f \in F : e.value = f.value /\ e.value # NoValue => e = f
        /\ \A e, f \in F : e.key = f.key => e = f
        /\ \A e \in F : e.value \notin unused
        /\ \A e \in F : e.value # NoValue => (e.destructor <=> e.value \in owned)
        /\ \A e \in F : last'[e.key] = e.value
    BY <1>1, Zenon DEF EntriesOK
  <1>6. Entries(cls_table)' = F
    BY Zenon
  <1>7. \A k \in Key : (\A f \in F : f.key # k) => last'[k] = NoValue
    BY Zenon
  <1> HIDE DEF E, F
  <1>8. EntriesOK(Entries(cls_table))'
    BY <1>4, <1>5, <1>6, <1>7 DEF EntriesOK
  <1> QED
    BY <1>1, <1>3, <1>8, Zenon DEF ClsInv

\* coco_cls_delete().
LEMMA DeleteClsInv ==
    ASSUME ClsInv, NEW k \in Key, coco_cls_delete(k)
    PROVE  ClsInv'
  <1> DEFINE i == find_entry(k)
             E == Entries(cls_table)
  <1>1. /\ i # 0
        /\ cls_table' = SubSeq(cls_table, 1, i - 1) \o SubSeq(cls_table, i + 1, Len(cls_table))
        /\ destroyed' = [x \in Value |->
             destroyed[x] + (IF \E f \in {cls_table[i]} : f.destructor /\ f.value = x THEN 1 ELSE 0)]
        /\ last' = [last EXCEPT ![k] = NoValue]
        /\ UNCHANGED <<owned, unused, exited>>
    BY Zenon DEF coco_cls_delete, Destroy
  <1>2. i \in 1..Len(cls_table) /\ cls_table[i].key = k /\ cls_table[i] \in E
    BY <1>1, FindFacts, Zenon
  <1> HIDE DEF i
  <1>3. cls_table \in Seq(Entry0) /\ Distinct(cls_table)
    BY Zenon DEF ClsInv
  <1>4. /\ cls_table' \in Seq(Entry0) /\ Distinct(cls_table')
        /\ Entries(cls_table') = E \ {cls_table[i]}
    BY ONLY <1>1, <1>2, <1>3, RemoveTable, Zenon
  <1>5. PICK O \in SUBSET E : O = {cls_table[i]}
    BY <1>2, ZenonT(40)
  <1>6. E \subseteq Entry0
    BY DEF ClsInv, Entries
  <1>7. \A f \in E \ O : f.key # k
    BY <1>2, <1>5, Zenon DEF ClsInv, EntriesOK
  <1>8. /\ last' \in [Key -> Value \cup {NoValue}]
        /\ \A f \in E \ O : last'[f.key] = last[f.key]
    BY <1>1, <1>6, <1>7, Zenon DEF ClsInv, Entry0
  <1>9. ASSUME NEW x \in Key, \A f \in E \ O : f.key # x PROVE last'[x] = NoValue
    <2>1. CASE x = k
      BY <1>1, <2>1, Zenon DEF ClsInv
    <2>2. CASE x # k
      <3>1. \A f \in E : f.key # x
        BY <1>2, <1>5, <1>9, <2>2, Zenon
      <3> QED
        BY <1>1, <2>2, <3>1, Zenon DEF ClsInv, EntriesOK
    <2> QED
      BY <2>1, <2>2, Zenon
  <1>10. exited' \in BOOLEAN
    BY <1>1, Zenon DEF ClsInv
  <1> QED
    BY <1>1, <1>4, <1>5, <1>8, <1>9, <1>10, LeaveClsInv, Zenon

\* cls_destroy_table().
LEMMA DestroyClsInv ==
    ASSUME ClsInv, cls_destroy_table
    PROVE  ClsInv'
  <1>1. /\ cls_table' = <<>> /\ exited' = TRUE /\ last' = [k \in Key |-> NoValue]
        /\ destroyed' = [x \in Value |->
              destroyed[x] + (IF \E f \in Entries(cls_table) : f.destructor /\ f.value = x THEN 1 ELSE 0)]
        /\ UNCHANGED <<owned, unused>>
    BY Zenon DEF cls_destroy_table, Destroy, Entries
  <1>2. cls_table' \in Seq(Entry0) /\ Len(cls_table') = 0
    BY <1>1
  <1>3. 1..Len(cls_table') = {}
    BY <1>2
  <1>4. Distinct(cls_table') /\ Entries(cls_table') = {}
    BY <1>3, Zenon DEF Distinct, Entries
  <1>5. PICK O \in SUBSET Entries(cls_table) : O = Entries(cls_table)
    BY Zenon
  <1> QED
    BY <1>1, <1>2, <1>4, <1>5, LeaveClsInv, Zenon

\* ClsInv holds in every reachable state.
THEOREM ClsInvariant == ClsSpec => []ClsInv
  <1>1. ClsInit => ClsInv
    <2> SUFFICES ASSUME ClsInit PROVE ClsInv
      BY Zenon
    <2>1. cls_table \in Seq(Entry0) /\ Len(cls_table) = 0
      BY DEF ClsInit
    <2>2. 1..Len(cls_table) = {}
      BY <2>1
    <2>3. Distinct(cls_table) /\ Entries(cls_table) = {}
      BY <2>2, Zenon DEF Distinct, Entries
    <2>4. EntriesOK({})
      BY Zenon DEF ClsInit, EntriesOK
    <2>5. EntriesOK(Entries(cls_table))
      BY <2>3, <2>4, Zenon
    <2> QED
      BY <2>1, <2>3, <2>5, Zenon DEF ClsInit, ClsInv
  <1>2. ClsInv /\ [ClsNext]_clsVars => ClsInv'
    <2> SUFFICES ASSUME ClsInv, [ClsNext]_clsVars PROVE ClsInv'
      BY Zenon
    <2>1. CASE UNCHANGED clsVars
      BY <2>1, Zenon DEF ClsInv, EntriesOK, clsVars
    <2> QED
      BY <2>1, SetClsInv, DeleteClsInv, DestroyClsInv, Zenon DEF ClsNext
  <1> QED
    BY <1>1, <1>2, PTL DEF ClsSpec

\* A value set with a destructor is destroyed once, when it leaves the table,
\* and coco_cls_get() returns what was last set for a key, whatever is set,
\* replaced, deleted and destroyed with the coroutine.
THEOREM ClsCorrect == ClsSpec => []ClsOwnsValues
  <1>1. ClsInv => ClsOwnsValues
    <2> SUFFICES ASSUME ClsInv PROVE ClsOwnsValues
      BY Zenon
    <2>1. DestroyedExactlyOnce
      BY DEF DestroyedExactlyOnce, ClsInv, EntriesOK, Entries
    <2>2. ASSUME NEW k \in Key PROVE cls_get(k) = last[k]
      <3>1. CASE find_entry(k) = 0
        BY <3>1, FindFacts, Zenon DEF cls_get, ClsInv, EntriesOK
      <3>2. CASE find_entry(k) # 0
        BY <3>2, FindFacts DEF cls_get, ClsInv, EntriesOK
      <3> QED
        BY <3>1, <3>2, Zenon
    <2> QED
      BY <2>1, <2>2, Zenon DEF ClsOwnsValues, GetReturnsLast
  <1> QED
    BY <1>1, ClsInvariant, PTL

-----------------------------------------------------------------------------
(* The slots and the pool.                                                 *)

\* x is in the list s; each element of s is there once.
Lists(s, x) == \E i \in 1..Len(s) : s[i] = x
OnceEach(s) == \A i, j \in 1..Len(s) : s[i] = s[j] => i = j

\* The inductive invariant: a control block that is free has no stack.
SlotInv ==
    /\ TypeOK
    /\ SlotsAgree
    /\ EachStackOnce
    /\ \A c \in Coro : state[c] = "NONE" => own[c] = None

-----------------------------------------------------------------------------
(* Facts about numbers and lists.                                          *)

INSTANCE WellFoundedInduction

\* A set of natural numbers that is not empty has a least element.
LEMMA LeastExists ==
    ASSUME NEW T, T \subseteq Nat, T # {}
    PROVE  \E m \in T : \A k \in T : m <= k
  <1>1. PICK m \in T : \A k \in T : <<k, m>> \notin OpToRel(<, Nat)
    BY WFMin, NatLessThanWellFounded, Zenon
  <1>2. \A k \in T : ~(k < m)
    BY <1>1, Zenon DEF OpToRel
  <1> QED
    BY <1>2

\* A set of positions of a list that is not empty has a last element.
LEMMA LastExists ==
    ASSUME NEW n \in Nat, NEW T, T \subseteq 1..n, T # {}
    PROVE  \E m \in T : \A k \in T : k <= m
  <1> DEFINE U == {j \in 0..n : n - j \in T}
  <1>1. PICK x \in T : TRUE
    BY Zenon
  <1>2. n - x \in U
    BY <1>1 DEF U
  <1>3. PICK u \in U : \A v \in U : u <= v
    <2>1. U \subseteq Nat
      BY DEF U
    <2> HIDE DEF U
    <2>2. U # {}
      BY <1>2, Zenon
    <2> QED
      BY <2>1, <2>2, LeastExists, Zenon
  <1>4. \A k \in T : n - k \in U
    BY DEF U
  <1>5. u \in 0..n /\ n - u \in T
    BY <1>3, Zenon DEF U
  <1>6. \A k \in T : k <= n - u
    <2> TAKE k \in T
    <2>1. u <= n - k
      BY <1>3, <1>4, Zenon
    <2> QED
      BY <2>1, <1>5
  <1> QED
    BY <1>5, <1>6, Zenon

\* hot_lru_remove() takes one element out and keeps the others, once each.
LEMMA RemoveFacts ==
    ASSUME NEW S, NEW s \in Seq(S), NEW c, Lists(s, c), OnceEach(s)
    PROVE  /\ hot_lru_remove(s, c) \in Seq(S)
           /\ Len(hot_lru_remove(s, c)) = Len(s) - 1
           /\ OnceEach(hot_lru_remove(s, c))
           /\ \A x : Lists(hot_lru_remove(s, c), x) <=> Lists(s, x) /\ x # c
  <1> DEFINE k == IndexIn(s, c)
             n == Len(s) - 1
             r == [j \in 1..n |-> IF j < k THEN s[j] ELSE s[j + 1]]
  <1>1. k \in 1..Len(s) /\ s[k] = c
    BY Zenon DEF IndexIn, Lists
  <1>2. hot_lru_remove(s, c) = r
    BY Zenon DEF hot_lru_remove
  <1> HIDE DEF k
  <1>3. n \in Nat
    BY <1>1
  <1>4. r \in [1..n -> S]
    <2>1. \A j \in 1..n : r[j] \in S
      BY <1>1, <1>3, SMTT(40)
    <2> QED
      BY <2>1, Zenon
  <1>5. r \in Seq(S) /\ Len(r) = n
    BY <1>3, <1>4
  <1>6. \A j \in 1..n : r[j] = IF j < k THEN s[j] ELSE s[j + 1]
    BY Zenon
  <1> HIDE DEF r
  <1>7. OnceEach(r)
    BY <1>1, <1>3, <1>5, <1>6, SMTT(40) DEF OnceEach
  <1>8. ASSUME NEW x
        PROVE  Lists(r, x) <=> Lists(s, x) /\ x # c
    <2>1. ASSUME Lists(r, x)
          PROVE  Lists(s, x) /\ x # c
      <3>1. PICK j \in 1..n : r[j] = x
        BY <2>1, <1>5, Zenon DEF Lists
      <3>2. CASE j < k
        BY <3>1, <3>2, <1>1, <1>3, <1>6, SMTT(40) DEF Lists, OnceEach
      <3>3. CASE ~(j < k)
        BY <3>1, <3>3, <1>1, <1>3, <1>6, SMTT(40) DEF Lists, OnceEach
      <3> QED
        BY <3>2, <3>3, Zenon
    <2>2. ASSUME Lists(s, x), x # c
          PROVE  Lists(r, x)
      <3>1. PICK j \in 1..Len(s) : s[j] = x
        BY <2>2, Zenon DEF Lists
      <3>2. j # k
        BY <3>1, <2>2, <1>1, Zenon
      <3>3. CASE j < k
        BY <3>1, <3>3, <1>1, <1>3, <1>5, <1>6, SMTT(40) DEF Lists
      <3>4. CASE j > k
        <4>1. j - 1 \in 1..n /\ ~(j - 1 < k) /\ j - 1 + 1 = j
          BY <3>4, <1>1, <1>3
        <4>2. r[j - 1] = s[j]
          BY <4>1, <1>6, Zenon
        <4> QED
          BY <4>1, <4>2, <3>1, <1>5, Zenon DEF Lists
      <3> QED
        BY <3>2, <3>3, <3>4, <1>1
    <2> QED
      BY <2>1, <2>2, Zenon
  <1> QED
    BY <1>2, <1>5, <1>7, <1>8, Zenon

\* <<c>> \o s has c in front of the elements of s.
LEMMA ConsFacts ==
    ASSUME NEW S, NEW s \in Seq(S), NEW c \in S, ~Lists(s, c), OnceEach(s)
    PROVE  /\ <<c>> \o s \in Seq(S)
           /\ Len(<<c>> \o s) = Len(s) + 1
           /\ OnceEach(<<c>> \o s)
           /\ \A x : Lists(<<c>> \o s, x) <=> Lists(s, x) \/ x = c
  <1> DEFINE r == <<c>> \o s
  <1>1. r \in Seq(S) /\ Len(r) = Len(s) + 1
    OBVIOUS
  <1>2. \A i \in 1..Len(r) : r[i] = IF i = 1 THEN c ELSE s[i - 1]
    OBVIOUS
  <1> HIDE DEF r
  <1>3. ASSUME NEW i \in 1..Len(r), NEW j \in 1..Len(r), r[i] = r[j]
        PROVE  i = j
    <2>1. CASE i = 1 /\ j = 1
      BY <2>1, Zenon
    <2>2. CASE i = 1 /\ j # 1
      <3>1. s[j - 1] = c /\ j - 1 \in 1..Len(s)
        BY <1>1, <1>2, <1>3, <2>2, SMTT(40)
      <3> QED
        BY <3>1, Zenon DEF Lists
    <2>3. CASE i # 1 /\ j = 1
      <3>1. s[i - 1] = c /\ i - 1 \in 1..Len(s)
        BY <1>1, <1>2, <1>3, <2>3, SMTT(40)
      <3> QED
        BY <3>1, Zenon DEF Lists
    <2>4. CASE i # 1 /\ j # 1
      <3>1. s[i - 1] = s[j - 1] /\ i - 1 \in 1..Len(s) /\ j - 1 \in 1..Len(s)
        BY <1>1, <1>2, <1>3, <2>4, SMTT(40)
      <3> QED
        BY <3>1, SMTT(40) DEF OnceEach
    <2> QED
      BY <2>1, <2>2, <2>3, <2>4, Zenon
  <1>4. ASSUME NEW x
        PROVE  Lists(r, x) <=> Lists(s, x) \/ x = c
    <2>1. r[1] = c
      BY <1>1, <1>2
    <2>2. ASSUME Lists(s, x) PROVE Lists(r, x)
      <3>1. PICK j \in 1..Len(s) : s[j] = x
        BY <2>2, Zenon DEF Lists
      <3>2. j + 1 \in 1..Len(r) /\ j + 1 # 1 /\ (j + 1) - 1 = j
        BY <1>1
      <3>3. r[j + 1] = x
        BY <3>1, <3>2, <1>2, Zenon
      <3> QED
        BY <3>2, <3>3, Zenon DEF Lists
    <2>3. ASSUME Lists(r, x), x # c PROVE Lists(s, x)
      BY <2>3, <1>1, <1>2, SMTT(40) DEF Lists
    <2>4. Lists(r, c)
      BY <2>1, <1>1 DEF Lists
    <2> QED
      BY <2>2, <2>3, <2>4, Zenon
  <1>5. OnceEach(r)
    BY <1>3, Zenon DEF OnceEach
  <1> QED
    BY <1>1, <1>4, <1>5, Zenon DEF r

-----------------------------------------------------------------------------
(* The slots.                                                              *)

\* The types of what describes the slots.
SlotTypes ==
    /\ hot_slot_idx \in [Coro -> Slot \cup {-1}]
    /\ occupant \in [Slot -> Coro \cup {None}]
    /\ lru \in Seq(Coro)
    /\ hot_coro_count \in Nat

\* hot_slot_acquire() gives a slot, slot 0 only to a HIGH coroutine, and never
\* fails for one that is in no slot if there are two.
LEMMA AcquiredFacts ==
    ASSUME SlotTypes, SlotsAgree, NEW c \in Coro
    PROVE  /\ AcquiredSlot(c) \in Slot \cup {-1}
           /\ AcquiredSlot(c) = RESERVED => c \in high
           /\ NSlots >= 2 /\ hot_slot_idx[c] = -1 => AcquiredSlot(c) # -1
  <1>0. NSlots \in Nat \ {0} /\ None \notin Coro
    BY StacksAssumption, Zenon
  <1>1. CASE FreeFor(c) # {}
    <2> DEFINE F == FreeFor(c)
    <2>1. F \subseteq Slot /\ F \subseteq Nat
      BY <1>0 DEF FreeFor, Slot
    <2>2. \A s \in F : s = RESERVED => c \in high
      BY Zenon DEF FreeFor
    <2>3. F # {}
      BY <1>1, Zenon
    <2>4. AcquiredSlot(c) = LeastOf(F)
      BY <1>1, Zenon DEF AcquiredSlot
    <2> HIDE DEF F
    <2>5. LeastOf(F) \in F
      BY <2>1, <2>3, LeastExists, Zenon DEF LeastOf
    <2>6. \A s \in Slot : s # -1
      BY <1>0, SMTT(40) DEF Slot
    <2> QED
      BY <2>1, <2>2, <2>4, <2>5, <2>6, Zenon
  <1>2. CASE FreeFor(c) = {} /\ Evictable(c) # {}
    <2> DEFINE E == Evictable(c)
               m == CHOOSE k \in E : \A j \in E : j <= k
    <2>1. E \subseteq 1..Len(lru) /\ Len(lru) \in Nat
      BY DEF Evictable, SlotTypes
    <2>2. \A k \in E : hot_slot_idx[lru[k]] = RESERVED => c \in high
      BY Zenon DEF Evictable
    <2>3. AcquiredSlot(c) = hot_slot_idx[lru[m]]
      BY <1>2, Zenon DEF AcquiredSlot
    <2>4. E # {}
      BY <1>2, Zenon
    <2> HIDE DEF E
    <2>5. m \in E
      BY <2>1, <2>4, LastExists, Zenon
    <2> HIDE DEF m
    <2>6. m \in 1..Len(lru) /\ lru[m] \in Coro
      BY <2>1, <2>5 DEF SlotTypes
    <2>7. hot_slot_idx[lru[m]] >= 0
      BY <2>6, Zenon DEF SlotsAgree
    <2>8. hot_slot_idx[lru[m]] \in Slot \cup {-1}
      BY <2>6, Zenon DEF SlotTypes
    <2> QED
      BY <2>2, <2>3, <2>5, <2>7, <2>8, SMTT(40)
  <1>3. CASE FreeFor(c) = {} /\ Evictable(c) = {}
    <2>1. AcquiredSlot(c) = -1
      BY <1>3, Zenon DEF AcquiredSlot
    <2>2. ASSUME NSlots >= 2, hot_slot_idx[c] = -1
          PROVE  FALSE
      <3>1. 1 \in Slot /\ 1 # RESERVED
        BY <2>2, <1>0 DEF Slot, RESERVED
      <3>2. occupant[1] # None
        BY <3>1, <1>3, Zenon DEF FreeFor
      <3>3. occupant[1] \in Coro
        BY <3>1, <3>2, Zenon DEF SlotTypes
      <3>4. hot_slot_idx[occupant[1]] = 1
        BY <3>1, <3>3, SMTT(40) DEF SlotsAgree
      <3>5. PICK k \in 1..Len(lru) : lru[k] = occupant[1]
        BY <3>3, <3>4, SMTT(40) DEF SlotsAgree
      <3>6. lru[k] # c
        BY <3>4, <3>5, <2>2, SMTT(40)
      <3>7. k \in Evictable(c)
        BY <3>1, <3>4, <3>5, <3>6, Zenon DEF Evictable
      <3> QED
        BY <3>7, <1>3, Zenon
    <2> QED
      BY <2>1, <2>2 DEF RESERVED
  <1> QED
    BY <1>1, <1>2, <1>3, Zenon

\* hot_slot_release(): c is in no slot and in no list, the rest is as before.
LEMMA LeaveFacts ==
    ASSUME SlotTypes, SlotsAgree, NEW c \in Coro, hot_slot_idx[c] >= 0, LeaveSlot(c)
    PROVE  SlotTypes' /\ SlotsAgree'
  <1>0. NSlots \in Nat \ {0} /\ None \notin Coro
    BY StacksAssumption, Zenon
  <1>1. PICK s \in Slot : hot_slot_idx[c] = s
    BY DEF SlotTypes
  <1>2. occupant[s] = c
    BY <1>1, Zenon DEF SlotsAgree
  <1>3. Lists(lru, c) /\ OnceEach(lru) /\ hot_coro_count = Len(lru)
    BY Zenon DEF SlotsAgree, Lists, OnceEach
  <1>4. lru' = hot_lru_remove(lru, c)
    BY Zenon DEF LeaveSlot
  <1>5. /\ lru' \in Seq(Coro)
        /\ Len(lru') = Len(lru) - 1
        /\ OnceEach(lru')
        /\ \A x : Lists(lru', x) <=> Lists(lru, x) /\ x # c
    BY <1>3, <1>4, RemoveFacts, Zenon DEF SlotTypes
  <1>6. hot_coro_count' = Len(lru')
    BY <1>3, <1>5, Zenon DEF LeaveSlot
  <1>7. /\ hot_slot_idx' = [hot_slot_idx EXCEPT ![c] = -1]
        /\ occupant' = [occupant EXCEPT ![s] = None]
    BY <1>1, Zenon DEF LeaveSlot
  <1>8. SlotTypes'
    BY <1>5, <1>6, <1>7, SMTT(40) DEF SlotTypes
  <1>9. \A x \in Coro : hot_slot_idx'[x] = IF x = c THEN -1 ELSE hot_slot_idx[x]
    BY <1>7, Zenon DEF SlotTypes
  <1>10. \A t \in Slot : occupant'[t] = IF t = s THEN None ELSE occupant[t]
    BY <1>7, ZenonT(40) DEF SlotTypes
  <1>11. ASSUME NEW x \in Coro, NEW t \in Slot
         PROVE  hot_slot_idx'[x] = t <=> occupant'[t] = x
    <2>1. hot_slot_idx[x] = t <=> occupant[t] = x
      BY Zenon DEF SlotsAgree
    <2>2. t # -1
      BY <1>0 DEF Slot
    <2> QED
      BY <2>1, <2>2, <1>0, <1>1, <1>2, <1>9, <1>10, SMTT(40)
  <1>12. ASSUME NEW x \in Coro
         PROVE  hot_slot_idx'[x] >= 0 <=> Lists(lru', x)
    <2>1. hot_slot_idx[x] >= 0 <=> Lists(lru, x)
      BY Zenon DEF SlotsAgree, Lists
    <2>2. ~(-1 >= 0)
      OBVIOUS
    <2> QED
      BY <2>1, <2>2, <1>5, <1>9, Zenon
  <1> QED
    BY <1>5, <1>6, <1>8, <1>11, <1>12, Zenon DEF SlotsAgree, Lists, OnceEach

\* switch_to_coro() of a cold coroutine: it takes slot s, the evicted one has none.
LEMMA OccupyFacts ==
    ASSUME SlotTypes, SlotsAgree, NEW c \in Coro, hot_slot_idx[c] = -1,
           NEW s \in Slot, NEW ok, Occupy(c, s, occupant[s], ok)
    PROVE  SlotTypes' /\ SlotsAgree'
  <1> DEFINE v == occupant[s]
             rest == IF v = None THEN lru ELSE hot_lru_remove(lru, v)
  <1>0. NSlots \in Nat \ {0} /\ None \notin Coro /\ \A t \in Slot : t >= 0 /\ t # -1
    BY StacksAssumption DEF Slot
  <1>1. v \in Coro \cup {None} /\ v # c
    <2>1. hot_slot_idx[c] = s <=> occupant[s] = c
      BY Zenon DEF SlotsAgree
    <2> QED
      BY <2>1, <1>0, Zenon DEF SlotTypes
  <1>2. /\ hot_slot_idx' = [x \in Coro |-> IF x = c THEN s
                                          ELSE IF x = v THEN -1 ELSE hot_slot_idx[x]]
        /\ occupant' = [occupant EXCEPT ![s] = c]
        /\ lru' = <<c>> \o rest
        /\ hot_coro_count' = hot_coro_count + (IF v = None THEN 1 ELSE 0)
    BY Zenon DEF Occupy, hot_lru_insert_head
  <1>3. OnceEach(lru) /\ hot_coro_count = Len(lru) /\ ~Lists(lru, c) /\ lru \in Seq(Coro)
    BY SMTT(40) DEF SlotsAgree, Lists, OnceEach, SlotTypes
  <1>4. v # None => hot_slot_idx[v] = s /\ Lists(lru, v)
    BY <1>0, <1>1 DEF SlotsAgree, Lists
  <1>5. /\ rest \in Seq(Coro)
        /\ Len(rest) = Len(lru) - (IF v = None THEN 0 ELSE 1)
        /\ OnceEach(rest)
        /\ \A x \in Coro : Lists(rest, x) <=> Lists(lru, x) /\ x # v
    <2>1. CASE v = None
      BY <2>1, <1>0, <1>3, SMTT(40)
    <2>2. CASE v # None
      BY <2>2, <1>3, <1>4, RemoveFacts, Zenon
    <2> QED
      BY <2>1, <2>2, ZenonT(40)
  <1> HIDE DEF rest
  <1>6. /\ lru' \in Seq(Coro)
        /\ Len(lru') = Len(rest) + 1
        /\ OnceEach(lru')
        /\ \A x \in Coro : Lists(lru', x) <=> Lists(rest, x) \/ x = c
    BY <1>2, <1>3, <1>5, ConsFacts, ZenonT(40)
  <1>7. hot_coro_count' = Len(lru')
    <2>1. Len(lru) \in Nat
      BY <1>3, SMTT(40)
    <2> QED
      BY <2>1, <1>2, <1>3, <1>5, <1>6, SMTT(40)
  <1> HIDE DEF v
  <1>8. SlotTypes'
    BY <1>2, <1>6, <1>7, SMTT(40) DEF SlotTypes
  <1>9. \A x \in Coro : hot_slot_idx'[x] = IF x = c THEN s
                                          ELSE IF x = v THEN -1 ELSE hot_slot_idx[x]
    BY <1>2, Zenon
  <1>10. \A t \in Slot : occupant'[t] = IF t = s THEN c ELSE occupant[t]
    BY <1>2, Zenon DEF SlotTypes
  <1>11. ASSUME NEW x \in Coro, NEW t \in Slot
         PROVE  hot_slot_idx'[x] = t <=> occupant'[t] = x
    <2>1. hot_slot_idx[x] = t <=> occupant[t] = x
      BY Zenon DEF SlotsAgree
    <2>2. occupant[s] = v
      BY Zenon DEF v
    <2>3. CASE x = c
      BY <2>1, <2>3, <1>0, <1>9, <1>10, ZenonT(40)
    <2>4. CASE x # c /\ x = v
      BY <2>1, <2>2, <2>4, <1>0, <1>4, <1>9, <1>10, SMTT(40)
    <2>5. CASE x # c /\ x # v
      BY <2>1, <2>2, <2>5, <1>9, <1>10, Zenon
    <2> QED
      BY <2>3, <2>4, <2>5, Zenon
  <1>12. ASSUME NEW x \in Coro
         PROVE  hot_slot_idx'[x] >= 0 <=> Lists(lru', x)
    <2>1. hot_slot_idx[x] >= 0 <=> Lists(lru, x)
      BY Zenon DEF SlotsAgree, Lists
    <2>2. ~(-1 >= 0) /\ s >= 0
      BY <1>0
    <2>3. CASE x = c
      BY <2>2, <2>3, <1>6, <1>9, Zenon
    <2>4. CASE x # c /\ x = v
      BY <2>2, <2>4, <1>5, <1>6, <1>9, ZenonT(40)
    <2>5. CASE x # c /\ x # v
      BY <2>1, <2>5, <1>5, <1>6, <1>9, ZenonT(40)
    <2> QED
      BY <2>3, <2>4, <2>5, Zenon
  <1> QED
    BY <1>6, <1>7, <1>8, <1>11, <1>12, ZenonT(40) DEF SlotsAgree, Lists, OnceEach

\* hot_lru_move_to_head(): the list holds the same coroutines.
LEMMA TouchFacts ==
    ASSUME SlotTypes, SlotsAgree, NEW c \in Coro, hot_slot_idx[c] >= 0,
           lru' = hot_lru_move_to_head(lru, c),
           UNCHANGED <<hot_slot_idx, occupant, hot_coro_count>>
    PROVE  SlotTypes' /\ SlotsAgree'
  <1> DEFINE rest == hot_lru_remove(lru, c)
  <1>1. OnceEach(lru) /\ hot_coro_count = Len(lru) /\ Lists(lru, c) /\ lru \in Seq(Coro)
    BY Zenon DEF SlotsAgree, Lists, OnceEach, SlotTypes
  <1>2. /\ rest \in Seq(Coro)
        /\ Len(rest) = Len(lru) - 1
        /\ OnceEach(rest)
        /\ \A x : Lists(rest, x) <=> Lists(lru, x) /\ x # c
    BY <1>1, RemoveFacts, Zenon
  <1>3. lru' = <<c>> \o rest
    BY Zenon DEF hot_lru_move_to_head, hot_lru_insert_head
  <1> HIDE DEF rest
  <1>4. /\ lru' \in Seq(Coro)
        /\ Len(lru') = Len(rest) + 1
        /\ OnceEach(lru')
        /\ \A x : Lists(lru', x) <=> Lists(rest, x) \/ x = c
    BY <1>2, <1>3, ConsFacts, SMTT(40)
  <1>5. \A x : Lists(lru', x) <=> Lists(lru, x)
    BY <1>1, <1>2, <1>4, Zenon
  <1>6. SlotTypes'
    BY <1>4, Zenon DEF SlotTypes
  <1>7. hot_coro_count' = Len(lru')
    BY <1>1, <1>2, <1>4, SMTT(40)
  <1>8. \A x \in Coro : hot_slot_idx'[x] >= 0 <=> Lists(lru', x)
    BY <1>5, Zenon DEF SlotsAgree, Lists
  <1>9. \A x \in Coro, t \in Slot : hot_slot_idx'[x] = t <=> occupant'[t] = x
    BY Zenon DEF SlotsAgree
  <1> QED
    BY <1>4, <1>6, <1>7, <1>8, <1>9, ZenonT(40) DEF SlotsAgree, Lists, OnceEach

-----------------------------------------------------------------------------
(* The pool.                                                               *)

\* The types of what describes the pool.
PoolTypes ==
    /\ own \in [Coro -> Stack \cup {None}]
    /\ big \subseteq Coro
    /\ freelist \in Seq(Stack)
    /\ count \in Nat
    /\ mapped \subseteq Stack

\* The head of a list, and what is left without it.
LEMMA TailFacts ==
    ASSUME NEW S, NEW s \in Seq(S), s # <<>>, OnceEach(s)
    PROVE  /\ Head(s) \in S /\ Tail(s) \in Seq(S)
           /\ Len(Tail(s)) = Len(s) - 1
           /\ Lists(s, Head(s))
           /\ OnceEach(Tail(s))
           /\ \A x : Lists(Tail(s), x) <=> Lists(s, x) /\ x # Head(s)
  <1> DEFINE r == Tail(s)
  <1>1. Len(s) \in Nat \ {0} /\ Head(s) \in S /\ r \in Seq(S) /\ Len(r) = Len(s) - 1
    OBVIOUS
  <1>2. Head(s) = s[1] /\ \A i \in 1..Len(r) : r[i] = s[i + 1]
    OBVIOUS
  <1> HIDE DEF r
  <1>3. OnceEach(r)
    BY <1>1, <1>2, SMTT(40) DEF OnceEach
  <1>4. Lists(s, Head(s))
    BY <1>1, <1>2 DEF Lists
  <1>5. ASSUME NEW x
        PROVE  Lists(r, x) <=> Lists(s, x) /\ x # Head(s)
    <2>1. ASSUME Lists(r, x) PROVE Lists(s, x) /\ x # Head(s)
      <3>1. PICK i \in 1..Len(r) : r[i] = x
        BY <2>1, Zenon DEF Lists
      <3>2. i + 1 \in 1..Len(s) /\ i + 1 # 1 /\ 1 \in 1..Len(s) /\ s[i + 1] = x
        BY <3>1, <1>1, <1>2, SMTT(40)
      <3> QED
        BY <3>2, <1>2, Zenon DEF Lists, OnceEach
    <2>2. ASSUME Lists(s, x), x # Head(s) PROVE Lists(r, x)
      <3>1. PICK j \in 1..Len(s) : s[j] = x
        BY <2>2, Zenon DEF Lists
      <3>2. j # 1
        BY <3>1, <2>2, <1>2, Zenon
      <3>3. j - 1 \in 1..Len(r) /\ (j - 1) + 1 = j
        BY <3>2, <1>1
      <3>4. r[j - 1] = x
        BY <3>1, <3>3, <1>2, Zenon
      <3> QED
        BY <3>3, <3>4, Zenon DEF Lists
    <2> QED
      BY <2>1, <2>2, Zenon
  <1> QED
    BY <1>1, <1>3, <1>4, <1>5, Zenon DEF r

\* EachStackOnce in terms of Lists and OnceEach.
LEMMA PoolView ==
    EachStackOnce <=>
        /\ \A c, e \in Coro : own[c] = own[e] /\ c # e => own[c] = None
        /\ OnceEach(freelist)
        /\ \A c \in Coro : ~Lists(freelist, own[c])
        /\ \A s \in Stack : s \in mapped <=> (\E c \in Coro : own[c] = s) \/ Lists(freelist, s)
        /\ count = Len(freelist)
        /\ count <= Limit
  BY ZenonT(40) DEF EachStackOnce, OnceEach, Lists

\* stack_pool_alloc() for a coroutine without a stack.
LEMMA AllocFacts ==
    ASSUME PoolTypes, EachStackOnce, NEW c \in Coro, NEW large \in BOOLEAN,
           own[c] = None, stack_pool_alloc(c, large),
           big' = IF large THEN big \cup {c} ELSE big
    PROVE  PoolTypes' /\ EachStackOnce'
  <1>0. None \notin Stack /\ Limit \in Nat
    BY StacksAssumption, Zenon
  <1>1. PICK k \in Stack :
          /\ own' = [own EXCEPT ![c] = k]
          /\ \/ /\ freelist # <<>> /\ k = Head(freelist)
                /\ freelist' = Tail(freelist) /\ count' = count - 1 /\ mapped' = mapped
             \/ /\ k \notin mapped /\ mapped' = mapped \cup {k}
                /\ freelist' = freelist /\ count' = count
    <2>1. CASE freelist # <<>> /\ own' = [own EXCEPT ![c] = Head(freelist)]
               /\ freelist' = Tail(freelist) /\ count' = count - 1 /\ mapped' = mapped
      <3>1. Head(freelist) \in Stack
        BY <2>1 DEF PoolTypes
      <3> QED
        BY <3>1, <2>1, Zenon
    <2>2. CASE /\ \E s \in Stack \ mapped : own' = [own EXCEPT ![c] = s] /\ mapped' = mapped \cup {s}
               /\ freelist' = freelist /\ count' = count
      BY <2>2, Zenon
    <2> QED
      BY <2>1, <2>2, Zenon DEF stack_pool_alloc
  <1>2. OnceEach(freelist) /\ count = Len(freelist) /\ count <= Limit /\ freelist \in Seq(Stack)
    BY PoolView, Zenon DEF PoolTypes
  <1>3. /\ freelist' \in Seq(Stack) /\ OnceEach(freelist')
        /\ count' = Len(freelist') /\ count' <= Limit /\ mapped' \subseteq Stack
        /\ \A x : Lists(freelist', x) <=> Lists(freelist, x) /\ x # k
        /\ \A x \in Stack : x \in mapped' <=> x \in mapped \/ x = k
        /\ \A x \in Coro : own[x] # k
    <2>1. CASE freelist # <<>> /\ k = Head(freelist)
               /\ freelist' = Tail(freelist) /\ count' = count - 1 /\ mapped' = mapped
      <3>1. /\ Tail(freelist) \in Seq(Stack) /\ OnceEach(Tail(freelist)) /\ Lists(freelist, k)
            /\ Len(Tail(freelist)) = Len(freelist) - 1
            /\ \A x : Lists(Tail(freelist), x) <=> Lists(freelist, x) /\ x # k
        BY <2>1, <1>2, TailFacts, ZenonT(40)
      <3>2. k \in mapped /\ \A x \in Coro : own[x] # k
        BY <3>1, PoolView, SMTT(40)
      <3>3. Len(freelist) \in Nat
        BY <1>2
      <3> QED
        BY <3>1, <3>2, <3>3, <2>1, <1>0, <1>2, SMTT(40) DEF PoolTypes
    <2>2. CASE k \notin mapped /\ mapped' = mapped \cup {k}
               /\ freelist' = freelist /\ count' = count
      <3>1. ~Lists(freelist, k) /\ \A x \in Coro : own[x] # k
        BY <2>2, PoolView, Zenon
      <3> QED
        BY <3>1, <2>2, <1>2, Zenon DEF PoolTypes
    <2> QED
      BY <1>1, <2>1, <2>2, ZenonT(40)
  <1>4. \A x \in Coro : own'[x] = IF x = c THEN k ELSE own[x]
    BY <1>1, Zenon DEF PoolTypes
  <1>5. PoolTypes'
    <2>1. own' \in [Coro -> Stack \cup {None}]
      BY <1>1, Zenon DEF PoolTypes
    <2>2. count' \in Nat
      BY <1>3, SMTT(40)
    <2> QED
      BY <2>1, <2>2, <1>3, Zenon DEF PoolTypes
  <1>6. \A x, y \in Coro : own'[x] = own'[y] /\ x # y => own'[x] = None
    BY <1>3, <1>4, PoolView, SMTT(40)
  <1>7. \A x \in Coro : ~Lists(freelist', own'[x])
    BY <1>3, <1>4, PoolView, ZenonT(40)
  <1>8. ASSUME NEW s \in Stack
        PROVE  s \in mapped' <=> (\E x \in Coro : own'[x] = s) \/ Lists(freelist', s)
    <2>1. s \in mapped <=> (\E x \in Coro : own[x] = s) \/ Lists(freelist, s)
      BY PoolView, Zenon
    <2>2. own[c] # s
      BY <1>0, Zenon
    <2>3. (\E x \in Coro : own'[x] = s) <=> (\E x \in Coro : own[x] = s) \/ s = k
      BY <2>2, <1>4, ZenonT(40)
    <2> QED
      BY <2>1, <2>3, <1>3, Zenon
  <1> QED
    BY <1>3, <1>5, <1>6, <1>7, <1>8, SMTT(40) DEF EachStackOnce, OnceEach, Lists

\* stack_pool_free() of the stack of c.
LEMMA FreeFacts ==
    ASSUME PoolTypes, EachStackOnce, NEW c \in Coro, own[c] # None,
           stack_pool_free(c), big' = big \ {c}
    PROVE  PoolTypes' /\ EachStackOnce' /\ own' = [own EXCEPT ![c] = None]
  <1>0. None \notin Stack /\ Limit \in Nat
    BY StacksAssumption, Zenon
  <1> DEFINE k == own[c]
  <1>1. own' = [own EXCEPT ![c] = None] /\ k \in Stack
    BY Zenon DEF stack_pool_free, PoolTypes
  <1>2. /\ OnceEach(freelist) /\ count = Len(freelist) /\ count <= Limit
        /\ freelist \in Seq(Stack) /\ ~Lists(freelist, k) /\ count \in Nat
    BY PoolView, Zenon DEF PoolTypes
  <1>3. \/ mapped' = mapped \ {k} /\ freelist' = freelist /\ count' = count
        \/ mapped' = mapped /\ freelist' = <<k>> \o freelist /\ count' = count + 1 /\ ~(count >= Limit)
    BY Zenon DEF stack_pool_free
  <1>4. \A x \in Coro : own'[x] = IF x = c THEN None ELSE own[x]
    BY <1>1, Zenon DEF PoolTypes
  <1>5. \A x \in Coro : x # c => own[x] # k
    BY <1>0, <1>1, PoolView, ZenonT(40)
  <1>6. ~Lists(freelist, None) /\ \A x : Lists(freelist, x) => x \in Stack
    BY <1>0, <1>2, SMTT(40) DEF Lists
  <1>7. /\ freelist' \in Seq(Stack) /\ OnceEach(freelist')
        /\ count' = Len(freelist') /\ count' \in Nat /\ count' <= Limit
        /\ \A x : Lists(freelist', x) => Lists(freelist, x) \/ x = k
        /\ \A x : Lists(freelist, x) => Lists(freelist', x)
        /\ mapped' \subseteq mapped
        /\ k \in mapped' <=> Lists(freelist', k)
        /\ \A x \in Stack : x # k => (x \in mapped' <=> x \in mapped)
    <2>1. CASE mapped' = mapped \ {k} /\ freelist' = freelist /\ count' = count
      BY <2>1, <1>2, Zenon
    <2>2. CASE mapped' = mapped /\ freelist' = <<k>> \o freelist /\ count' = count + 1 /\ ~(count >= Limit)
      <3>1. /\ freelist' \in Seq(Stack) /\ Len(freelist') = Len(freelist) + 1 /\ OnceEach(freelist')
            /\ \A x : Lists(freelist', x) <=> Lists(freelist, x) \/ x = k
        BY <2>2, <1>1, <1>2, ConsFacts, ZenonT(40)
      <3>2. k \in mapped
        BY <1>1, PoolView, Zenon
      <3>3. count' \in Nat /\ count' <= Limit /\ count' = Len(freelist')
        BY <3>1, <2>2, <1>0, <1>2, SMTT(40)
      <3> QED
        BY <3>1, <3>2, <3>3, <2>2, Zenon
    <2> QED
      BY <1>3, <2>1, <2>2, Zenon
  <1> HIDE DEF k
  <1>8. PoolTypes'
    BY <1>1, <1>7, ZenonT(40) DEF PoolTypes
  <1>9. \A x, y \in Coro : own'[x] = own'[y] /\ x # y => own'[x] = None
    BY <1>4, PoolView, SMTT(40)
  <1>10. \A x \in Coro : ~Lists(freelist', own'[x])
    <2> TAKE x \in Coro
    <2>1. ~Lists(freelist, own[x])
      BY PoolView, Zenon
    <2>2. k # None
      BY <1>0, <1>1, Zenon
    <2> QED
      BY <2>1, <2>2, <1>4, <1>5, <1>6, <1>7, ZenonT(40)
  <1>11. ASSUME NEW s \in Stack
        PROVE  s \in mapped' <=> (\E x \in Coro : own'[x] = s) \/ Lists(freelist', s)
    <2>1. s \in mapped <=> (\E x \in Coro : own[x] = s) \/ Lists(freelist, s)
      BY PoolView, Zenon
    <2>2. CASE s = k
      <3>1. \A x \in Coro : own'[x] # k
        BY <1>0, <1>1, <1>4, <1>5, Zenon
      <3> QED
        BY <3>1, <2>2, <1>7, Zenon
    <2>3. CASE s # k
      <3>1. (\E x \in Coro : own'[x] = s) <=> (\E x \in Coro : own[x] = s)
        <4>1. own[c] # s
          BY <2>3, Zenon DEF k
        <4> QED
          BY <4>1, <1>0, <1>4, Zenon
      <3>2. Lists(freelist', s) <=> Lists(freelist, s)
        BY <2>3, <1>7, Zenon
      <3> QED
        BY <3>1, <3>2, <2>1, <2>3, <1>7, Zenon
    <2> QED
      BY <2>2, <2>3, Zenon
  <1> QED
    BY <1>1, <1>7, <1>8, <1>9, <1>10, <1>11, SMTT(40) DEF EachStackOnce, OnceEach, Lists

-----------------------------------------------------------------------------
(* The steps.                                                              *)

\* The rest of the types and of the invariant.
RestTypes == state \in [Coro -> States] /\ high \subseteq Coro /\ current \in Coro \cup {None}
FreshHasNone == \A c \in Coro : state[c] = "NONE" => own[c] = None

\* The invariant, part by part.
LEMMA SlotInvView ==
    SlotInv <=> SlotTypes /\ PoolTypes /\ RestTypes /\ SlotsAgree /\ EachStackOnce /\ FreshHasNone
  BY Zenon DEF SlotInv, TypeOK, SlotTypes, PoolTypes, RestTypes, FreshHasNone

\* A step that leaves the slots alone.
LEMMA SlotFrame ==
    SlotTypes /\ SlotsAgree /\ UNCHANGED slotVars => SlotTypes' /\ SlotsAgree'
  BY SMTT(40) DEF slotVars, SlotTypes, SlotsAgree

\* A step that leaves the pool alone.
LEMMA PoolFrame ==
    PoolTypes /\ EachStackOnce /\ UNCHANGED poolVars => PoolTypes' /\ EachStackOnce'
  BY DEF poolVars, PoolTypes, EachStackOnce

\* The invariant holds at the start.
LEMMA InitSlotInv == Init => SlotInv
  <1> SUFFICES ASSUME Init PROVE SlotInv
    BY Zenon
  <1>0. NSlots \in Nat \ {0} /\ Limit \in Nat /\ None \notin Stack /\ None \notin Coro
    BY StacksAssumption, Zenon
  <1>1. RestTypes /\ FreshHasNone
    BY Zenon DEF Init, RestTypes, FreshHasNone, States
  <1>2. SlotTypes
    BY SMTT(40) DEF Init, SlotTypes
  <1>3. PoolTypes
    BY DEF Init, PoolTypes
  <1>4. SlotsAgree
    <2>1. \A s \in Slot : s # -1
      BY <1>0 DEF Slot
    <2>2. ~(-1 >= 0) /\ 1..Len(<<>>) = {}
      BY SMTT(40)
    <2> QED
      BY <2>1, <2>2, <1>0, Zenon DEF Init, SlotsAgree
  <1>5. EachStackOnce
    <2>1. 1..Len(<<>>) = {}
      OBVIOUS
    <2> QED
      BY <2>1, <1>0, SMTT(40) DEF Init, EachStackOnce
  <1> QED
    BY <1>1, <1>2, <1>3, <1>4, <1>5, SlotInvView, ZenonT(40)

\* Every step preserves the invariant.
LEMMA NextSlotInv ==
    ASSUME SlotInv, [Next]_vars
    PROVE  SlotInv'
  <1>0. /\ SlotTypes /\ PoolTypes /\ RestTypes /\ SlotsAgree /\ EachStackOnce /\ FreshHasNone
        /\ None \notin Coro
    BY SlotInvView, StacksAssumption, Zenon
  <1> SUFFICES /\ SlotTypes' /\ SlotsAgree'
               /\ PoolTypes' /\ EachStackOnce'
               /\ RestTypes' /\ FreshHasNone'
    BY SlotInvView, PTL
  <1>1. ASSUME NEW c \in Coro, coco_create_hot(c)
        PROVE  /\ UNCHANGED slotVars /\ UNCHANGED poolVars
               /\ RestTypes' /\ FreshHasNone'
    BY <1>0, <1>1, Zenon DEF coco_create_hot, RestTypes, FreshHasNone, States, poolVars
  <1>2. ASSUME NEW c \in Coro, NEW large \in BOOLEAN, coco_create_exclusive(c, large)
        PROVE  /\ UNCHANGED slotVars /\ PoolTypes' /\ EachStackOnce'
               /\ RestTypes' /\ FreshHasNone'
    <2>1. own[c] = None
      BY <1>0, <1>2, Zenon DEF coco_create_exclusive, FreshHasNone
    <2>2. PoolTypes' /\ EachStackOnce'
      BY <2>1, <1>0, <1>2, AllocFacts, Zenon DEF coco_create_exclusive
    <2>3. \A x \in Coro : x # c => own'[x] = own[x]
      BY <1>0, <1>2, Zenon DEF coco_create_exclusive, stack_pool_alloc, PoolTypes
    <2>4. state' = [state EXCEPT ![c] = "READY"] /\ UNCHANGED <<high, slotVars, current>>
      BY <1>2, Zenon DEF coco_create_exclusive
    <2> QED
      BY <2>2, <2>3, <2>4, <1>0, Zenon DEF RestTypes, FreshHasNone, States
  <1>3. ASSUME NEW c \in Ranked, coco_set_priority(c)
        PROVE  /\ UNCHANGED slotVars /\ UNCHANGED poolVars
               /\ RestTypes' /\ FreshHasNone'
    BY <1>0, <1>3, StacksAssumption, Zenon DEF coco_set_priority, RestTypes, FreshHasNone, poolVars
  <1>4. ASSUME NEW c \in Coro, switch_to_exclusive(c)
        PROVE  /\ UNCHANGED slotVars /\ UNCHANGED poolVars
               /\ RestTypes' /\ FreshHasNone'
    BY <1>0, <1>4, Zenon DEF switch_to_exclusive, RestTypes, FreshHasNone, States, poolVars
  <1>5. ASSUME NEW c \in Coro, switch_to_hot(c)
        PROVE  /\ SlotTypes' /\ SlotsAgree' /\ UNCHANGED poolVars
               /\ RestTypes' /\ FreshHasNone'
    <2>1. SlotTypes' /\ SlotsAgree'
      BY <1>0, <1>5, TouchFacts, Zenon DEF switch_to_hot
    <2> QED
      BY <2>1, <1>0, <1>5, Zenon DEF switch_to_hot, RestTypes, FreshHasNone, States, poolVars
  <1>6. ASSUME NEW c \in Coro, switch_to_cold(c)
        PROVE  /\ SlotTypes' /\ SlotsAgree' /\ UNCHANGED poolVars
               /\ RestTypes' /\ FreshHasNone'
    <2> DEFINE s == AcquiredSlot(c)
    <2>1. CASE s = -1
      <3>1. UNCHANGED slotVars /\ UNCHANGED poolVars /\ UNCHANGED <<state, high, current>>
        BY <2>1, <1>6, Zenon DEF switch_to_cold
      <3> QED
        BY <3>1, <1>0, SlotFrame, Zenon DEF RestTypes, FreshHasNone, poolVars
    <2>2. CASE s # -1
      <3>1. s \in Slot
        BY <2>2, <1>0, AcquiredFacts, Zenon
      <3>2. PICK ok \in Realloc : Occupy(c, s, occupant[s], ok)
        BY <2>2, <1>6, Zenon DEF switch_to_cold
      <3>3. hot_slot_idx[c] = -1
        BY <1>6, Zenon DEF switch_to_cold
      <3>4. state' = [state EXCEPT ![c] = "RUNNING"] /\ current' = c
            /\ UNCHANGED high /\ UNCHANGED poolVars
        BY <2>2, <1>6, Zenon DEF switch_to_cold
      <3> HIDE DEF s
      <3>5. SlotTypes' /\ SlotsAgree'
        BY <3>1, <3>2, <3>3, <1>0, OccupyFacts, Zenon
      <3> QED
        BY <3>4, <3>5, <1>0, Zenon DEF RestTypes, FreshHasNone, States, poolVars
    <2> QED
      BY <2>1, <2>2, Zenon
  <1>7. ASSUME NEW d \in Cell, NEW to \in {"READY", "WAITING"}, coco_yield(d, to)
        PROVE  /\ UNCHANGED slotVars /\ UNCHANGED poolVars
               /\ RestTypes' /\ FreshHasNone'
    BY <1>0, <1>7, Zenon DEF coco_yield, RestTypes, FreshHasNone, States, poolVars
  <1>8. ASSUME NEW c \in Coro, enqueue_ready(c)
        PROVE  /\ UNCHANGED slotVars /\ UNCHANGED poolVars
               /\ RestTypes' /\ FreshHasNone'
    BY <1>0, <1>8, Zenon DEF enqueue_ready, RestTypes, FreshHasNone, States, poolVars
  <1>9. ASSUME coco_exit
        PROVE  /\ SlotTypes' /\ SlotsAgree' /\ UNCHANGED poolVars
               /\ RestTypes' /\ FreshHasNone'
    <2>1. current \in Coro
      BY <1>0, <1>9, Zenon DEF coco_exit, RestTypes
    <2>2. SlotTypes' /\ SlotsAgree'
      <3>1. CASE hot_slot_idx[current] >= 0
        BY <3>1, <2>1, <1>0, <1>9, LeaveFacts, Zenon DEF coco_exit
      <3>2. CASE ~(hot_slot_idx[current] >= 0)
        BY <3>2, <1>0, <1>9, SlotFrame, Zenon DEF coco_exit
      <3> QED
        BY <3>1, <3>2, Zenon
    <2> QED
      BY <2>1, <2>2, <1>0, <1>9, Zenon DEF coco_exit, RestTypes, FreshHasNone, States, poolVars
  <1>10. ASSUME NEW c \in Coro, coro_migrate_prepare(c)
        PROVE  /\ SlotTypes' /\ SlotsAgree' /\ UNCHANGED poolVars
               /\ RestTypes' /\ FreshHasNone'
    <2>1. SlotTypes' /\ SlotsAgree'
      BY <1>0, <1>10, LeaveFacts, Zenon DEF coro_migrate_prepare
    <2> QED
      BY <2>1, <1>0, <1>10, Zenon DEF coro_migrate_prepare, RestTypes, FreshHasNone, poolVars
  <1>11. ASSUME NEW c \in Coro, coco_destroy(c)
        PROVE  /\ UNCHANGED slotVars /\ PoolTypes' /\ EachStackOnce'
               /\ RestTypes' /\ FreshHasNone'
    <2>1. /\ state' = [state EXCEPT ![c] = "NONE"] /\ high' = high \ {c} /\ big' = big \ {c}
          /\ UNCHANGED slotVars /\ UNCHANGED current
      BY <1>11, Zenon DEF coco_destroy
    <2>2. CASE own[c] # None
      <3>1. PoolTypes' /\ EachStackOnce' /\ own' = [own EXCEPT ![c] = None]
        BY <2>1, <2>2, <1>0, <1>11, FreeFacts, Zenon DEF coco_destroy
      <3> QED
        BY <3>1, <2>1, <1>0, Zenon DEF RestTypes, FreshHasNone, States, PoolTypes
    <2>3. CASE own[c] = None
      <3>1. UNCHANGED <<own, freelist, count, mapped>>
        BY <2>3, <1>11, ZenonT(40) DEF coco_destroy
      <3>2. PoolTypes' /\ EachStackOnce'
        BY <3>1, <2>1, <1>0, SMTT(40) DEF PoolTypes, EachStackOnce
      <3> QED
        BY <3>1, <3>2, <2>1, <2>3, <1>0, ZenonT(40) DEF RestTypes, FreshHasNone, States
    <2> QED
      BY <2>2, <2>3, Zenon
  <1>12. ASSUME UNCHANGED vars
        PROVE  /\ UNCHANGED slotVars /\ UNCHANGED poolVars
               /\ RestTypes' /\ FreshHasNone'
    BY <1>0, <1>12, Zenon DEF vars, poolVars, RestTypes, FreshHasNone
  <1> QED
    BY <1>0, <1>1, <1>2, <1>3, <1>4, <1>5, <1>6, <1>7, <1>8, <1>9, <1>10, <1>11, <1>12,
       SlotFrame, PoolFrame, ZenonT(40) DEF Next

-----------------------------------------------------------------------------
(* The theorems.                                                           *)

\* The inductive invariant holds throughout.
THEOREM StacksInvariant == Spec => []SlotInv
  <1>1. Init => SlotInv
    BY InitSlotInv, ZenonT(40)
  <1>2. SlotInv /\ [Next]_vars => SlotInv'
    BY NextSlotInv, Zenon
  <1> QED
    BY <1>1, <1>2, PTL DEF Spec

\* Slots, coroutines, the LRU list and the pool agree at all times, for any
\* number of slots, coroutines and stacks: acquire, evict, touch, release and
\* migrate keep occupant, hot_slot_idx, the links and hot_coro_count in step, the
\* pool neither loses a stack nor hands one out twice, and hot_slot_acquire()
\* never fails if there are two slots.
THEOREM PlacesCorrect == Spec => []PlacesAgree
  <1>1. SlotInv => SlotAlwaysFound
    BY SlotInvView, AcquiredFacts, Zenon DEF SlotAlwaysFound
  <1>2. SlotInv => PlacesAgree
    BY <1>1, Zenon DEF SlotInv, PlacesAgree
  <1> QED
    BY <1>2, StacksInvariant, PTL

\* Slot 0 is only given to a coroutine that is HIGH when hot_slot_acquire()
\* gives it, for any number of slots and coroutines.
THEOREM ReservedSlot == Spec => ReservedForHigh
  <1> DEFINE Given == \A c \in Coro : occupant'[RESERVED] = c /\ occupant[RESERVED] # c => c \in high
  <1>1. ASSUME SlotInv, Next
        PROVE  Given
    <2>0. SlotTypes /\ SlotsAgree /\ RestTypes /\ None \notin Coro
      BY <1>1, SlotInvView, StacksAssumption, Zenon
    <2>1. ASSUME UNCHANGED slotVars
          PROVE  Given
      BY <2>1, Zenon DEF slotVars
    <2>2. ASSUME NEW c \in Coro, hot_slot_idx[c] >= 0, LeaveSlot(c)
          PROVE  Given
      <3>1. occupant' = [occupant EXCEPT ![hot_slot_idx[c]] = None] /\ RESERVED \in Slot
        BY <2>2, StacksAssumption, SMTT(40) DEF LeaveSlot, Slot, RESERVED
      <3>2. occupant'[RESERVED] \in {occupant[RESERVED], None}
        BY <3>1, <2>0, Zenon DEF SlotTypes
      <3> QED
        BY <3>2, <2>0, Zenon
    <2>3. ASSUME NEW c \in Coro, switch_to_cold(c)
          PROVE  Given
      <3> DEFINE s == AcquiredSlot(c)
      <3>1. CASE s = -1
        BY <3>1, <2>1, <2>3, Zenon DEF switch_to_cold
      <3>2. CASE s # -1
        <4>1. s \in Slot /\ (s = RESERVED => c \in high) /\ RESERVED \in Slot
          BY <3>2, <2>0, AcquiredFacts, StacksAssumption, SMTT(40) DEF Slot, RESERVED
        <4>2. occupant' = [occupant EXCEPT ![s] = c]
          BY <3>2, <2>3, Zenon DEF switch_to_cold, Occupy
        <4> HIDE DEF s
        <4> QED
          BY <4>1, <4>2, <2>0, Zenon DEF SlotTypes
      <3> QED
        BY <3>1, <3>2, Zenon
    <2>4. CASE coco_exit
      BY <2>0, <2>1, <2>2, <2>4, Zenon DEF coco_exit, RestTypes
    <2>5. ASSUME NEW c \in Coro, coro_migrate_prepare(c)
          PROVE  Given
      BY <2>2, <2>5, Zenon DEF coro_migrate_prepare
    <2>6. ASSUME NEW c \in Coro, switch_to_hot(c)
          PROVE  Given
      BY <2>6, Zenon DEF switch_to_hot
    <2> HIDE DEF Given
    <2>7. ASSUME NEW c \in Coro,
                 \/ coco_create_hot(c)
                 \/ \E large \in BOOLEAN : coco_create_exclusive(c, large)
                 \/ coco_set_priority(c)
                 \/ switch_to_exclusive(c)
                 \/ \E d \in Cell, to \in {"READY", "WAITING"} : coco_yield(d, to)
                 \/ enqueue_ready(c)
                 \/ coco_destroy(c)
          PROVE  Given
      <3>1. UNCHANGED slotVars
        BY <2>7, Zenon DEF coco_create_hot, coco_create_exclusive, coco_set_priority,
           switch_to_exclusive, coco_yield, enqueue_ready, coco_destroy
      <3> QED
        BY <3>1, <2>1, Zenon
    <2>8. ASSUME NEW d \in Cell, NEW to \in {"READY", "WAITING"}, coco_yield(d, to)
          PROVE  Given
      BY <2>1, <2>8, Zenon DEF coco_yield
    <2>9. Ranked \subseteq Coro
      BY StacksAssumption, Zenon
    <2> QED
      BY <1>1, <2>3, <2>4, <2>5, <2>6, <2>7, <2>8, <2>9, ZenonT(40) DEF Next
  <1>2. SlotInv /\ [Next]_vars => [Given]_vars
    BY <1>1, Zenon
  <1> QED
    BY <1>2, StacksInvariant, PTL DEF Spec, ReservedForHigh

-----------------------------------------------------------------------------
(* The frames.                                                             *)

\* The data variables are functions of their domains, with sizes and depths
\* in range.
DataTypes ==
    /\ depth \in [Coro -> 0..Depth]
    /\ stack_used \in [Coro -> 0..Depth]
    /\ stack_top \in [Coro -> Slot \cup {None}]
    /\ mem = [p \in Place |-> mem[p]]
    /\ backup = [c \in Coro |-> [size |-> backup[c].size, cells |-> backup[c].cells]]
    /\ \A c \in Coro : backup[c].size \in Nat

\* Which coroutines run, and which are in a slot.
Placed ==
    /\ \A c \in Coro : state[c] = "RUNNING" <=> current = c
    /\ \A c \in Coro : hot_slot_idx[c] >= 0 =>
         state[c] \in {"READY", "RUNNING", "WAITING"} /\ own[c] = None
    /\ \A c \in Coro : state[c] = "RUNNING" /\ own[c] = None => hot_slot_idx[c] >= 0

\* The frames of a suspended or running coroutine c are where it will look
\* for them: on its own stack, in its slot, or in its backup.
Kept(c) ==
    /\ own[c] # None => \A i \in 1..depth[c] : mem[own[c]][i] = Frame(c, own[c])
    /\ own[c] = None => depth[c] <= stack_used[c]
    /\ hot_slot_idx[c] >= 0 =>
         /\ stack_top[c] = hot_slot_idx[c]
         /\ \A i \in 1..depth[c] : mem[hot_slot_idx[c]][i] = Frame(c, hot_slot_idx[c])
    /\ own[c] = None /\ hot_slot_idx[c] = -1 /\ depth[c] > 0 =>
         /\ backup[c].size >= stack_used[c]
         /\ \A i \in 1..depth[c] : backup[c].cells[i] = Frame(c, stack_top[c])

\* The inductive invariant behind StackIntact.
DataInv ==
    /\ DataTypes
    /\ Placed
    /\ restarted = {}
    /\ \A c \in Coro : state[c] = "NONE" => depth[c] = 0 /\ stack_used[c] = 0
    /\ \A c \in Coro : state[c] # "DEAD" => Kept(c)

-----------------------------------------------------------------------------

\* What is true of slots and stacks whatever the constants.
LEMMA PlaceFacts ==
    /\ None \notin Coro /\ None \notin Stack /\ Slot \cap Stack = {}
    /\ Depth \in Nat /\ \A s \in Slot : s \in Int /\ s >= 0
    /\ Slot \subseteq Place /\ Stack \subseteq Place
  BY StacksAssumption, SMTT(40) DEF Slot, Place

\* The cells a coroutine looks at are cells of the stack.
LEMMA CellFacts ==
    ASSUME NEW n \in 0..Depth, NEW i \in 1..n
    PROVE  i \in Cell /\ i <= n
  BY PlaceFacts DEF Cell

\* A frame tells whose it is.
LEMMA FrameFacts ==
    ASSUME NEW c, NEW p
    PROVE  Frame(c, p)[1] = c /\ Frame(c, p)[2] = p
  BY Zenon DEF Frame

\* The fields of a backup.
LEMMA RecordFacts ==
    ASSUME NEW n, NEW x, NEW r, r = [size |-> n, cells |-> x]
    PROVE  r.size = n /\ r.cells = x
  BY Zenon

\* Two coroutines are never in one slot or on one stack.
LEMMA Apart ==
    ASSUME SlotInv, NEW c \in Coro, NEW e \in Coro, c # e
    PROVE  /\ hot_slot_idx[c] >= 0 => hot_slot_idx[c] # hot_slot_idx[e]
           /\ own[c] # None => own[c] # own[e]
           /\ own[c] # None => own[c] \in Stack
           /\ hot_slot_idx[c] >= 0 => hot_slot_idx[c] \in Slot
           /\ hot_slot_idx[c] >= 0 /\ own[e] # None => hot_slot_idx[c] # own[e]
  <1>0. SlotTypes /\ PoolTypes /\ SlotsAgree /\ EachStackOnce
    BY SlotInvView, ZenonT(40)
  <1>1. hot_slot_idx[c] >= 0 => hot_slot_idx[c] \in Slot
    BY <1>0, PlaceFacts, SMTT(40) DEF SlotTypes
  <1>2. hot_slot_idx[c] >= 0 => hot_slot_idx[c] # hot_slot_idx[e]
    BY <1>0, <1>1, SMTT(40) DEF SlotsAgree
  <1>3. own[c] # None => own[c] # own[e]
    BY <1>0, Zenon DEF EachStackOnce
  <1>4. own[c] \in Stack \cup {None} /\ own[e] \in Stack \cup {None}
    BY <1>0, ZenonT(40) DEF PoolTypes
  <1> QED
    BY <1>1, <1>2, <1>3, <1>4, PlaceFacts, ZenonT(40)

-----------------------------------------------------------------------------
(* What a step leaves alone.                                               *)

\* A coroutine whose bookkeeping a step leaves alone keeps its frames if the
\* step leaves them alone too.
LEMMA KeptFrame ==
    ASSUME NEW e \in Coro, Kept(e),
           own'[e] = own[e], hot_slot_idx'[e] = hot_slot_idx[e], depth'[e] = depth[e],
           stack_used'[e] = stack_used[e], stack_top'[e] = stack_top[e],
           backup'[e].size = backup[e].size,
           own[e] # None => \A i \in 1..depth[e] :
               mem[own[e]][i] = Frame(e, own[e]) => mem'[own[e]][i] = mem[own[e]][i],
           hot_slot_idx[e] >= 0 => \A i \in 1..depth[e] :
               mem[hot_slot_idx[e]][i] = Frame(e, hot_slot_idx[e])
                 => mem'[hot_slot_idx[e]][i] = mem[hot_slot_idx[e]][i],
           \A i \in 1..depth[e] : backup[e].cells[i] = Frame(e, stack_top[e])
                 => backup'[e].cells[i] = backup[e].cells[i]
    PROVE  Kept(e)'
  BY DEF Kept

\* Steps that only change states, priorities and the pool.
LEMMA KeptSame ==
    ASSUME NEW e \in Coro, Kept(e), own'[e] = own[e], UNCHANGED <<hot_slot_idx, dataVars>>
    PROVE  Kept(e)'
  BY Zenon DEF Kept, dataVars

\* A step that leaves the data alone.
LEMMA TypesSame ==
    ASSUME DataTypes, UNCHANGED dataVars
    PROVE  DataTypes'
  BY Zenon DEF DataTypes, dataVars

-----------------------------------------------------------------------------
(* The steps that move frames.                                             *)

\* Saved() and backup_coro_stack(): a coroutine that leaves slot s leaves its
\* frames in its backup.
LEMMA BackupFacts ==
    ASSUME DataTypes, NEW v \in Coro, NEW s \in Slot, Kept(v), own[v] = None,
           hot_slot_idx[v] = s
    PROVE  LET b == backup_coro_stack(v, s, TRUE)
           IN  /\ b = [size |-> b.size, cells |-> b.cells]
               /\ b.size \in Nat
               /\ depth[v] > 0 => b.size >= stack_used[v]
               /\ depth[v] > 0 => \A i \in 1..depth[v] : b.cells[i] = Frame(v, stack_top[v])
  <1> DEFINE b == backup_coro_stack(v, s, TRUE)
             grown == [size |-> Max2(Max2(2 * backup[v].size, 1), stack_used[v]),
                       cells |-> Saved(mem[s], stack_used[v])]
             again == [size |-> backup[v].size, cells |-> Saved(mem[s], stack_used[v])]
  <1>1. /\ depth[v] \in 0..Depth /\ stack_used[v] \in Nat /\ Depth \in Nat
        /\ backup[v] = [size |-> backup[v].size, cells |-> backup[v].cells]
        /\ backup[v].size \in Nat
    BY PlaceFacts DEF DataTypes
  <1>2. depth[v] <= stack_used[v] /\ stack_top[v] = s
        /\ \A i \in 1..depth[v] : mem[s][i] = Frame(v, s)
    BY PlaceFacts, Zenon DEF Kept
  <1>3. \A i \in 1..depth[v] : Saved(mem[s], stack_used[v])[i] = Frame(v, stack_top[v])
    <2> TAKE i \in 1..depth[v]
    <2>1. i \in Cell /\ i <= depth[v]
      BY <1>1, CellFacts, ZenonT(40)
    <2>2. i <= stack_used[v]
      BY <2>1, <1>1, <1>2, SMTT(40) DEF Cell
    <2> QED
      BY <2>1, <2>2, <1>2, ZenonT(40) DEF Saved
  <1>4. CASE stack_used[v] = 0
    <2>1. b = backup[v] /\ ~(depth[v] > 0)
      BY <1>4, <1>1, <1>2, SMTT(40) DEF backup_coro_stack
    <2> QED
      BY <2>1, <1>1, Zenon
  <1>5. CASE stack_used[v] # 0 /\ backup[v].size >= stack_used[v]
    <2>1. b = [backup[v] EXCEPT !.cells = Saved(mem[s], stack_used[v])]
      BY <1>5, Zenon DEF backup_coro_stack
    <2>2. b = again
      BY <2>1, <1>1, Zenon
    <2>3. b.size = backup[v].size /\ b.cells = Saved(mem[s], stack_used[v])
      <3> HIDE DEF b
      <3> QED
        BY <2>2, RecordFacts, Zenon
    <2> QED
      BY <2>2, <2>3, <1>1, <1>3, <1>5, ZenonT(40)
  <1>6. CASE stack_used[v] # 0 /\ ~(backup[v].size >= stack_used[v])
    <2>1. b = grown
      BY <1>6, ZenonT(40) DEF backup_coro_stack
    <2>2. /\ Max2(Max2(2 * backup[v].size, 1), stack_used[v]) \in Nat
          /\ Max2(Max2(2 * backup[v].size, 1), stack_used[v]) >= stack_used[v]
      BY <1>1, SMTT(40) DEF Max2
    <2>3. b.size = Max2(Max2(2 * backup[v].size, 1), stack_used[v])
          /\ b.cells = Saved(mem[s], stack_used[v])
      <3> HIDE DEF b
      <3> QED
        BY <2>1, RecordFacts, Zenon
    <2> QED
      BY <2>1, <2>2, <2>3, <1>3, ZenonT(40)
  <1> QED
    BY <1>4, <1>5, <1>6, ZenonT(40)

\* switch_to_coro() of a cold coroutine c into slot s: c finds its frames
\* moved there, the evicted coroutine leaves its own in its backup.
LEMMA OccupyKeeps ==
    ASSUME SlotInv, DataTypes, restarted = {}, NEW c \in Coro, NEW s \in Slot,
           hot_slot_idx[c] = -1, own[c] = None, UNCHANGED <<own, depth, stack_used>>,
           \A e \in Coro : Kept(e) \/ state[e] = "DEAD", state[c] # "DEAD",
           \A e \in Coro : hot_slot_idx[e] >= 0 => own[e] = None /\ state[e] # "DEAD",
           Occupy(c, s, occupant[s], TRUE)
    PROVE  /\ DataTypes'
           /\ restarted' = {}
           /\ hot_slot_idx'[c] = s
           /\ \A e \in Coro : e # c => hot_slot_idx'[e] \in {hot_slot_idx[e], -1}
           /\ \A e \in Coro : state[e] # "DEAD" => Kept(e)'
  <1> DEFINE v == occupant[s]
             restore == stack_used[c] > 0 /\ backup[c].size > 0
  <1>0. SlotTypes /\ SlotsAgree /\ PoolTypes
    BY SlotInvView, ZenonT(40)
  <1>1. /\ depth[c] \in Nat /\ stack_used[c] \in Nat /\ backup[c].size \in Nat
        /\ depth[c] <= stack_used[c] /\ Kept(c)
    <2>1. Kept(c)
      BY Zenon
    <2>2. depth[c] <= stack_used[c]
      BY <2>1, Zenon DEF Kept
    <2>3. depth[c] \in 0..Depth /\ stack_used[c] \in 0..Depth /\ backup[c].size \in Nat
      BY ZenonT(40) DEF DataTypes
    <2> QED
      BY <2>1, <2>2, <2>3, PlaceFacts, SMTT(40)
  <1>2. v \in Coro \cup {None} /\ v # c /\ (v # None => hot_slot_idx[v] = s)
    BY <1>0, PlaceFacts, SMTT(40) DEF SlotTypes, SlotsAgree
  <1>3. \A e \in Coro : hot_slot_idx[e] = s => e = v
    BY <1>0, Zenon DEF SlotsAgree
  <1>4. /\ \A e \in Coro : backup'[e] = IF e = v THEN backup_coro_stack(v, s, TRUE) ELSE backup[e]
        /\ backup' = [e \in Coro |-> backup'[e]]
    <2>1. backup = [e \in Coro |-> backup[e]]
      BY Zenon DEF DataTypes
    <2>2. CASE v = None
      BY <2>1, <2>2, PlaceFacts, ZenonT(40) DEF Occupy
    <2>3. CASE v # None
      <3>1. backup' = [backup EXCEPT ![v] = backup_coro_stack(v, s, TRUE)]
        BY <2>3, Zenon DEF Occupy
      <3> HIDE DEF v
      <3> QED
        BY <3>1, <2>1, <2>3, Zenon
    <2> QED
      BY <2>2, <2>3, Zenon
  <1>5. mem' = IF restore THEN [mem EXCEPT ![s] = Restored(c, s)] ELSE mem
    BY Zenon DEF Occupy
  <1>6. /\ \A p \in Place : p # s => mem'[p] = mem[p]
        /\ mem'[s] = IF restore THEN Restored(c, s) ELSE mem[s]
        /\ mem' = [p \in Place |-> mem'[p]]
    BY <1>5, PlaceFacts, Zenon DEF DataTypes
  <1>7. \A e \in Coro : hot_slot_idx'[e] = IF e = c THEN s ELSE IF e = v THEN -1 ELSE hot_slot_idx[e]
    BY Zenon DEF Occupy
  <1>8. stack_top' = [stack_top EXCEPT ![c] = s]
    BY ZenonT(40) DEF Occupy
  <1>9. depth[c] > 0 => restore
    <2>1. depth[c] > 0 => backup[c].size >= stack_used[c]
      BY <1>1, Zenon DEF Kept
    <2>2. PICK d, u, z : d = depth[c] /\ u = stack_used[c] /\ z = backup[c].size
      BY Zenon
    <2>3. d \in Nat /\ u \in Nat /\ z \in Nat /\ d <= u /\ (d > 0 => z >= u)
      BY <1>1, <2>1, <2>2, ZenonT(40)
    <2>4. d > 0 => u > 0 /\ z > 0
      BY ONLY <2>3, SMTT(40)
    <2> QED
      BY <2>2, <2>4, Zenon
  <1>10. restarted' = {}
    BY <1>9, Zenon DEF Occupy
  <1>11. v # None => /\ own[v] = None /\ state[v] # "DEAD" /\ Kept(v)
    BY <1>2, PlaceFacts, Zenon
  <1> DEFINE b == backup_coro_stack(v, s, TRUE)
  <1>12. v # None => /\ b = [size |-> b.size, cells |-> b.cells]
                     /\ b.size \in Nat
                     /\ depth[v] > 0 => b.size >= stack_used[v]
                     /\ depth[v] > 0 => \A i \in 1..depth[v] : b.cells[i] = Frame(v, stack_top[v])
    BY <1>2, <1>11, BackupFacts, ZenonT(40)
  <1> HIDE DEF v, restore, b
  <1>13. DataTypes'
    <2>1. /\ depth' \in [Coro -> 0..Depth] /\ stack_used' \in [Coro -> 0..Depth]
          /\ stack_top' \in [Coro -> Slot \cup {None}]
      BY <1>8, Zenon DEF DataTypes
    <2>2. \A e \in Coro : /\ backup'[e] = [size |-> backup'[e].size, cells |-> backup'[e].cells]
                          /\ backup'[e].size \in Nat
      <3> TAKE e \in Coro
      <3>1. CASE e = v
        <4>1. backup'[e] = b /\ v # None
          BY <3>1, <1>4, PlaceFacts, Zenon DEF b
        <4> QED
          BY <4>1, <1>12, Zenon
      <3>2. CASE e # v
        <4>1. backup'[e] = backup[e]
          BY <3>2, <1>4, Zenon
        <4>2. backup[e] = [size |-> backup[e].size, cells |-> backup[e].cells]
              /\ backup[e].size \in Nat
          BY Zenon DEF DataTypes
        <4> QED
          BY <4>1, <4>2, Zenon
      <3> QED
        BY <3>1, <3>2, ZenonT(40)
    <2>3. backup' = [e \in Coro |-> [size |-> backup'[e].size, cells |-> backup'[e].cells]]
      BY <2>2, <1>4, Zenon
    <2> QED
      BY <2>1, <2>2, <2>3, <1>6, ZenonT(40) DEF DataTypes
  <1>14. Kept(c)'
    <2>1. own'[c] = None /\ depth'[c] = depth[c] /\ stack_used'[c] = stack_used[c]
          /\ hot_slot_idx'[c] = s /\ stack_top'[c] = s /\ s # -1
      BY <1>7, <1>8, PlaceFacts, SMTT(40) DEF DataTypes
    <2>2. ASSUME NEW i \in 1..depth[c]
          PROVE  mem'[s][i] = Frame(c, s)
      <3>1. depth[c] > 0 /\ i \in Cell /\ i <= stack_used[c] /\ ~(i > stack_used[c])
        <4>1. i \in Cell /\ i <= depth[c]
          BY CellFacts, Zenon DEF DataTypes
        <4> QED
          BY <4>1, <1>1, SMTT(40) DEF Cell
      <3>2. backup[c].cells[i] = Frame(c, stack_top[c])
        BY <3>1, Zenon DEF Kept
      <3>3. mem'[s][i] = Restored(c, s)[i]
        BY <3>1, <1>6, <1>9, ZenonT(40)
      <3> QED
        BY <3>1, <3>2, <3>3, FrameFacts, SMTT(40) DEF Restored
    <2> QED
      BY <2>1, <2>2, <1>1, ZenonT(40) DEF Kept
  <1>15. ASSUME NEW e \in Coro, e # c, e # v, state[e] # "DEAD"
         PROVE  Kept(e)'
    <2>1. /\ hot_slot_idx'[e] = hot_slot_idx[e] /\ backup'[e] = backup[e]
          /\ stack_top'[e] = stack_top[e] /\ hot_slot_idx[e] # s
      BY <1>3, <1>4, <1>7, <1>8, <1>15, ZenonT(40) DEF DataTypes
    <2>2. own[e] # None => mem'[own[e]] = mem[own[e]]
      BY <1>0, <1>6, PlaceFacts, SMTT(40) DEF PoolTypes
    <2>3. hot_slot_idx[e] >= 0 => mem'[hot_slot_idx[e]] = mem[hot_slot_idx[e]]
      BY <2>1, <1>0, <1>6, PlaceFacts, SMTT(40) DEF SlotTypes
    <2>4. Kept(e)
      BY <1>15, Zenon
    <2> QED
      BY <2>1, <2>2, <2>3, <2>4, KeptFrame, ZenonT(40)
  <1>16. ASSUME NEW e \in Coro, e = v
         PROVE  Kept(e)'
    <2>0. v # None
      BY <1>16, PlaceFacts, Zenon
    <2>1. /\ hot_slot_idx'[e] = -1 /\ stack_top'[e] = stack_top[e] /\ backup'[e] = b
          /\ own'[e] = None /\ depth'[e] = depth[e] /\ stack_used'[e] = stack_used[e]
      BY <2>0, <1>2, <1>4, <1>7, <1>8, <1>11, <1>16, ZenonT(40) DEF DataTypes, b
    <2>2. depth[e] <= stack_used[e] /\ ~(-1 >= 0)
      <3>1. ~(-1 >= 0)
        BY ONLY TRUE
      <3> QED
        BY <2>0, <1>11, <1>16, <3>1, ZenonT(40) DEF Kept
    <2>3. /\ depth[e] > 0 => b.size >= stack_used[e]
          /\ depth[e] > 0 => \A i \in 1..depth[e] : b.cells[i] = Frame(e, stack_top[e])
      BY <2>0, <1>12, <1>16, Zenon
    <2> QED
      BY <2>1, <2>2, <2>3, ZenonT(40) DEF Kept
  <1>17. /\ hot_slot_idx'[c] = s
         /\ \A e \in Coro : e # c => hot_slot_idx'[e] \in {hot_slot_idx[e], -1}
    BY <1>7, ZenonT(40)
  <1> QED
    BY <1>10, <1>13, <1>14, <1>15, <1>16, <1>17, ZenonT(40)

\* Frames of another coroutine are not forgotten.
LEMMA ForgetFacts ==
    ASSUME NEW c, NEW e, e # c, NEW p, NEW cells, NEW i \in Cell, cells[i] = Frame(e, p)
    PROVE  Forget(cells, c)[i] = cells[i]
  BY FrameFacts, SMTT(40) DEF Forget

\* A coroutine that stops at depth d has its frames where it runs, and
\* disturbs nobody else's.
LEMMA YieldKeeps ==
    ASSUME SlotInv, DataInv, NEW d \in Cell, NEW to \in {"READY", "WAITING"}, coco_yield(d, to)
    PROVE  DataTypes' /\ \A e \in Coro : state[e] # "DEAD" => Kept(e)'
  <1> DEFINE c == current
             here == IF own[c] = None THEN hot_slot_idx[c] ELSE own[c]
  <1>0. SlotTypes /\ SlotsAgree /\ PoolTypes /\ RestTypes /\ DataTypes
    BY SlotInvView, Zenon DEF DataInv
  <1>1. c \in Coro /\ state[c] = "RUNNING" /\ Kept(c)
    BY <1>0, ZenonT(40) DEF coco_yield, RestTypes, DataInv, Placed
  <1>2. /\ own[c] = None => hot_slot_idx[c] >= 0
        /\ hot_slot_idx[c] >= 0 => own[c] = None /\ hot_slot_idx[c] \in Slot
        /\ own[c] # None => own[c] \in Stack
        /\ here \in Place
    BY <1>0, <1>1, PlaceFacts, SMTT(40) DEF DataInv, Placed, PoolTypes, SlotTypes, Place
  <1>3. d \in Nat /\ d \in 0..Depth /\ Depth \in Nat
    BY PlaceFacts, SMTT(40) DEF Cell
  <1>4. mem' = [p \in Place |->
                  IF p # here THEN Forget(mem[p], c)
                  ELSE [i \in Cell |-> IF i <= d THEN Frame(c, p) ELSE Forget(mem[p], c)[i]]]
    BY Zenon DEF coco_yield, Rewrite
  <1>5. backup' = [backup EXCEPT ![c].cells = Forget(@, c)]
    BY Zenon DEF coco_yield, Rewrite
  <1>6. depth' = [depth EXCEPT ![c] = d]
    BY Zenon DEF coco_yield, Rewrite
  <1>7. stack_used' = IF own[c] # None THEN stack_used
                      ELSE [stack_used EXCEPT ![c] = Max2(stack_used[c], d)]
    BY Zenon DEF coco_yield, Used
  <1>8. UNCHANGED <<own, hot_slot_idx, stack_top>>
    BY Zenon DEF coco_yield, poolVars, slotVars
  <1> HIDE DEF c, here
  <1>9. Max2(stack_used[c], d) \in 0..Depth /\ Max2(stack_used[c], d) >= d
    <2>1. stack_used[c] \in 0..Depth
      BY <1>0, <1>1, ZenonT(40) DEF DataTypes
    <2> QED
      BY <2>1, <1>3, SMTT(40) DEF Max2
  <1>10. /\ \A e \in Coro : e # c => backup'[e] = backup[e]
         /\ backup'[c] = [size |-> backup[c].size, cells |-> Forget(backup[c].cells, c)]
         /\ backup' = [e \in Coro |-> backup'[e]]
    BY <1>0, <1>1, <1>5, SMTT(40) DEF DataTypes
  <1>11. DataTypes'
    <2>1. depth' \in [Coro -> 0..Depth]
      BY <1>0, <1>1, <1>3, <1>6, ZenonT(40) DEF DataTypes
    <2>2. stack_used' \in [Coro -> 0..Depth]
      BY <1>0, <1>1, <1>7, <1>9, ZenonT(40) DEF DataTypes
    <2>3. \A e \in Coro : /\ backup'[e] = [size |-> backup'[e].size, cells |-> backup'[e].cells]
                          /\ backup'[e].size \in Nat
      <3> TAKE e \in Coro
      <3>1. /\ backup[e] = [size |-> backup[e].size, cells |-> backup[e].cells]
            /\ backup[e].size \in Nat
        BY <1>0, Zenon DEF DataTypes
      <3> QED
        BY <3>1, <1>10, RecordFacts, SMTT(40)
    <2>4. backup' = [e \in Coro |-> [size |-> backup'[e].size, cells |-> backup'[e].cells]]
      BY <2>3, <1>10, ZenonT(40)
    <2>5. mem' = [p \in Place |-> mem'[p]] /\ stack_top' \in [Coro -> Slot \cup {None}]
      BY <1>0, <1>4, <1>8, Zenon DEF DataTypes
    <2> QED
      BY <2>1, <2>2, <2>3, <2>4, <2>5, ZenonT(40) DEF DataTypes
  <1>12. \A i \in 1..d : mem'[here][i] = Frame(c, here)
    <2> TAKE i \in 1..d
    <2>1. i \in Cell /\ i <= d
      BY <1>3, CellFacts, Zenon
    <2> QED
      BY <2>1, <1>2, <1>4, ZenonT(40)
  <1>13. \A e \in Coro : e = c => Kept(e)'
    <2> SUFFICES ASSUME NEW e \in Coro, e = c
                 PROVE  Kept(e)'
      BY Zenon
    <2>1. depth'[e] = d
      BY <1>0, <1>6, Zenon DEF DataTypes
    <2>2. CASE own[e] = None
      <3>1. here = hot_slot_idx[e] /\ hot_slot_idx[e] >= 0 /\ hot_slot_idx[e] # -1
        BY <2>2, <1>2, PlaceFacts, SMTT(40) DEF here
      <3>2. stack_top[e] = hot_slot_idx[e]
        BY <3>1, <1>1, Zenon DEF Kept
      <3>3. depth'[e] <= stack_used'[e]
        BY <2>1, <2>2, <1>0, <1>3, <1>7, <1>9, ZenonT(40) DEF DataTypes
      <3> QED
        BY <3>1, <3>2, <3>3, <2>1, <2>2, <1>8, <1>12, ZenonT(40) DEF Kept
    <2>3. CASE own[e] # None
      <3>1. here = own[e] /\ ~(hot_slot_idx[e] >= 0)
        BY <2>3, <1>2, Zenon DEF here
      <3> QED
        BY <3>1, <2>1, <2>3, <1>8, <1>12, ZenonT(40) DEF Kept
    <2> QED
      BY <2>2, <2>3, Zenon
  <1>14. ASSUME NEW e \in Coro, e # c, state[e] # "DEAD"
         PROVE  Kept(e)'
    <2>1. Kept(e) /\ depth[e] \in 0..Depth
      BY <1>14, <1>0, Zenon DEF DataInv, DataTypes
    <2>2. depth'[e] = depth[e] /\ stack_used'[e] = stack_used[e] /\ backup'[e] = backup[e]
      BY <1>14, <1>0, <1>6, <1>7, <1>10, ZenonT(40) DEF DataTypes
    <2>3. /\ own[e] # None => own[e] \in Stack /\ own[e] # here /\ own[e] \in Place
          /\ hot_slot_idx[e] >= 0 => hot_slot_idx[e] # here /\ hot_slot_idx[e] \in Place
      BY <1>1, <1>2, <1>14, Apart, PlaceFacts, ZenonT(40) DEF here
    <2>4. ASSUME NEW p \in Place, p # here, NEW i \in 1..depth[e], mem[p][i] = Frame(e, p)
          PROVE  mem'[p][i] = mem[p][i]
      <3>1. i \in Cell
        BY <2>1, CellFacts, Zenon
      <3>2. mem'[p] = Forget(mem[p], c)
        BY <2>4, <1>4, Zenon
      <3> QED
        BY <3>1, <3>2, <2>4, <1>14, ForgetFacts, SMTT(40)
    <2> QED
      BY <2>1, <2>2, <2>3, <2>4, <1>8, KeptFrame, ZenonT(40)
  <1> QED
    BY <1>11, <1>13, <1>14, ZenonT(40)

\* coco_exit() forgets the frames of the coroutine that ends, nobody else's.
LEMMA ExitKeeps ==
    ASSUME SlotInv, DataInv, coco_exit
    PROVE  DataTypes' /\ \A e \in Coro : e # current /\ state[e] # "DEAD" => Kept(e)'
  <1> DEFINE c == current
  <1>0. SlotTypes /\ SlotsAgree /\ PoolTypes /\ RestTypes /\ DataTypes /\ c \in Coro
    BY SlotInvView, Zenon DEF DataInv, coco_exit, RestTypes
  <1>1. /\ mem' = [p \in Place |-> Forget(mem[p], c)]
        /\ backup' = [backup EXCEPT ![c] = [size |-> 0, cells |-> NoCells]]
        /\ UNCHANGED <<own, stack_used, stack_top, depth>>
    BY Zenon DEF coco_exit, poolVars
  <1>2. \A e \in Coro : e # c => hot_slot_idx'[e] = hot_slot_idx[e]
    BY <1>0, Zenon DEF coco_exit, LeaveSlot, SlotTypes, slotVars
  <1> HIDE DEF c
  <1>3. /\ \A e \in Coro : e # c => backup'[e] = backup[e]
        /\ backup'[c] = [size |-> 0, cells |-> NoCells]
        /\ backup' = [e \in Coro |-> backup'[e]]
    BY <1>0, <1>1, Zenon DEF DataTypes
  <1>4. DataTypes'
    <2>1. \A e \in Coro : /\ backup'[e] = [size |-> backup'[e].size, cells |-> backup'[e].cells]
                          /\ backup'[e].size \in Nat
      <3> TAKE e \in Coro
      <3>1. /\ backup[e] = [size |-> backup[e].size, cells |-> backup[e].cells]
            /\ backup[e].size \in Nat
        BY <1>0, Zenon DEF DataTypes
      <3> QED
        BY <3>1, <1>3, RecordFacts, SMTT(40)
    <2>2. backup' = [e \in Coro |-> [size |-> backup'[e].size, cells |-> backup'[e].cells]]
      BY <2>1, <1>3, Zenon
    <2>3. mem' = [p \in Place |-> mem'[p]]
      BY <1>1, ZenonT(40)
    <2> QED
      BY <2>1, <2>2, <2>3, <1>0, <1>1, ZenonT(40) DEF DataTypes
  <1>5. ASSUME NEW e \in Coro, e # c, state[e] # "DEAD"
        PROVE  Kept(e)'
    <2>1. Kept(e) /\ depth[e] \in 0..Depth
      BY <1>5, <1>0, Zenon DEF DataInv, DataTypes
    <2>2. /\ own[e] # None => own[e] \in Place
          /\ hot_slot_idx[e] >= 0 => hot_slot_idx[e] \in Place
      BY <1>0, <1>5, Apart, PlaceFacts, ZenonT(40)
    <2>3. ASSUME NEW p \in Place, NEW i \in 1..depth[e], mem[p][i] = Frame(e, p)
          PROVE  mem'[p][i] = mem[p][i]
      <3>1. i \in Cell
        BY <2>1, CellFacts, Zenon
      <3>2. mem'[p] = Forget(mem[p], c)
        BY <1>1, Zenon
      <3> QED
        BY <3>1, <3>2, <2>3, <1>5, ForgetFacts, SMTT(40)
    <2> QED
      BY <2>1, <2>2, <2>3, <1>1, <1>2, <1>3, <1>5, KeptFrame, SMTT(40)
  <1> QED
    BY <1>4, <1>5, Zenon DEF c

\* coro_migrate_prepare() leaves the frames of c in its backup.
LEMMA MigrateKeeps ==
    ASSUME SlotInv, DataInv, Realloc = {TRUE}, NEW c \in Coro, coro_migrate_prepare(c)
    PROVE  DataTypes' /\ \A e \in Coro : state[e] # "DEAD" => Kept(e)'
  <1> DEFINE b == backup_coro_stack(c, hot_slot_idx[c], TRUE)
  <1>0. SlotTypes /\ DataTypes /\ Placed
    BY SlotInvView, ZenonT(40) DEF DataInv
  <1>1. /\ hot_slot_idx[c] \in Slot /\ hot_slot_idx[c] >= 0 /\ own[c] = None /\ Kept(c)
    BY <1>0, PlaceFacts, SMTT(40) DEF coro_migrate_prepare, SlotTypes, Placed, DataInv
  <1>2. /\ backup' = [backup EXCEPT ![c] = b]
        /\ hot_slot_idx' = [hot_slot_idx EXCEPT ![c] = -1]
        /\ UNCHANGED <<own, mem, stack_used, stack_top, depth>>
    BY Zenon DEF coro_migrate_prepare, LeaveSlot, poolVars
  <1>3. /\ b = [size |-> b.size, cells |-> b.cells]
        /\ b.size \in Nat
        /\ depth[c] > 0 => b.size >= stack_used[c]
        /\ depth[c] > 0 => \A i \in 1..depth[c] : b.cells[i] = Frame(c, stack_top[c])
    BY <1>0, <1>1, BackupFacts, ZenonT(40)
  <1> HIDE DEF b
  <1>4. /\ \A e \in Coro : e # c => backup'[e] = backup[e] /\ hot_slot_idx'[e] = hot_slot_idx[e]
        /\ backup'[c] = b /\ hot_slot_idx'[c] = -1
        /\ backup' = [e \in Coro |-> backup'[e]]
    BY <1>0, <1>2, Zenon DEF DataTypes, SlotTypes
  <1>5. DataTypes'
    <2>1. \A e \in Coro : /\ backup'[e] = [size |-> backup'[e].size, cells |-> backup'[e].cells]
                          /\ backup'[e].size \in Nat
      <3> TAKE e \in Coro
      <3>1. /\ backup[e] = [size |-> backup[e].size, cells |-> backup[e].cells]
            /\ backup[e].size \in Nat
        BY <1>0, Zenon DEF DataTypes
      <3> QED
        BY <3>1, <1>3, <1>4, ZenonT(40)
    <2>2. backup' = [e \in Coro |-> [size |-> backup'[e].size, cells |-> backup'[e].cells]]
      BY <2>1, <1>4, ZenonT(40)
    <2> QED
      BY <2>1, <2>2, <1>0, <1>2, ZenonT(40) DEF DataTypes
  <1>6. Kept(c)'
    <2>1. depth[c] <= stack_used[c]
      BY <1>1, Zenon DEF Kept
    <2>2. ~(-1 >= 0)
      BY ONLY TRUE
    <2>3. /\ own'[c] = None /\ hot_slot_idx'[c] = -1 /\ backup'[c] = b /\ depth'[c] = depth[c]
          /\ stack_used'[c] = stack_used[c] /\ stack_top'[c] = stack_top[c]
      BY <1>1, <1>2, <1>4, Zenon
    <2> QED
      BY <2>1, <2>2, <2>3, <1>3, ZenonT(40) DEF Kept
  <1>7. ASSUME NEW e \in Coro, e # c, state[e] # "DEAD"
        PROVE  Kept(e)'
    BY <1>2, <1>4, <1>7, KeptFrame, ZenonT(40) DEF DataInv
  <1> QED
    BY <1>5, <1>6, <1>7, Zenon

-----------------------------------------------------------------------------
(* The invariant.                                                          *)

\* Coroutines that do not exist yet have left nothing.
Fresh == \A c \in Coro : state[c] = "NONE" => depth[c] = 0 /\ stack_used[c] = 0

\* The frames are intact at the start.
LEMMA InitDataInv == Init => DataInv
  <1> SUFFICES ASSUME Init PROVE DataInv
    BY Zenon
  <1>1. DataTypes
    BY PlaceFacts, SMTT(40) DEF Init, DataTypes
  <1>2. Placed
    BY PlaceFacts, SMTT(40) DEF Init, Placed
  <1>3. \A c \in Coro : Kept(c)
    BY SMTT(40) DEF Init, Kept
  <1> QED
    BY <1>1, <1>2, <1>3, ZenonT(40) DEF Init, DataInv

\* Every step preserves the invariant, if realloc() does not fail.
LEMMA NextDataInv ==
    ASSUME Realloc = {TRUE}, SlotInv, DataInv, [Next]_vars
    PROVE  DataInv'
  <1> DEFINE AllKept == \A e \in Coro : state[e] # "DEAD" => Kept(e)
  <1>0. /\ SlotTypes /\ SlotsAgree /\ PoolTypes /\ RestTypes /\ FreshHasNone
        /\ DataTypes /\ Placed /\ restarted = {} /\ Fresh /\ AllKept
    BY SlotInvView, Zenon DEF DataInv, Fresh
  <1> SUFFICES DataTypes' /\ Placed' /\ restarted' = {} /\ Fresh' /\ AllKept'
    BY ZenonT(40) DEF DataInv, Fresh
  <1>1. ASSUME NEW c \in Coro,
               coco_create_hot(c) \/ \E large \in BOOLEAN : coco_create_exclusive(c, large)
        PROVE  DataTypes' /\ Placed' /\ restarted' = {} /\ Fresh' /\ AllKept'
    <2>1. /\ state[c] = "NONE" /\ state' = [state EXCEPT ![c] = "READY"]
          /\ UNCHANGED dataVars /\ UNCHANGED hot_slot_idx /\ UNCHANGED current
      BY <1>1, Zenon DEF coco_create_hot, coco_create_exclusive, slotVars
    <2>2. \A e \in Coro : e # c => own'[e] = own[e]
      BY <1>0, <1>1, Zenon DEF coco_create_hot, coco_create_exclusive, stack_pool_alloc, poolVars,
         PoolTypes
    <2>3. /\ \A e \in Coro : e # c => state'[e] = state[e]
          /\ state'[c] = "READY"
      BY <2>1, <1>0, Zenon DEF RestTypes
    <2>4. own[c] = None /\ hot_slot_idx[c] = -1 /\ depth[c] = 0 /\ stack_used[c] = 0
      <3>1. hot_slot_idx[c] \in Slot \cup {-1} /\ ~(hot_slot_idx[c] >= 0)
        BY <2>1, <1>0, ZenonT(40) DEF Placed, SlotTypes
      <3> QED
        BY <3>1, <2>1, <1>0, PlaceFacts, ZenonT(40) DEF FreshHasNone, Fresh
    <2>5. Placed'
      <3>1. ~(-1 >= 0)
        OBVIOUS
      <3> QED
        BY <3>1, <2>1, <2>2, <2>3, <2>4, <1>0, SMTT(40) DEF Placed
    <2>6. Kept(c)'
      <3>1. /\ hot_slot_idx'[c] = -1 /\ depth'[c] = 0 /\ stack_used'[c] = 0
            /\ 1..0 = {} /\ ~(-1 >= 0) /\ 0 <= 0 /\ ~(0 > 0)
        BY <2>1, <2>4, SMTT(40) DEF dataVars
      <3> QED
        BY <3>1, ZenonT(40) DEF Kept
    <2>7. AllKept'
      BY <2>1, <2>2, <2>3, <2>6, <1>0, KeptSame, ZenonT(40)
    <2> QED
      BY <2>1, <2>3, <2>5, <2>7, <1>0, TypesSame, SMTT(40) DEF Fresh, dataVars
  <1>2. ASSUME UNCHANGED dataVars, UNCHANGED <<own, hot_slot_idx>>,
               NEW c \in Coro, state[c] \notin {"NONE", "DEAD"},
               \/ UNCHANGED <<state, current>>
               \/ /\ state[c] = "READY" /\ state' = [state EXCEPT ![c] = "RUNNING"]
                  /\ current = None /\ current' = c /\ (own[c] # None \/ hot_slot_idx[c] >= 0)
               \/ /\ state[c] = "WAITING" /\ state' = [state EXCEPT ![c] = "READY"]
                  /\ UNCHANGED current
        PROVE  DataTypes' /\ Placed' /\ restarted' = {} /\ Fresh' /\ AllKept'
    <2>1. \A e \in Coro : (state'[e] = "DEAD" <=> state[e] = "DEAD")
                          /\ (state'[e] = "NONE" <=> state[e] = "NONE")
      BY <1>0, <1>2, ZenonT(40) DEF RestTypes
    <2>2. Placed'
      BY <1>0, <1>2, PlaceFacts, SMTT(40) DEF Placed, RestTypes
    <2>3. AllKept'
      BY <2>1, <1>0, <1>2, KeptSame, ZenonT(40)
    <2> QED
      BY <2>1, <2>2, <2>3, <1>0, <1>2, TypesSame, ZenonT(40) DEF Fresh, dataVars
  <1>3. ASSUME NEW c \in Ranked, coco_set_priority(c)
        PROVE  DataTypes' /\ Placed' /\ restarted' = {} /\ Fresh' /\ AllKept'
    <2>1. /\ c \in Coro /\ state[c] \notin {"NONE", "DEAD"}
          /\ UNCHANGED dataVars /\ UNCHANGED <<own, hot_slot_idx>> /\ UNCHANGED <<state, current>>
      BY <1>3, StacksAssumption, Zenon DEF coco_set_priority, poolVars, slotVars
    <2> QED
      BY <2>1, <1>2, Zenon
  <1>4. ASSUME NEW c \in Coro, switch_to_exclusive(c) \/ switch_to_hot(c)
        PROVE  DataTypes' /\ Placed' /\ restarted' = {} /\ Fresh' /\ AllKept'
    <2>1. /\ state[c] = "READY" /\ state' = [state EXCEPT ![c] = "RUNNING"]
          /\ current = None /\ current' = c /\ (own[c] # None \/ hot_slot_idx[c] >= 0)
          /\ UNCHANGED dataVars /\ UNCHANGED <<own, hot_slot_idx>>
      BY <1>4, Zenon DEF switch_to_exclusive, switch_to_hot, poolVars, slotVars
    <2> QED
      BY <2>1, <1>2, Zenon
  <1>5. ASSUME NEW c \in Coro, enqueue_ready(c)
        PROVE  DataTypes' /\ Placed' /\ restarted' = {} /\ Fresh' /\ AllKept'
    <2>1. /\ state[c] = "WAITING" /\ state' = [state EXCEPT ![c] = "READY"] /\ UNCHANGED current
          /\ UNCHANGED dataVars /\ UNCHANGED <<own, hot_slot_idx>>
      BY <1>5, Zenon DEF enqueue_ready, poolVars, slotVars
    <2> QED
      BY <2>1, <1>2, Zenon
  <1>6. ASSUME UNCHANGED <<state, current, own, hot_slot_idx>>, UNCHANGED dataVars
        PROVE  DataTypes' /\ Placed' /\ restarted' = {} /\ Fresh' /\ AllKept'
    <2>1. AllKept'
      BY <1>0, <1>6, KeptSame, Zenon
    <2>2. Placed' /\ Fresh' /\ restarted' = {}
      BY <1>0, <1>6, Zenon DEF Placed, Fresh, dataVars
    <2> QED
      BY <2>1, <2>2, <1>0, <1>6, TypesSame, ZenonT(40)
  <1>7. ASSUME NEW c \in Coro, switch_to_cold(c)
        PROVE  DataTypes' /\ Placed' /\ restarted' = {} /\ Fresh' /\ AllKept'
    <2> DEFINE s == AcquiredSlot(c)
    <2>1. CASE s = -1
      <3>1. UNCHANGED <<state, current, own, hot_slot_idx>> /\ UNCHANGED dataVars
        BY <2>1, <1>7, ZenonT(40) DEF switch_to_cold, poolVars, slotVars
      <3> QED
        BY <3>1, <1>6, ZenonT(40)
    <2>2. CASE s # -1
      <3>1. s \in Slot
        BY <2>2, <1>0, AcquiredFacts, ZenonT(40)
      <3>2. Occupy(c, s, occupant[s], TRUE)
        BY <2>2, <1>7, ZenonT(40) DEF switch_to_cold
      <3>3. /\ state[c] = "READY" /\ own[c] = None /\ hot_slot_idx[c] = -1 /\ current = None
            /\ state' = [state EXCEPT ![c] = "RUNNING"] /\ current' = c
            /\ UNCHANGED <<own, depth, stack_used>>
        BY <2>2, <1>7, ZenonT(40) DEF switch_to_cold, poolVars
      <3> HIDE DEF s
      <3>4. \A e \in Coro : hot_slot_idx[e] >= 0 => own[e] = None /\ state[e] # "DEAD"
        BY <1>0, Zenon DEF Placed
      <3>5. /\ DataTypes' /\ restarted' = {} /\ hot_slot_idx'[c] = s
            /\ \A e \in Coro : e # c => hot_slot_idx'[e] \in {hot_slot_idx[e], -1}
            /\ \A e \in Coro : state[e] # "DEAD" => Kept(e)'
        BY <1>0, <3>1, <3>2, <3>3, <3>4, OccupyKeeps, ZenonT(40)
      <3>6. /\ \A e \in Coro : e # c => state'[e] = state[e]
            /\ state'[c] = "RUNNING"
        BY <3>3, <1>0, Zenon DEF RestTypes
      <3>7. \A e \in Coro : e # c => state[e] # "RUNNING" /\ current' # e
        BY <3>3, <1>0, PlaceFacts, ZenonT(40) DEF Placed
      <3>8. s >= 0 /\ ~(-1 >= 0)
        BY <3>1, PlaceFacts, SMTT(40)
      <3>9. Placed'
        BY <3>3, <3>5, <3>6, <3>7, <3>8, <1>0, ZenonT(40) DEF Placed
      <3>10. Fresh'
        BY <3>3, <3>6, <1>0, ZenonT(40) DEF Fresh
      <3>11. AllKept'
        BY <3>3, <3>5, <3>6, ZenonT(40)
      <3> QED
        BY <3>5, <3>9, <3>10, <3>11, ZenonT(40)
    <2> QED
      BY <2>1, <2>2, Zenon
  <1>8. ASSUME NEW d \in Cell, NEW to \in {"READY", "WAITING"}, coco_yield(d, to)
        PROVE  DataTypes' /\ Placed' /\ restarted' = {} /\ Fresh' /\ AllKept'
    <2>1. DataTypes' /\ \A e \in Coro : state[e] # "DEAD" => Kept(e)'
      BY <1>8, YieldKeeps, Zenon
    <2>2. /\ current \in Coro /\ state[current] = "RUNNING" /\ current' = None
          /\ state' = [state EXCEPT ![current] = to]
          /\ UNCHANGED <<own, hot_slot_idx, restarted>>
      BY <1>8, <1>0, Zenon DEF coco_yield, RestTypes, Placed, poolVars, slotVars
    <2>3. /\ \A e \in Coro : e # current => /\ state'[e] = state[e]
                                            /\ depth'[e] = depth[e]
                                            /\ stack_used'[e] = stack_used[e]
          /\ state'[current] = to
      BY <2>2, <1>8, <1>0, ZenonT(40) DEF coco_yield, Rewrite, RestTypes, DataTypes
    <2>4. Placed'
      BY <2>2, <2>3, <1>0, PlaceFacts, ZenonT(40) DEF Placed
    <2>5. Fresh' /\ AllKept'
      BY <2>1, <2>2, <2>3, <1>0, ZenonT(40) DEF Fresh
    <2> QED
      BY <2>1, <2>2, <2>4, <2>5, <1>0, ZenonT(40)
  <1>9. ASSUME coco_exit
        PROVE  DataTypes' /\ Placed' /\ restarted' = {} /\ Fresh' /\ AllKept'
    <2>1. DataTypes' /\ \A e \in Coro : e # current /\ state[e] # "DEAD" => Kept(e)'
      BY <1>9, ExitKeeps, ZenonT(40)
    <2>2. /\ current \in Coro /\ state[current] = "RUNNING" /\ current' = None
          /\ state' = [state EXCEPT ![current] = "DEAD"]
          /\ UNCHANGED <<own, depth, stack_used, restarted>>
      BY <1>9, <1>0, Zenon DEF coco_exit, RestTypes, Placed, poolVars
    <2>3. /\ \A e \in Coro : e # current => state'[e] = state[e]
          /\ state'[current] = "DEAD"
      BY <2>2, <1>0, ZenonT(40) DEF RestTypes
    <2>4. /\ \A e \in Coro : e # current => hot_slot_idx'[e] = hot_slot_idx[e]
          /\ ~(hot_slot_idx'[current] >= 0)
      <3>1. CASE hot_slot_idx[current] >= 0
        <4>1. hot_slot_idx' = [hot_slot_idx EXCEPT ![current] = -1]
          BY <3>1, <1>9, Zenon DEF coco_exit, LeaveSlot
        <4> QED
          BY <4>1, <2>2, <1>0, SMTT(40) DEF SlotTypes
      <3>2. CASE ~(hot_slot_idx[current] >= 0)
        BY <3>2, <1>9, ZenonT(40) DEF coco_exit, slotVars
      <3> QED
        BY <3>1, <3>2, ZenonT(40)
    <2>5. Placed'
      BY <2>2, <2>3, <2>4, <1>0, PlaceFacts, SMTT(40) DEF Placed
    <2>6. Fresh' /\ AllKept'
      BY <2>1, <2>2, <2>3, <1>0, ZenonT(40) DEF Fresh
    <2> QED
      BY <2>1, <2>2, <2>5, <2>6, <1>0, ZenonT(40)
  <1>10. ASSUME NEW c \in Coro, coro_migrate_prepare(c)
        PROVE  DataTypes' /\ Placed' /\ restarted' = {} /\ Fresh' /\ AllKept'
    <2>1. DataTypes' /\ \A e \in Coro : state[e] # "DEAD" => Kept(e)'
      BY <1>10, MigrateKeeps, ZenonT(40)
    <2>2. /\ state[c] = "READY" /\ hot_slot_idx' = [hot_slot_idx EXCEPT ![c] = -1]
          /\ UNCHANGED <<state, own, current, depth, stack_used, restarted>>
      BY <1>10, ZenonT(40) DEF coro_migrate_prepare, LeaveSlot, poolVars
    <2>3. /\ \A e \in Coro : e # c => hot_slot_idx'[e] = hot_slot_idx[e]
          /\ hot_slot_idx'[c] = -1 /\ ~(-1 >= 0)
      BY <2>2, <1>0, SMTT(40) DEF SlotTypes
    <2>4. Placed'
      BY <2>2, <2>3, <1>0, SMTT(40) DEF Placed
    <2>5. Fresh' /\ AllKept' /\ restarted' = {}
      BY <2>1, <2>2, <1>0, ZenonT(40) DEF Fresh
    <2> QED
      BY <2>1, <2>4, <2>5, ZenonT(40)
  <1>11. ASSUME NEW c \in Coro, coco_destroy(c)
        PROVE  DataTypes' /\ Placed' /\ restarted' = {} /\ Fresh' /\ AllKept'
    <2>1. /\ state[c] = "DEAD" /\ state' = [state EXCEPT ![c] = "NONE"]
          /\ stack_used' = [stack_used EXCEPT ![c] = 0]
          /\ stack_top' = [stack_top EXCEPT ![c] = None]
          /\ depth' = [depth EXCEPT ![c] = 0]
          /\ restarted' = {}
          /\ UNCHANGED <<hot_slot_idx, backup, mem, current>>
      BY <1>11, <1>0, Zenon DEF coco_destroy, slotVars
    <2>2. /\ \A e \in Coro : e # c => own'[e] = own[e]
          /\ own'[c] = None
      BY <1>11, <1>0, ZenonT(40) DEF coco_destroy, stack_pool_free, PoolTypes
    <2>3. /\ \A e \in Coro : e # c => /\ state'[e] = state[e] /\ depth'[e] = depth[e]
                                      /\ stack_used'[e] = stack_used[e]
                                      /\ stack_top'[e] = stack_top[e]
          /\ state'[c] = "NONE" /\ depth'[c] = 0 /\ stack_used'[c] = 0
      BY <2>1, <1>0, ZenonT(40) DEF RestTypes, DataTypes
    <2>4. DataTypes'
      <3>1. 0 \in 0..Depth
        BY PlaceFacts, SMTT(40)
      <3> QED
        BY <3>1, <2>1, <1>0, ZenonT(40) DEF DataTypes
    <2>5. ~(hot_slot_idx[c] >= 0)
      BY <2>1, <1>0, ZenonT(40) DEF Placed
    <2>6. Placed'
      BY <2>1, <2>2, <2>3, <2>5, <1>0, ZenonT(40) DEF Placed
    <2>7. Kept(c)'
      <3>1. 1..0 = {} /\ 0 <= 0 /\ ~(0 > 0)
        OBVIOUS
      <3> QED
        BY <3>1, <2>1, <2>2, <2>3, <2>5, Zenon DEF Kept
    <2>8. ASSUME NEW e \in Coro, e # c, state'[e] # "DEAD"
          PROVE  Kept(e)'
      BY <2>1, <2>2, <2>3, <2>8, <1>0, KeptFrame, Zenon
    <2>9. Fresh' /\ AllKept'
      BY <2>3, <2>7, <2>8, <1>0, Zenon DEF Fresh
    <2> QED
      BY <2>1, <2>4, <2>6, <2>9, ZenonT(40)
  <1>12. CASE UNCHANGED vars
    BY <1>6, <1>12, ZenonT(40) DEF vars, poolVars, slotVars
  <1> QED
    BY <1>1, <1>3, <1>4, <1>5, <1>7, <1>8, <1>9, <1>10, <1>11, <1>12, SMTT(40) DEF Next

-----------------------------------------------------------------------------

\* A coroutine that is resumed finds exactly the frames it left, for any
\* number of coroutines, slots and stacks and any depth, through every
\* eviction, restoration, migration and reuse of a pool stack, as long as
\* realloc() in backup_coro_stack() does not fail.
THEOREM StacksIntact ==
    ASSUME Realloc = {TRUE}
    PROVE  Spec => []StackIntact
  <1>1. Init => DataInv
    BY InitDataInv, Zenon
  <1>2. SlotInv /\ DataInv /\ [Next]_vars => DataInv'
    BY NextDataInv, Zenon
  <1>3. SlotInv /\ DataInv => StackIntact
    <2> SUFFICES ASSUME SlotInv, DataInv, current # None
                 PROVE  LET p == IF own[current] = None THEN hot_slot_idx[current] ELSE own[current]
                        IN  /\ current \notin restarted
                            /\ \A i \in 1..depth[current] : mem[p][i] = Frame(current, p)
      BY Zenon DEF StackIntact
    <2>1. current \in Coro /\ state[current] = "RUNNING" /\ Kept(current) /\ restarted = {}
      BY SlotInvView, Zenon DEF DataInv, RestTypes, Placed
    <2>2. own[current] = None => hot_slot_idx[current] >= 0
      BY <2>1, Zenon DEF DataInv, Placed
    <2> QED
      BY <2>1, <2>2, ZenonT(40) DEF Kept
  <1> QED
    BY <1>1, <1>2, <1>3, StacksInvariant, PTL DEF Spec
=============================================================================
