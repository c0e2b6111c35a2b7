--------------------------- MODULE ChannelProofs ----------------------------
(***************************************************************************)
(* Every action of Channel keeps the invariant of ChannelShapeProofs.  So  *)
(* a coroutine in a call is queued or ready, once; references are counted  *)
(* exactly; and nobody waits for what is there.                            *)
(***************************************************************************)
EXTENDS ChannelStepProofs, ChannelWaitProofs

-----------------------------------------------------------------------------
(* The invariant.                                                          *)

\* The invariant and the count of the references hold at the start.
LEMMA ChanInit ==
    ASSUME Library, Init
    PROVE  ChanInv /\ RefOK(chan, coro, running)
  <1>0. None \notin Chan /\ None \notin Coro /\ Capacity \in [Chan -> Nat] /\ MaxValues \in Nat
    BY ChannelAssumption, Zenon
  <1>1. NewChannel \in ChanT
    BY DEF NewChannel, ChanT
  <1>2. NewCoro \in CoroT
    BY DEF NewCoro, CoroT, ValueT, PENDING
  <1>3. /\ chan \in [Chan -> ChanT] /\ coro \in [Coro -> CoroT] /\ running \in Coro \cup {None} /\ running = None
        /\ \A h \in Chan : chan[h] = NewChannel
        /\ \A c \in Coro : coro[c] = NewCoro
    BY <1>1, <1>2, ZenonT(40) DEF Init
  <1>4. /\ NewChannel.buf = <<>> /\ NewChannel.sendQ = <<>> /\ NewChannel.recvQ = <<>> /\ NewChannel.sendSel = <<>>
        /\ NewChannel.recvSel = <<>> /\ NewChannel.refcount = 1 /\ NewChannel.destroying = FALSE
    BY Zenon DEF NewChannel
  <1>5. NewCoro.op = "none" /\ NewCoro.waits = None /\ CoroOK(NewCoro, FALSE)
    BY Zenon DEF NewCoro, CoroOK, Plain
  <1>6. Range(<<>>) = {}
    BY SMTT(40) DEF Range
  <1>7. Once(<<>>)
    BY SMTT(40) DEF Once
  <1>8. BufOK(chan)
    BY <1>0, <1>3, <1>4, SMTT(40) DEF BufOK
  <1>9. QueueOK(chan, coro)
    BY <1>0, <1>3, <1>4, <1>5, <1>6, <1>7, ZenonT(40) DEF QueueOK
  <1>10. SelOK(chan, coro)
    BY <1>3, <1>4, <1>5, <1>6, ZenonT(40) DEF SelOK, HasNode, Undecided
  <1>11. \A c \in Coro : CoroOK(coro[c], running = c)
    <2> TAKE c \in Coro
    <2>1. (running = c) = FALSE
      BY <1>0, <1>3, ZenonT(40)
    <2> QED
      BY <1>3, <1>5, <2>1, ZenonT(40)
  <1>12. Shape(chan, coro, running)
    BY ONLY <1>3, <1>8, <1>9, <1>10, <1>11, ZenonT(40) DEF Shape
  <1>13. program \in Uses /\ made \in 0..program.values
    BY <1>0, ChannelAssumption, SMTT(40) DEF Init
  <1>14. taken \in TakenT
    BY DEF Init, TakenT
  <1>15. "cancel" \in program.ops => \A c \in Coro : coro[c].op # "select"
    BY <1>3, <1>5, ZenonT(40)
  <1>16. RefOK(chan, coro, running)
    <2> SUFFICES ASSUME NEW h \in Chan
                 PROVE  chan[h].refcount = (IF chan[h].destroying THEN 0 ELSE 1) + Cardinality(Holders(coro, running, h))
      BY Zenon DEF RefOK
    <2>1. Holders(coro, running, h) = {}
      BY <1>3, <1>5, ZenonT(40) DEF Holders
    <2>2. Cardinality(Holders(coro, running, h)) = 0
      BY <2>1, EmptySize, ZenonT(40)
    <2> QED
      BY <1>3, <1>4, <2>2, SMTT(40)
  <1> QED
    BY ONLY <1>12, <1>13, <1>14, <1>15, <1>16, ZenonT(40) DEF ChanInv

\* Every action keeps the shape and does one thing to the references.
LEMMA NextOK ==
    ASSUME Library, ChanInv, [Next]_vars
    PROVE  StepOK /\ program' = program
  <1>0. program.chans \subseteq Chan
    BY Types, ZenonT(40)
  <1>1. CASE UNCHANGED vars
    BY <1>1, Stays, ZenonT(40) DEF vars
  <1>2. ASSUME NEW c \in Coro, NEW h \in program.chans, coco_channel_send(c, h)
        PROVE  StepOK
    BY <1>0, <1>2, SendStep, ZenonT(40)
  <1>3. ASSUME NEW c \in Coro, NEW h \in program.chans, coco_channel_recv(c, h)
        PROVE  StepOK
    BY <1>0, <1>3, RecvStep, ZenonT(40)
  <1>4. ASSUME NEW c \in Coro, NEW h \in program.chans, coco_channel_send_batch(c, h)
        PROVE  StepOK
    BY <1>0, <1>4, SendBatchStep, ZenonT(40)
  <1>5. ASSUME NEW c \in Coro, NEW h \in program.chans, coco_channel_recv_batch(c, h)
        PROVE  StepOK
    BY <1>0, <1>5, RecvBatchStep, ZenonT(40)
  <1>6. ASSUME NEW c \in Coro, coco_channel_select(c)
        PROVE  StepOK
    BY <1>6, SelectStep, ZenonT(40)
  <1>7. ASSUME NEW c \in Coro, Resume(c)
        PROVE  StepOK
    BY <1>7, ResumeSendStep, ResumeRecvStep, ResumeSendBatchStep, ResumeRecvBatchStep,
       ResumeSelectStep, ZenonT(40) DEF Resume
  <1>8. ASSUME NEW c \in Coro, Loop(c)
        PROVE  StepOK
    BY <1>8, SendBatchLoopStep, RecvBatchLoopStep, RecvBatchMoreStep, ZenonT(40) DEF Loop
  <1>9. ASSUME NEW c \in Coro, select_timeout_cb(c)
        PROVE  StepOK
    BY <1>9, TimeoutStep, Zenon
  <1>10. ASSUME NEW c \in Coro, coco_cancel(c)
         PROVE  StepOK
    BY <1>10, CancelStep, Zenon
  <1>11. ASSUME NEW h \in program.chans, coco_channel_close(h)
         PROVE  StepOK
    BY <1>0, <1>11, CloseStep, ZenonT(40)
  <1>12. ASSUME NEW h \in program.chans, coco_channel_destroy(h)
         PROVE  StepOK
    BY <1>0, <1>12, DestroyStep, ZenonT(40)
  <1> QED
    BY ONLY [Next]_vars, <1>1, <1>2, <1>3, <1>4, <1>5, <1>6, <1>7, <1>8, <1>9, <1>10, <1>11,
       <1>12, ZenonT(40) DEF Next, Call, vars

\* Every action keeps the invariant, if no select is cancelled.
LEMMA ChanStep ==
    ASSUME Library, NoCancelledSelect, ChanInv, [Next]_vars
    PROVE  ChanInv'
  <1>1. StepOK /\ program' = program
    BY NextOK, ZenonT(40)
  <1>2. "cancel" \in program.ops => "select" \notin program.ops
    BY Zenon DEF ChanInv, NoCancelledSelect
  <1>3. "cancel" \in program'.ops => \A c \in Coro : coro'[c].op # "select"
    BY <1>1, <1>2, ZenonT(40) DEF ChanInv, StepOK
  <1> QED
    BY <1>1, <1>3, ZenonT(40) DEF ChanInv, StepOK

\* Every action keeps the count of the references.
LEMMA RefStepOK ==
    ASSUME Library, IsFiniteSet(Coro), ChanInv, RefInv, [Next]_vars
    PROVE  RefInv'
  <1>1. StepOK /\ program' = program /\ chan \in [Chan -> ChanT]
    BY NextOK, Types, ZenonT(40)
  <1>2. CASE "cancel" \in program.ops
    BY <1>1, <1>2, ZenonT(40) DEF RefInv
  <1>3. CASE "cancel" \notin program.ops
    <2>1. RefStep(chan, coro, running, chan', coro', running') /\ RefOK(chan, coro, running) /\ chan' \in [Chan -> ChanT]
      BY <1>1, <1>3, ZenonT(40) DEF StepOK, RefInv, Shape
    <2>2. RefOK(chan', coro', running')
      BY ONLY Library, <1>1, <2>1, IsFiniteSet(Coro), RefPreserved, ZenonT(40)
    <2> QED
      BY <2>2, ZenonT(40) DEF RefInv, RefOK, Holders
  <1> QED
    BY <1>2, <1>3, ZenonT(40)

\* Every action keeps VainInv: without batches no coroutine is in a batch
\* loop.
LEMMA VainStep ==
    ASSUME Library, ChanInv, VainInv, [Next]_vars
    PROVE  VainInv'
  <1>1. StepOK /\ program' = program
    BY NextOK, ZenonT(40)
  <1> SUFFICES ASSUME program.ops \cap Batches = {}
               PROVE  (running = None /\ AllCalm(chan) /\ \A c \in Coro : coro[c].op \notin Looping)'
    BY <1>1, ZenonT(40) DEF VainInv
  <1>2. running = None /\ AllCalm(chan) /\ \A c \in Coro : coro[c].op \notin Looping
    BY Zenon DEF VainInv
  <1>3. AllCalm(chan')
    BY <1>2, VainNext, ZenonT(40)
  <1>4. \A c \in Coro : coro'[c].op \notin Looping
    BY <1>1, <1>2, ZenonT(40) DEF StepOK, MayLoop
  <1>5. running' = None
    <2>1. running' \in Coro \cup {None} /\ \A c \in Coro : CoroOK(coro'[c], running' = c)
      BY <1>1, ZenonT(40) DEF StepOK, Shape
    <2> QED
      BY <1>4, <2>1, ZenonT(40) DEF CoroOK
  <1> QED
    BY <1>3, <1>4, <1>5, ZenonT(40) DEF AllCalm

\* Nobody waits at the start.
LEMMA VainInit ==
    ASSUME Init
    PROVE  VainInv
  <1>1. /\ running = None /\ \A h \in Chan : chan[h] = NewChannel
        /\ \A c \in Coro : coro[c] = NewCoro
    BY Zenon DEF Init
  <1>2. /\ NewChannel.sendQ = <<>> /\ NewChannel.recvQ = <<>> /\ NewChannel.sendSel = <<>>
        /\ NewChannel.recvSel = <<>> /\ NewCoro.op = "none"
    BY Zenon DEF NewChannel, NewCoro
  <1>3. AllCalm(chan)
    BY <1>1, <1>2, ZenonT(40) DEF AllCalm, Calm
  <1> QED
    BY <1>1, <1>2, <1>3, ZenonT(40) DEF VainInv, Looping

-----------------------------------------------------------------------------
(* The theorems.                                                           *)

INSTANCE FiniteSetTheorems

\* What the proofs take from the library is there.
LEMMA LibraryHolds == Library
  <1>1. ASSUME NEW T \in SUBSET Nat, T # {}
        PROVE  \E m \in T : \A k \in T : m <= k
    <2>1. PICK m \in T : \A k \in T : <<k, m>> \notin OpToRel(<, Nat)
      BY <1>1, WFMin, NatLessThanWellFounded, ZenonT(40)
    <2>2. \A k \in T : ~(k < m)
      BY <2>1, ZenonT(40) DEF OpToRel
    <2> QED
      BY <2>2, SMTT(40)
  <1>2. \A S : IsFiniteSet(S) => Cardinality(S) \in Nat /\ (Cardinality(S) = 0 => S = {})
    BY FS_CardinalityType, FS_EmptySet, SMTT(40)
  <1>3. \A S : \A T \in SUBSET S : IsFiniteSet(S) => IsFiniteSet(T) /\ Cardinality(T) <= Cardinality(S)
    BY FS_Subset, SMTT(40)
  <1>4. \A S, x : IsFiniteSet(S) /\ x \notin S => Cardinality(S \cup {x}) = Cardinality(S) + 1
    BY FS_AddElement, SMTT(40)
  <1>5. \A S, x : IsFiniteSet(S) /\ x \in S => Cardinality(S \ {x}) = Cardinality(S) - 1
    BY FS_RemoveElement, SMTT(40)
  <1>6. Cardinality({}) = 0 /\ \A x : Cardinality({x}) = 1
    BY FS_EmptySet, FS_Singleton, SMTT(40)
  <1>7. \A a, b \in Int : IsFiniteSet(a..b)
    BY FS_Interval, SMTT(40)
  <1> QED
    BY <1>1, <1>2, <1>3, <1>4, <1>5, <1>6, <1>7, ZenonT(40) DEF Library

\* What the queues, the calls and the selects of coco_channel_* are between two
\* steps: types, every queue entry of a coroutine that waits for that channel,
\* every waiting coroutine in one queue once, every select node of an undecided
\* select, a woken call woken once, no buffer over its capacity.
THEOREM ChanInvariant == NoCancelledSelect => (Spec => []ChanInv)
  <1> SUFFICES ASSUME NoCancelledSelect
               PROVE  Spec => []ChanInv
    BY ZenonT(40)
  <1>1. Init => ChanInv
    BY LibraryHolds, ChanInit, ZenonT(40)
  <1>2. ChanInv /\ [Next]_vars => ChanInv'
    BY LibraryHolds, ChanStep, ZenonT(40)
  <1> QED
    BY <1>1, <1>2, PTL DEF Spec

\* A coroutine blocked in a call of coco_channel_* is in one queue, once, or has
\* been made ready, once, and never both; nobody else is in a queue or ready.
THEOREM QueuedXorReadyCorrect == NoCancelledSelect => (Spec => []QueuedXorReady)
  <1>1. ChanInv => QueuedXorReady
    BY LibraryHolds, QueuedXorReadyHolds, ZenonT(40)
  <1> QED
    BY <1>1, ChanInvariant, PTL

\* In a program that cancels nobody the reference count of a channel is the
\* number of its users: one for its owner until coco_channel_destroy, and one
\* for every coroutine blocked in a call on it.
THEOREM RefcountCorrect == IsFiniteSet(Coro) /\ NoCancelledSelect => (Spec => []RefcountExact)
  <1> SUFFICES ASSUME IsFiniteSet(Coro), NoCancelledSelect
               PROVE  Spec => []RefcountExact
    BY Zenon
  <1>1. Init => RefInv
    BY LibraryHolds, ChanInit, ZenonT(40) DEF RefInv
  <1>2. ChanInv /\ RefInv /\ [Next]_vars => RefInv'
    BY LibraryHolds, RefStepOK, ZenonT(40)
  <1>3. RefInv => RefcountExact
    BY RefcountHolds, ZenonT(40)
  <1> QED
    BY <1>1, <1>2, <1>3, ChanInvariant, PTL DEF Spec

\* Nobody stays in a queue of coco_channel_* for what is there to be had: a
\* receiver while a value or a sender waits, a sender while there is room, or
\* either on a closed channel, in programs without batches and in which no
\* select is cancelled.
THEOREM VainCorrect == NoCancelledSelect => (Spec => []NobodyWaitsInVain)
  <1> SUFFICES ASSUME NoCancelledSelect
               PROVE  Spec => []NobodyWaitsInVain
    BY Zenon
  <1>1. Init => VainInv
    BY VainInit, ZenonT(40)
  <1>2. ChanInv /\ VainInv /\ [Next]_vars => VainInv'
    BY LibraryHolds, VainStep, ZenonT(40)
  <1>3. VainInv => NobodyWaitsInVain
    BY Zenon DEF VainInv, AllCalm, Calm, NobodyWaitsInVain
  <1> QED
    BY <1>1, <1>2, <1>3, ChanInvariant, PTL DEF Spec
=============================================================================
