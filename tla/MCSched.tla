------------------------------ MODULE MCSched ------------------------------
(* Instances of the scheduler for TLC.                                     *)
EXTENDS Sched, TLC

CONSTANTS c1, c2, c3

Symmetric == Permutations(Coro)
=============================================================================
