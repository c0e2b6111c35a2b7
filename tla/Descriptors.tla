---------------------------- MODULE Descriptors -----------------------------
(***************************************************************************)
(* What the two ways to wait for a descriptor have in common: EventLoop,   *)
(* for a single-threaded scheduler, and Netpoller, for the multi-threaded  *)
(* one.                                                                    *)
(***************************************************************************)
EXTENDS Integers

CONSTANTS
    Coro,          \* the coroutines
    None,          \* the NULL pointer
    NFd,           \* descriptors are 0..(NFd - 1)
    Shared         \* descriptors that several coroutines may use at once

Fd == 0..(NFd - 1)

ASSUME DescriptorsAssumption ==
    /\ None \notin Coro
    /\ NFd \in Nat \ {0}
    /\ Shared \subseteq Fd
=============================================================================
