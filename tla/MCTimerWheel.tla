---------------------------- MODULE MCTimerWheel ----------------------------
(* Instances of the timer wheel for TLC: 3 slots of 1 ms, two of 3 ms,      *)
(* two of 6 ms and two of 12 ms, so that the whole wheel spans 24 ms.      *)
EXTENDS TimerWheel

SmallWheel == <<3, 2, 2, 2>>
=============================================================================
