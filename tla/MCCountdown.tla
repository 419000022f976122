---------------------------- MODULE MCCountdown ----------------------------
(* The first three falls of countdown.cpp:105-121.                         *)
EXTENDS Countdown

MCFalls == [i \in Idx |-> CASE i = 0 -> 0 [] i = 1 -> 2 * TIME_CLICK
                           [] i = 2 -> 5 * TIME_CLICK]
=============================================================================
