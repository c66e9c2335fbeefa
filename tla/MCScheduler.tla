---------------------------- MODULE MCScheduler ----------------------------
(* Instances of Scheduler for TLC.                                          *)
EXTENDS Scheduler

PinToAp == {1, AFFINITY_ANY}
AnyOnly == {AFFINITY_ANY}
=============================================================================
