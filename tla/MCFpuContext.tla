---------------------------- MODULE MCFpuContext ----------------------------
(* Instances of FpuContext for TLC.                                         *)
EXTENDS FpuContext
=============================================================================
