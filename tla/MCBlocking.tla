----------------------------- MODULE MCBlocking -----------------------------
(* Instances of Blocking for TLC.                                           *)
EXTENDS Blocking

OneAndTwo == {1, 2}
=============================================================================
