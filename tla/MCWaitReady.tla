----------------------------- MODULE MCWaitReady -----------------------------
(* Instances of WaitReady for TLC: the times are in the cfg files.           *)
EXTENDS WaitReady
=============================================================================
