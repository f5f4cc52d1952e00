----------------------------- MODULE MCInterrupt -----------------------------
(* Instances of Interrupt for TLC: two goroutines, named in the cfg files.   *)
EXTENDS Interrupt
=============================================================================
