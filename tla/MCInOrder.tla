------------------------------ MODULE MCInOrder ------------------------------
(* Instances of InOrder for TLC, sized in the cfg files.                     *)
EXTENDS InOrder
=============================================================================
