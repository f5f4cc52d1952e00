------------------------------ MODULE MCRollout ------------------------------
(* Instances of Rollout for TLC. *)
EXTENDS RolloutRuns

(* Every run over N targets: all layouts of control planes and waves, and    *)
(* all flags.                                                                *)
AllRuns == RunSpace
=============================================================================
