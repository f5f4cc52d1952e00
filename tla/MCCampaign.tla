----------------------------- MODULE MCCampaign -----------------------------
(* Instances of Campaign for TLC: no node is told from another but by its    *)
(* wave, which is any, so the nodes may be permuted.                         *)
EXTENDS Campaign, TLC

Symmetry == Permutations(Nodes)
=============================================================================
