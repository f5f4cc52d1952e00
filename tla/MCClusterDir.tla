---------------------------- MODULE MCClusterDir ----------------------------
EXTENDS ClusterDir, TLC

CONSTANTS n1, n2

OrderDef == <<n1, n2>>
FactoryDef == (n1 :> "ours" @@ n2 :> "public")
SchematicDef == [n \in {n1, n2} |-> "both"]
ProcsAlike == Permutations(Procs)
=============================================================================
