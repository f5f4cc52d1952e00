---------------------------- MODULE MCLifecycle ----------------------------
EXTENDS Lifecycle

CONSTANTS c1, c2, w1

MCConfig == <<c1, w1, c2>>

A(on, flags) == [kind |-> "apply", on |-> on, flags |-> flags]
R(on, flags) == [kind |-> "reset", on |-> on, flags |-> flags]

MCCommands ==
  { A(Nodes, {"health"}), A(Nodes, {"onboard-new-nodes", "health"}), A(Nodes, {"bootstrap"}),
    A(Nodes, {"bootstrap", "yes", "health"}), A(Nodes, {"only-new-nodes", "health"}), A(Nodes, {"bootstrap", "staged"}),
    A(Nodes, {"dry-run"}), A(Nodes, {"bootstrap", "dry-run", "diff"}), A({w1}, {"insecure"}), A({w1, c2}, {"wait=false", "diff"}),
    A({c1, c2}, {"wait=false"}), 
    A(Nodes, {"staged"}), R(Nodes, {}), R({c1}, {"yes"}), R(Nodes, {"graceful", "yes"}) }
=============================================================================
