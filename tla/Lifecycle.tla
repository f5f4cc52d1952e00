----------------------------- MODULE Lifecycle -----------------------------
(***************************************************************************)
(* A cluster's life at one terminal: built with apply --bootstrap, kept up *)
(* with apply, torn down with reset, each command typed by hand or taken   *)
(* from the last one's hint, any of them killed, over machines that come   *)
(* and go.                                                                 *)
(***************************************************************************)
EXTENDS Apply, Reset

Init == MachinesInit /\ RunInit

Terminal == Killed \/ \E c \in Commands \cup {hint} : Type(c)

Next == Terminal \/ ApplyStep \/ ResetStep \/ (MachineStep /\ UNCHANGED run)

Spec == Init /\ [][Next]_vars

-----------------------------------------------------------------------------

(* The machines and the run keep their types, and a hint names some node.  *)
TypeOK == MachinesTypeOK /\ RunTypeOK

(* No cluster is split: --bootstrap starts an etcd only where no control   *)
(* plane holds data of another, whatever went down, was wiped or lost its  *)
(* reply in between, unless the operator said so when asked.               *)
BootstrapsAlone == [][born' # born => asked \/ \A c \in CPs : etcd[c] = 0]_vars

(* A node on the maintenance service, which authenticates nothing, is sent *)
(* its config and the CA keys in it only by a command that onboards new    *)
(* nodes or names that service, and that selects the node.                 *)
OnlyAsAsked ==
  [][\A n \in set' \ set :
       /\ n \in cmd.on
       /\ cmd.flags \cap {"onboard-new-nodes", "only-new-nodes", "bootstrap", "insecure"} # {}
       /\ "dry-run" \notin cmd.flags]_vars

(* A node this run has onboarded and seen back does not keep the health    *)
(* gate down for the nodes after it: what it answered before is forgotten. *)
(* Not where --wait=false has it not seen, or --insecure=false not ask.    *)
GateNotHeldDown ==
  [][pc = "gate" /\ pc' = "turn" /\ ~Healthy /\ cmd.flags \cap {"wait=false", "insecure=false"} = {} =>
       \E n \in Nodes : modes'[n] = "maintenance" /\ n \in (Nodes \ cmd.on) \cup todo]_vars

(* A teardown carried on by its hints, whatever failed in it, asks no      *)
(* control plane to leave an etcd too small to let it go.                  *)
TeardownGetsThrough ==
  pc = "reset" /\ doomed = CPs /\ ~Has("graceful") =>
    \A n \in CPs : IsNext(n) /\ etcd[n] # 0 /\ ~CanLeave(n) => ~NodeGraceful(n)
=============================================================================
