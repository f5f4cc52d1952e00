------------------------------ MODULE Machines ------------------------------
(***************************************************************************)
(* The machines a talman.yaml names, as far as talman can tell them apart: *)
(* which API each answers, whether its config is the rendered one, and     *)
(* which etcd a control plane belongs to.  They are Talos', outside the    *)
(* repository, and modelled from what the code asks and expects of them.   *)
(***************************************************************************)
EXTENDS Naturals, FiniteSets, Sequences, Functions

CONSTANTS
  Config,      \* the nodes of talman.yaml, in the order it lists them
  Workers,     \* the nodes that are not control planes
  MaxEtcds,    \* how many etcds may ever be bootstrapped
  MaxFaults    \* how often a node may go down or an answer be lost

Nodes == Range(Config)
CPs == Nodes \ Workers

ASSUME ConfigAssumption ==
  /\ Config \in Seq(Range(Config))
  /\ IsInjective(Config)
  /\ Workers \subseteq Nodes
  /\ CPs # {}
  /\ MaxEtcds \in Nat \ {0}
  /\ MaxFaults \in Nat

VARIABLES
  up,        \* the nodes that are on and reachable
  set,       \* the nodes that hold a machine config
  booting,   \* of those, the ones still on the maintenance service
  joined,    \* of those, the ones that answer with cluster PKI
  drift,     \* the nodes whose config is not what the repository renders
  etcd,      \* which etcd each control plane holds data of, 0 for none
  serving,   \* the control planes whose etcd service runs
  member,    \* the member list of each etcd
  born,      \* how many etcds have been bootstrapped
  faults     \* faults so far

machines == <<up, set, booting, joined, drift, etcd, serving, member, born, faults>>

MachinesTypeOK ==
  /\ up \subseteq Nodes
  /\ set \subseteq Nodes
  /\ booting \subseteq set
  /\ joined \subseteq set \ booting
  /\ drift \subseteq Nodes
  /\ etcd \in [CPs -> 0 .. MaxEtcds]
  /\ serving \subseteq CPs \cap up \cap joined
  /\ member \in [1 .. MaxEtcds -> SUBSET CPs]
  /\ born \in 0 .. MaxEtcds
  /\ faults \in 0 .. MaxFaults

(* Machines fresh from a boot medium, waiting in maintenance mode. *)
AllFresh ==
  /\ set = {}
  /\ joined = {}
  /\ drift = Nodes
  /\ etcd = [c \in CPs |-> 0]
  /\ serving = {}
  /\ member = [k \in 1 .. MaxEtcds |-> {}]
  /\ born = 0

(* A cluster that runs, with some configs behind the repository. *)
AllBuilt ==
  /\ set = Nodes
  /\ joined = Nodes
  /\ drift \in {{}, Nodes}
  /\ etcd = [c \in CPs |-> 1]
  /\ serving = CPs
  /\ member = [k \in 1 .. MaxEtcds |-> IF k = 1 THEN CPs ELSE {}]
  /\ born = 1

MachinesInit ==
  /\ AllFresh \/ AllBuilt
  /\ up = Nodes
  /\ booting = {}
  /\ faults = 0

(* What Mode finds out: the API a node answers on. *)
ModeOf(n) ==
  CASE n \notin up -> "unreachable"
    [] n \in up /\ n \notin set \ booting -> "maintenance"
    [] n \in up \cap joined -> "running"
    [] OTHER -> "unreachable"

(* What Etcd finds out of a control plane that answers. *)
EtcdOf(c) == IF c \in serving THEN "running" ELSE "stopped"

(* An answer is lost, or a machine goes: faults are bounded. *)
Fault ==
  /\ faults < MaxFaults
  /\ faults' = faults + 1

(* The cluster is what talman.yaml describes. *)
Healthy == Nodes \subseteq up \cap joined /\ CPs \subseteq serving

(* More than half of an etcd's members run, so it can agree on anything. *)
HasQuorum(k) ==
  2 * Cardinality({c \in member[k] \cap serving : etcd[c] = k}) > Cardinality(member[k])

(* An etcd lets c go while enough of it is left to agree. *)
CanLeave(c) == HasQuorum(etcd[c]) /\ member[etcd[c]] # {c}

-----------------------------------------------------------------------------
(* What talman does to them.                                               *)

(* A node on this API takes a config; any other caller is turned away.  A  *)
(* running node may reboot on a config that changes something.             *)
Accepts(n, insecure) == ModeOf(n) = IF insecure THEN "maintenance" ELSE "running"

Configured(n) ==
  /\ set' = set \cup {n}
  /\ booting' = IF n \in set THEN booting ELSE booting \cup {n}
  /\ drift' = drift \ {n}
  /\ up' \in {up} \cup (IF n \in set \cap drift THEN {up \ {n}} ELSE {})
  /\ serving' = serving \cap up'
  /\ UNCHANGED <<joined, etcd, member, born>>

(* c starts an etcd of its own, empty or from a snapshot. *)
Bootstrapped(c) ==
  /\ born < MaxEtcds
  /\ born' = born + 1
  /\ etcd' = [etcd EXCEPT ![c] = born + 1]
  /\ member' = [member EXCEPT ![born + 1] = {c}]
  /\ UNCHANGED <<up, set, booting, joined, drift, serving>>

(* A bootstrap of a control plane that has data stops its etcd, and is     *)
(* refused.                                                                *)
NotBootstrapped(c) ==
  /\ serving' = serving \ {c}
  /\ UNCHANGED <<up, set, booting, joined, drift, etcd, member, born>>

(* n is wiped, and back in maintenance mode; having left its etcd, or not. *)
Wiped(n, leaves) ==
  /\ set' = set \ {n}
  /\ booting' = booting \ {n}
  /\ joined' = joined \ {n}
  /\ drift' = drift \cup {n}
  /\ serving' = serving \ {n}
  /\ etcd' = [c \in CPs |-> IF c = n THEN 0 ELSE etcd[c]]
  /\ member' = [k \in 1 .. MaxEtcds |-> IF leaves THEN member[k] \ {n} ELSE member[k]]
  /\ UNCHANGED <<up, born>>

-----------------------------------------------------------------------------
(* What they do by themselves.                                             *)

GoesDown(n) ==
  /\ n \in up
  /\ Fault
  /\ up' = up \ {n}
  /\ serving' = serving \ {n}
  /\ UNCHANGED <<set, booting, joined, drift, etcd, member, born>>

ComesUp(n) ==
  /\ n \notin up
  /\ up' = up \cup {n}
  /\ UNCHANGED <<set, booting, joined, drift, etcd, serving, member, born, faults>>

(* The machine boots into the config it was given. *)
BootsConfig(n) ==
  /\ n \in up \cap booting
  /\ booting' = booting \ {n}
  /\ UNCHANGED <<up, set, joined, drift, etcd, serving, member, born, faults>>

(* A control plane holds the CA and answers by itself; a worker is quiet   *)
(* until there is a cluster to join.                                       *)
Joins(n) ==
  /\ n \in (up \cap set) \ (booting \cup joined)
  /\ n \in Workers => serving # {}
  /\ joined' = joined \cup {n}
  /\ UNCHANGED <<up, set, booting, drift, etcd, serving, member, born, faults>>

(* A control plane without data joins an etcd that can take it in. *)
JoinsEtcd(c, k) ==
  /\ c \in up \cap joined
  /\ etcd[c] = 0
  /\ HasQuorum(k)
  /\ etcd' = [etcd EXCEPT ![c] = k]
  /\ member' = [member EXCEPT ![k] = @ \cup {c}]
  /\ UNCHANGED <<up, set, booting, joined, drift, serving, born, faults>>

StartsEtcd(c) ==
  /\ c \in (up \cap joined) \ serving
  /\ etcd[c] # 0
  /\ serving' = serving \cup {c}
  /\ UNCHANGED <<up, set, booting, joined, drift, etcd, member, born, faults>>

Recovers(n) == ComesUp(n) \/ BootsConfig(n) \/ Joins(n)
RunsEtcd(c) == StartsEtcd(c) \/ \E k \in 1 .. MaxEtcds : JoinsEtcd(c, k)

MachineStep ==
  \/ \E n \in Nodes : GoesDown(n) \/ Recovers(n)
  \/ \E c \in CPs : RunsEtcd(c)
=============================================================================
