------------------------------ MODULE Upgrade ------------------------------
(***************************************************************************)
(* `talman upgrade` and `upgrade-k8s`: downgrades refused up front, nodes  *)
(* on their version skipped, one snapshot before anything changes though   *)
(* the nodes of a batch go in goroutines of their own, and the record of   *)
(* it all, over nodes that may stop answering and beside another talman    *)
(* saving a snapshot.  Gates, soaks and resumes are Rollout's.             *)
(***************************************************************************)
EXTENDS Snapshot, Record

CONSTANTS
  Layouts,      \* the batches a roll-out may go in
  Starts,       \* the versions nodes may begin on
  RunFlags,     \* the flags runs are given
  MaxFaults     \* how often a node may fall silent

Kinds == {"upgrade", "upgrade-k8s"}
Versions == {"old", "want", "newer"}
Doing == {"waits", "asks", "snapshots", "takes", "sends", "done"}

ASSUME UpgradeAssumption ==
  /\ CPs \subseteq Nodes
  /\ \A l \in Layouts : l \in Seq(SUBSET Nodes) \ {<<>>} /\ UNION {l[i] : i \in DOMAIN l} = Nodes
  /\ Starts \subseteq [Nodes -> Versions]
  /\ {} \in RunFlags
  /\ RunFlags \subseteq SUBSET {"force", "dry-run", "snapshot", "allow-downgrades"}
  /\ {"run", "rival"} = Savers
  /\ Groups = Kinds \X BOOLEAN
  /\ MaxRuns \in Nat \ {0} /\ MaxFaults \in Nat

VARIABLES
  talos, kubelet,   \* the version each node runs of each
  faults,           \* faults so far
  kind, flags,      \* the command and its flags
  pc,               \* what it does next, "idle" between runs
  rest,             \* the batches still to go, the first under way
  node,             \* where each node's goroutine is
  once,             \* the snapshot's sync.Once
  touched           \* the nodes an upgrade was sent to

recording == <<file, endpoint, reports>>
cluster == <<answering, talos, kubelet, faults>>
command == <<kind, flags, pc, rest>>
vars == <<cluster, disk, saver, rec, recording, command, node, once, touched>>

Has(f) == f \in flags


(* The types, and that a batch is under way while nodes are worked on. *)
TypeOK ==
  /\ answering \subseteq Nodes
  /\ talos \in [Nodes -> Versions]
  /\ kubelet \in [Nodes -> Versions]
  /\ faults \in 0 .. MaxFaults
  /\ kind \in Kinds
  /\ flags \in RunFlags
  /\ pc \in {"idle", "check", "current", "batch", "snapshot", "stream", "report"}
  /\ rest \in Seq(SUBSET Nodes)
  /\ pc = "batch" => rest # <<>>
  /\ node \in [Nodes -> Doing]
  /\ once \in {"new", "running", "done"}
  /\ touched \subseteq Nodes
  /\ SaverTypeOK
  /\ RecordTypeOK

(* The nodes begin on a mixture of one of the two, and the other all old.  *)
Init ==
  /\ answering = Nodes
  /\ \E v \in Starts :
       \/ talos = v /\ kubelet = [n \in Nodes |-> "old"]
       \/ kubelet = v /\ talos = [n \in Nodes |-> "old"]
  /\ faults = 0
  /\ SaverInit
  /\ RecordInit
  /\ kind = "upgrade"
  /\ flags = {}
  /\ pc = "idle"
  /\ rest = <<>>
  /\ node = [n \in Nodes |-> "waits"]
  /\ once = "new"
  /\ touched = {}

(* The run ends, well or not, with what it recorded still to report. *)
Finish(r, ok) ==
  /\ rec' = [r EXCEPT !.success = ok]
  /\ pc' = "report"
  /\ rest' = <<>>

(* A run starts: k and f are what it was given.  One that startRun refuses *)
(* for its metrics' flags does and reports nothing, as one killed at once. *)
Begin(k, f) ==
  /\ pc = "idle"
  /\ Len(reports) < MaxRuns
  /\ kind' = k
  /\ flags' = f
  /\ UNCHANGED <<cluster, disk, saver, recording, node, once, touched>>

(* --dry-run and --force exclude each other; every node is planned.        *)
BeginUpgrade(f) ==
  /\ Begin("upgrade", f)
  /\ LET new == NewRun(<<"upgrade", "dry-run" \in f>>)
     IN \/ {"dry-run", "force"} \subseteq f /\ Finish(new, FALSE)
        \/ /\ ~({"dry-run", "force"} \subseteq f)
           /\ rec' = [new EXCEPT !.planned = Nodes] /\ pc' = "check" /\ rest' \in Layouts

(* Driven from a control plane that answers; no node is planned. *)
BeginK8s(f) ==
  /\ Begin("upgrade-k8s", f)
  /\ LET new == NewRun(<<"upgrade-k8s", "dry-run" \in f>>)
     IN \/ CPs \cap answering = {} /\ Finish(new, FALSE)
        \/ CPs \cap answering # {} /\ rec' = new /\ pc' = "check" /\ rest' = <<>>

Runs == IF kind = "upgrade" THEN talos ELSE kubelet

(* The nodes that would be taken back to an older version, of those that   *)
(* answer: every one is asked before any is touched.                       *)
Downgrades == {n \in Nodes \cap answering : Runs[n] = "newer"}

RefuseDowngrades ==
  /\ pc = "check"
  /\ \/ /\ Downgrades # {} /\ ~Has("allow-downgrades")
        /\ Finish(rec, FALSE)
     \/ /\ Downgrades = {} \/ Has("allow-downgrades")
        /\ pc' = IF kind = "upgrade" THEN "batch" ELSE "current"
        /\ UNCHANGED <<rec, rest>>
  /\ UNCHANGED <<cluster, disk, saver, recording, kind, flags, node, once, touched>>

-----------------------------------------------------------------------------
(* upgrade: the nodes of a batch, each in a goroutine of its own.          *)

Batch == Head(rest)

StartBatch ==
  /\ pc = "batch"
  /\ \A n \in Batch : node[n] = "waits"
  /\ node' = [n \in Nodes |-> IF n \in Batch THEN "asks" ELSE node[n]]
  /\ UNCHANGED <<cluster, disk, saver, rec, recording, command, once, touched>>

Goes(n, where) == node' = [node EXCEPT ![n] = where]

Ends(n, changed, how) ==
  /\ Goes(n, "done")
  /\ rec' = NodeEnds(n, changed, how)

(* It runs its version and schematic already. *)
UpToDate(n) == talos[n] = "want"

(* What does it run?  --force does not ask; no answer is an error.         *)
Ask(n) ==
  /\ node[n] = "asks"
  /\ \/ Has("force") /\ Goes(n, "snapshots") /\ UNCHANGED rec
     \/ ~Has("force") /\ n \notin answering /\ Ends(n, "unknown", "failed")
     \/ ~Has("force") /\ n \in answering /\ UpToDate(n) /\ Ends(n, "no", "ok")
     \/ /\ ~Has("force") /\ n \in answering /\ ~UpToDate(n)
        /\ IF Has("dry-run") THEN Ends(n, "yes", "ok")
           ELSE Goes(n, "snapshots") /\ UNCHANGED rec
  /\ UNCHANGED <<cluster, disk, saver, recording, command, once, touched>>

(* A mutation of SnapErr: only the node that took the snapshot hears it failed. *)
SnapErrOwn(n) == saver["run"].pc = "failed" /\ node[n] = "takes"

(* The one error of the one snapshot, whichever node took it. *)
SnapErr(n) == saver["run"].pc = "failed"

(* The first node here takes the snapshot and the rest wait for it.        *)
Snap(n) ==
  /\ node[n] \in {"snapshots", "takes"}
  /\ \/ ~Has("snapshot") /\ Goes(n, "sends") /\ UNCHANGED <<rec, saver, once>>
     \/ /\ Has("snapshot") /\ once = "new"
        /\ once' = "running"
        /\ saver' = StartsSaving("run")
        /\ Goes(n, "takes") /\ UNCHANGED rec
     \/ /\ Has("snapshot") /\ once = "done"
        /\ IF SnapErr(n) THEN Ends(n, "unknown", "failed") ELSE Goes(n, "sends") /\ UNCHANGED rec
        /\ UNCHANGED <<saver, once>>
  /\ UNCHANGED <<cluster, disk, recording, command, touched>>

(* The upgrade is sent and waited for; one that failed may have happened.  *)
Send(n) ==
  /\ node[n] = "sends"
  /\ touched' = touched \cup {n}
  /\ \/ talos' = [talos EXCEPT ![n] = "want"] /\ Ends(n, "yes", "ok")
     \/ talos' \in {talos, [talos EXCEPT ![n] = "want"]} /\ Ends(n, "unknown", "failed")
  /\ UNCHANGED <<answering, kubelet, faults, disk, saver, recording, command, once>>

(* A mutation of LastBatch: the run goes on past its last batch. *)
LastBatchPast == Len(rest) = 0

LastBatch == Len(rest) = 1

(* The run ends after its last batch, or goes on to the next.  It fails if *)
(* a node of this one did, or the soak or gate after it, which the last    *)
(* has as well where --until stops the run short.                          *)
BatchDone ==
  /\ pc = "batch"
  /\ \A n \in Batch : node[n] = "done"
  /\ LET failed == \E n \in Batch : rec.ended[n] = "failed"
     IN \/ Finish(rec, FALSE)
        \/ ~failed /\ LastBatch /\ Finish(rec, TRUE)
        \/ ~failed /\ ~LastBatch /\ rest' = Tail(rest) /\ UNCHANGED <<rec, pc>>
  /\ UNCHANGED <<cluster, disk, saver, recording, kind, flags, node, once, touched>>

-----------------------------------------------------------------------------
(* upgrade-k8s: the whole cluster from one control plane.                  *)

K8sUpToDate(n) == kubelet[n] = "want"

(* Nothing to do where every node answers and runs the version already.    *)
Current ==
  /\ pc = "current"
  /\ LET asks == ~Has("force")
         goes == IF Has("snapshot") /\ ~Has("dry-run") THEN "snapshot" ELSE "stream"
     IN \/ asks /\ ~(Nodes \subseteq answering) /\ Finish(rec, FALSE) /\ UNCHANGED saver
        \/ /\ asks /\ Nodes \subseteq answering /\ \A n \in Nodes : K8sUpToDate(n)
           /\ Finish(SetChanged("no"), TRUE)
           /\ UNCHANGED saver
        \/ /\ asks => Nodes \subseteq answering /\ \E n \in Nodes : ~K8sUpToDate(n)
           /\ pc' = goes
           /\ saver' = IF goes = "snapshot" THEN StartsSaving("run") ELSE saver
           /\ UNCHANGED <<rec, rest>>
  /\ UNCHANGED <<cluster, disk, recording, kind, flags, node, once, touched>>

SnapshotTaken ==
  /\ pc = "snapshot"
  /\ \/ saver["run"].pc = "failed" /\ Finish(rec, FALSE)
     \/ saver["run"].pc = "saved" /\ pc' = "stream" /\ UNCHANGED <<rec, rest>>
  /\ UNCHANGED <<cluster, disk, saver, recording, kind, flags, node, once, touched>>

(* talosctl upgrades Kubernetes, all of it or, failing, part; a dry run is *)
(* its plan.                                                               *)
UpgradeK8s ==
  /\ pc = "stream"
  /\ \/ /\ kubelet' = IF Has("dry-run") THEN kubelet ELSE [n \in Nodes |-> "want"]
        /\ Finish(SetChanged("yes"), TRUE)
     \/ /\ \E S \in SUBSET Nodes :
             /\ Has("dry-run") => S = {}
             /\ kubelet' = [n \in Nodes |-> IF n \in S THEN "want" ELSE kubelet[n]]
        /\ Finish(rec, FALSE)
  /\ touched' = IF Has("dry-run") THEN {} ELSE Nodes
  /\ UNCHANGED <<answering, talos, faults, disk, saver, recording, kind, flags, node, once>>

-----------------------------------------------------------------------------
(* The snapshot is done, and the node that took it goes on with the rest.  *)
OnceDone ==
  /\ once = "running"
  /\ saver["run"].pc \in {"saved", "failed"}
  /\ once' = "done"
  /\ UNCHANGED <<cluster, disk, saver, rec, recording, command, node, touched>>

Takes(s) ==
  /\ Saves(s)
  /\ UNCHANGED <<cluster, rec, recording, command, node, once, touched>>

(* Another talman saves one too, in the second this run's is named for.    *)
RivalStarts ==
  /\ saver["rival"].pc = "idle" /\ saver["run"].pc # "idle"
  /\ saver' = StartsSaving("rival")
  /\ UNCHANGED <<cluster, disk, rec, recording, command, node, once, touched>>

(* The run reports and is gone, or is killed and reports nothing. *)
Leaves ==
  /\ \/ pc = "report" /\ Report
     \/ pc # "idle" /\ NoReport
  /\ kind' = "upgrade"
  /\ flags' = {}
  /\ pc' = "idle"
  /\ rest' = <<>>
  /\ node' = [n \in Nodes |-> "waits"]
  /\ once' = "new"
  /\ touched' = {}
  /\ rec' = NewRun(NoGroup)
  /\ saver' = Idle("run")
  /\ UNCHANGED <<cluster, disk>>

(* A node falls silent, or answers again. *)
Silent(n) ==
  /\ n \in answering
  /\ faults < MaxFaults
  /\ faults' = faults + 1
  /\ answering' = answering \ {n}

BackAgain(n) ==
  /\ n \notin answering
  /\ answering' = answering \cup {n}
  /\ UNCHANGED faults

ClusterStep ==
  /\ \E n \in Nodes : Silent(n) \/ BackAgain(n)
  /\ UNCHANGED <<talos, kubelet, disk, saver, rec, recording, command, node, once, touched>>

OneNode(n) == pc = "batch" /\ (Ask(n) \/ Snap(n) \/ Send(n))

Next ==
  \/ \E f \in RunFlags : BeginUpgrade(f) \/ BeginK8s(f)
  \/ RefuseDowngrades \/ StartBatch \/ BatchDone
  \/ \E n \in Nodes : OneNode(n)
  \/ Current \/ SnapshotTaken \/ UpgradeK8s
  \/ OnceDone \/ RivalStarts \/ Leaves \/ ClusterStep
  \/ \E s \in Savers : Takes(s)

Spec == Init /\ [][Next]_vars

-----------------------------------------------------------------------------

(* With --snapshot no node is upgraded before this run's own snapshot is   *)
(* saved and still there, whichever goroutine took it and whatever another *)
(* talman saves meanwhile; once saved, no snapshot is replaced.            *)
SnapshotFirst ==
  [][/\ touched' \ touched # {} /\ Has("snapshot") /\ ~Has("dry-run") => Saved("run")
     /\ \A i \in Names : disk[i] # Nobody => disk'[i] = disk[i]]_vars

(* However the run ends, its metrics are true: a node reported unchanged   *)
(* or not reached was sent nothing, a changed one was, a run that says     *)
(* nothing changed sent nothing, one that succeeded failed on none; and    *)
(* the last success in either place is the last run's that reported one.   *)
ReportsAreTrue ==
  /\ pc = "report" =>
       /\ \A n \in rec.planned :
            /\ Result(n) \in {"unchanged", "not_reached"} => n \notin touched
            /\ Result(n) = "changed" => Has("dry-run") \/ (n \in touched /\ talos[n] = "want")
            /\ rec.success => Result(n) \in {"changed", "unchanged"}
       /\ RunChanged = "no" => touched = {}
       /\ RunChanged = "yes" => Has("dry-run") \/ touched # {}
  /\ LastSuccessTrue
=============================================================================
