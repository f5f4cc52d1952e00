--------------------------- MODULE UpgradeProofs ---------------------------
(***************************************************************************)
(* For any nodes, batches, versions and flags, and another talman beside:  *)
(* --snapshot's snapshot comes first, and none is replaced; and what the   *)
(* run reports of its nodes, of the whole and of its last success is true. *)
(***************************************************************************)
EXTENDS Upgrade, TLAPS

USE DEF Doing

(* What the argument needs of the types. *)
Typed ==
  /\ SaverTypeOK
  /\ node \in [Nodes -> Doing]

Run == saver["run"]

(* A node is sent its upgrade, or the cluster its own, only once the run's *)
(* snapshot is saved; the snapshot a saver says it saved is there.         *)
InTurn ==
  /\ pc \in {"idle", "check", "current"} => once = "new" /\ \A n \in Nodes : node[n] = "waits"
  /\ once = "done" => pc \in {"idle", "report"} \/ Run.pc \in {"saved", "failed"}
  /\ pc = "batch" /\ Has("snapshot") =>
       \A n \in Nodes : node[n] = "sends" => once = "done" /\ Run.pc = "saved"
  /\ pc = "stream" /\ Has("snapshot") /\ ~Has("dry-run") => Run.pc = "saved"
  /\ \A s \in Savers : saver[s].pc = "saved" => disk[saver[s].name] = s

LEMMA SaversThere == "run" \in Savers /\ "rival" \in Savers /\ Nobody \notin Savers
  BY UpgradeAssumption, SnapshotAssumption

(* A saver's own step: it moves on, and takes no name that is taken. *)
LEMMA SavesSteps ==
  ASSUME SaverTypeOK, NEW s \in Savers, Saves(s)
  PROVE  /\ SaverTypeOK'
         /\ \A i \in Names : disk[i] # Nobody => disk'[i] = disk[i]
         /\ \A t \in Savers \ {s} : saver'[t] = saver[t]
         /\ saver[s].pc \in {"pick", "stream", "link"}
         /\ saver'[s].pc = "saved" => disk'[saver'[s].name] = s
<1>1. CASE PickName(s)
  <2>1. CASE Step(s, "failed")
    BY <1>1, <2>1 DEF PickName, Step, SaverTypeOK
  <2>2. CASE \E i \in Names : saver' = [saver EXCEPT ![s] = [pc |-> "stream", name |-> i]]
    BY <1>1, <2>2 DEF PickName, SaverTypeOK
  <2> QED
    BY <1>1, <2>1, <2>2 DEF PickName
<1>2. CASE Stream(s)
  BY <1>2 DEF Stream, Step, SaverTypeOK
<1>3. CASE Link(s)
  BY <1>3, SaversThere DEF Link, Step, SaverTypeOK
<1> QED
  BY <1>1, <1>2, <1>3 DEF Saves

LEMMA InitInTurn == Init => Typed /\ InTurn
  BY SaversThere, SnapshotAssumption DEF Init, SaverInit, Names, Typed, SaverTypeOK, InTurn, Run

LEMMA NextInTurn ==
  ASSUME Typed, InTurn, [Next]_vars
  PROVE  Typed' /\ InTurn'
<1> USE SaversThere DEF Typed
<1>1. ASSUME UNCHANGED <<disk, saver, node, once>>, flags' = flags \/ pc' \in {"idle", "check", "report"},
             pc' \in {"idle", "check", "current"} => pc \in {"idle", "check", "current"},
             pc' = "batch" => pc \in {"batch", "check"},
             pc' = "stream" => pc = "stream" \/ (pc = "snapshot" /\ Run.pc = "saved") \/ (pc = "current" /\ (Has("snapshot") => Has("dry-run"))),
             pc' # "report" => pc # "report"
      PROVE  Typed' /\ InTurn'
  <2>1. Typed'
    BY <1>1 DEF SaverTypeOK
  <2>2. flags' = flags => (Has("snapshot") <=> Has("snapshot")') /\ (Has("dry-run") <=> Has("dry-run")')
    BY DEF Has
  <2>3. Run' = Run
    BY <1>1 DEF Run
  <2>4. pc' \in {"idle", "check", "current"} => once' = "new" /\ \A n \in Nodes : node'[n] = "waits"
    BY <1>1 DEF InTurn
  <2>5. once' = "done" => pc' \in {"idle", "report"} \/ Run'.pc \in {"saved", "failed"}
    BY <1>1, <2>3 DEF InTurn
  <2>6. pc' = "batch" /\ Has("snapshot")' => \A n \in Nodes : node'[n] = "sends" => once' = "done" /\ Run'.pc = "saved"
    BY <1>1, <2>2, <2>3 DEF InTurn
  <2>7. pc' = "stream" /\ Has("snapshot")' /\ ~Has("dry-run")' => Run'.pc = "saved"
    BY <1>1, <2>2, <2>3 DEF InTurn
  <2>8. \A s \in Savers : saver'[s].pc = "saved" => disk'[saver'[s].name] = s
    BY <1>1 DEF InTurn
  <2> QED
    BY <2>1, <2>4, <2>5, <2>6, <2>7, <2>8 DEF InTurn
<1>2. ASSUME NEW f \in RunFlags, BeginUpgrade(f) \/ BeginK8s(f)
      PROVE  Typed' /\ InTurn'
  <2>1. pc = "idle" /\ pc' \in {"check", "report"} /\ UNCHANGED <<disk, saver, node, once>>
    BY <1>2 DEF BeginUpgrade, BeginK8s, Begin, Finish
  <2> QED
    BY <1>1, <2>1
<1>3. CASE RefuseDowngrades \/ BatchDone \/ SnapshotTaken \/ UpgradeK8s \/ ClusterStep \/ UNCHANGED vars
  <2>1. /\ UNCHANGED <<disk, saver, node, once, flags>>
        /\ \/ pc' = pc \/ pc' = "report"
           \/ pc = "check" /\ pc' \in {"batch", "current"}
           \/ pc = "snapshot" /\ Run.pc = "saved" /\ pc' = "stream"
    BY <1>3 DEF RefuseDowngrades, BatchDone, SnapshotTaken, UpgradeK8s, ClusterStep, Finish, Run, vars, command
  <2> QED
    BY <1>1, <2>1
<1>4. CASE StartBatch
  BY <1>4 DEF StartBatch, command, Has, InTurn, Run, SaverTypeOK
<1>5. ASSUME NEW n \in Nodes, OneNode(n)
      PROVE  Typed' /\ InTurn'
  <2>1. /\ pc = "batch" /\ pc' = "batch" /\ UNCHANGED <<flags, disk>>
        /\ (Has("snapshot") <=> Has("snapshot")')
    BY <1>5 DEF OneNode, Ask, Snap, Send, command, Has
  <2>2. ASSUME NEW x \in Doing, node' = [node EXCEPT ![n] = x],
               UNCHANGED <<once, saver>>,
               x = "sends" /\ Has("snapshot") => once = "done" /\ Run.pc = "saved"
        PROVE  Typed' /\ InTurn'
    BY <2>1, <2>2 DEF InTurn, Run, SaverTypeOK
  <2>3. CASE Ask(n)
    <3>1. CASE Ends(n, "unknown", "failed") \/ Ends(n, "no", "ok") \/ Ends(n, "yes", "ok")
      BY <2>2, <2>3, <3>1 DEF Ask, Ends, Goes
    <3>2. CASE Goes(n, "snapshots")
      BY <2>2, <2>3, <3>2 DEF Ask, Goes
    <3> QED
      BY <2>3, <3>1, <3>2 DEF Ask
  <2>4. CASE Snap(n)
    <3>1. CASE ~Has("snapshot") /\ Goes(n, "sends") /\ UNCHANGED <<saver, once>>
      BY <2>2, <3>1 DEF Goes
    <3>2. CASE once = "new" /\ once' = "running" /\ saver' = StartsSaving("run") /\ Goes(n, "takes")
      <4>1. Typed' /\ \A m \in Nodes : node'[m] = "sends" => node[m] = "sends"
        BY <3>2, <2>1 DEF StartsSaving, SaverTypeOK, Goes
      <4>2. \A s \in Savers : saver'[s].pc = "saved" => saver'[s] = saver[s]
        BY <3>2 DEF StartsSaving, SaverTypeOK
      <4> QED
        BY <2>1, <3>2, <4>1, <4>2 DEF InTurn
    <3>3. CASE once = "done" /\ SnapErr(n) /\ Ends(n, "unknown", "failed") /\ UNCHANGED <<saver, once>>
      BY <2>2, <3>3 DEF Ends, Goes
    <3>4. CASE once = "done" /\ ~SnapErr(n) /\ Goes(n, "sends") /\ UNCHANGED <<saver, once>>
      <4>1. Run.pc = "saved"
        BY <2>1, <3>4 DEF InTurn, SnapErr, Run
      <4> QED
        BY <2>2, <3>4, <4>1 DEF Goes
    <3> QED
      BY <2>4, <3>1, <3>2, <3>3, <3>4 DEF Snap
  <2>5. CASE Send(n)
    BY <2>2, <2>5 DEF Send, Ends, Goes
  <2> QED
    BY <1>5, <2>3, <2>4, <2>5 DEF OneNode
<1>6. CASE Current
  <2>1. CASE saver' = StartsSaving("run") /\ pc' = "snapshot"
    <3>1. UNCHANGED <<disk, node, once>> /\ once = "new"
      BY <1>6 DEF Current, InTurn
    <3>2. \A s \in Savers : saver'[s].pc = "saved" => saver'[s] = saver[s]
      BY <2>1 DEF StartsSaving, SaverTypeOK
    <3>3. Typed'
      BY <2>1, <3>1 DEF StartsSaving, SaverTypeOK
    <3> QED
      BY <2>1, <3>1, <3>2, <3>3 DEF InTurn
  <2>2. CASE ~(saver' = StartsSaving("run") /\ pc' = "snapshot")
    <3>1. /\ UNCHANGED <<disk, saver, node, once, flags>> /\ pc = "current"
          /\ pc' = "report" \/ (pc' = "stream" /\ (Has("snapshot") => Has("dry-run")))
      BY <1>6, <2>2 DEF Current, Finish
    <3> QED
      BY <1>1, <3>1
  <2> QED
    BY <2>1, <2>2
<1>7. CASE OnceDone
  BY <1>7 DEF OnceDone, command, InTurn, Run, Has, SaverTypeOK
<1>8. ASSUME NEW s \in Savers, Typed', UNCHANGED <<node, once, pc, flags>>,
             s = "run" => Run.pc \in {"pick", "stream", "link"},
             \A t \in Savers \ {s} : saver'[t] = saver[t],
             \A t \in Savers \ {s} : saver[t].pc = "saved" => disk'[saver[t].name] = t,
             saver'[s].pc = "saved" => disk'[saver'[s].name] = s
      PROVE  InTurn'
  <2>1. (Has("snapshot") <=> Has("snapshot")') /\ (Has("dry-run") <=> Has("dry-run")')
    BY <1>8 DEF Has
  <2>2. Run.pc \in {"saved", "failed"} => Run' = Run
    BY <1>8 DEF Run
  <2> QED
    BY <1>8, <2>1, <2>2 DEF InTurn
<1>9. ASSUME NEW s \in Savers, Takes(s)
      PROVE  Typed' /\ InTurn'
  <2>1. /\ SaverTypeOK'
        /\ \A i \in Names : disk[i] # Nobody => disk'[i] = disk[i]
        /\ \A t \in Savers \ {s} : saver'[t] = saver[t]
        /\ saver[s].pc \in {"pick", "stream", "link"}
        /\ saver'[s].pc = "saved" => disk'[saver'[s].name] = s
    BY <1>9, SavesSteps DEF Takes
  <2>2. UNCHANGED <<node, once, pc, flags>>
    BY <1>9 DEF Takes, command
  <2>3. ASSUME NEW t \in Savers \ {s}, saver[t].pc = "saved"
        PROVE  disk'[saver[t].name] = t
    <3>1. disk[saver[t].name] = t /\ saver[t].name \in Names
      BY <2>3 DEF InTurn, SaverTypeOK
    <3> QED
      BY <2>1, <3>1
  <2>4. Typed'
    BY <2>1, <2>2
  <2> QED
    BY <1>8, <2>1, <2>2, <2>3, <2>4 DEF Run
<1>10. CASE RivalStarts
  <2>1. /\ UNCHANGED <<node, once, pc, flags, disk>>
        /\ saver' = StartsSaving("rival")
    BY <1>10 DEF RivalStarts, command
  <2>2. Typed'
    BY <2>1 DEF StartsSaving, SaverTypeOK
  <2>3. /\ \A t \in Savers \ {"rival"} : saver'[t] = saver[t]
        /\ saver'["rival"].pc = "pick"
    BY <2>1 DEF StartsSaving, SaverTypeOK
  <2> QED
    BY <1>8, <2>1, <2>2, <2>3 DEF InTurn
<1>11. CASE Leaves
  <2>1. /\ pc' = "idle" /\ once' = "new" /\ node' = [n \in Nodes |-> "waits"]
        /\ saver' = [saver EXCEPT !["run"] = [pc |-> "idle", name |-> 1]] /\ UNCHANGED disk
    BY <1>11 DEF Leaves, Idle
  <2>2. 1 \in Names
    BY SnapshotAssumption DEF Names
  <2>3. Typed' /\ \A s \in Savers : saver'[s].pc = "saved" => saver'[s] = saver[s]
    BY <2>1, <2>2 DEF SaverTypeOK
  <2> QED
    BY <2>1, <2>3 DEF InTurn
<1> QED
  BY <1>2, <1>3, <1>4, <1>5, <1>6, <1>7, <1>9, <1>10, <1>11 DEF Next

(* upgradeOne's sync.Once and upgrade-k8s both save the snapshot before    *)
(* anything is sent, every goroutine that waited for it hears how it went, *)
(* and the link that saves it refuses a name another talman has taken.     *)
THEOREM SnapshotsFirst == Spec => SnapshotFirst
<1>1. ASSUME Typed, InTurn, [Next]_vars
      PROVE  [/\ touched' \ touched # {} /\ Has("snapshot") /\ ~Has("dry-run") => Saved("run")
              /\ \A i \in Names : disk[i] # Nobody => disk'[i] = disk[i]]_vars
  <2> SUFFICES ASSUME Next
               PROVE  /\ touched' \ touched # {} /\ Has("snapshot") /\ ~Has("dry-run") => Saved("run")
                      /\ \A i \in Names : disk[i] # Nobody => disk'[i] = disk[i]
    BY <1>1
  <2>1. ASSUME Run.pc = "saved"
        PROVE  Saved("run")
    BY <1>1, <2>1, SaversThere DEF InTurn, Run, Saved
  <2>2. ASSUME NEW n \in Nodes, pc = "batch", Send(n), Has("snapshot")
        PROVE  Saved("run") /\ UNCHANGED disk
    BY <1>1, <2>1, <2>2 DEF Send, InTurn
  <2>3. CASE UpgradeK8s
    BY <1>1, <2>1, <2>3 DEF UpgradeK8s, InTurn
  <2>4. ASSUME NEW s \in Savers, Takes(s)
        PROVE  UNCHANGED touched /\ \A i \in Names : disk[i] # Nobody => disk'[i] = disk[i]
    BY <1>1, <2>4, SavesSteps DEF Takes, Typed
  <2>5. CASE UNCHANGED disk /\ touched' \subseteq touched
    BY <2>5
  <2>6. ASSUME NEW n \in Nodes, OneNode(n)
        PROVE  UNCHANGED disk /\ ((Send(n) /\ pc = "batch") \/ UNCHANGED touched)
    BY <2>6 DEF OneNode, Ask, Snap, Send
  <2>7. CASE \/ \E f \in RunFlags : BeginUpgrade(f) \/ BeginK8s(f)
             \/ RefuseDowngrades \/ StartBatch \/ BatchDone \/ Current \/ SnapshotTaken
             \/ OnceDone \/ RivalStarts \/ Leaves \/ ClusterStep
    BY <2>5, <2>7 DEF BeginUpgrade, BeginK8s, Begin, RefuseDowngrades, StartBatch, BatchDone, Current, SnapshotTaken,
         OnceDone, RivalStarts, Leaves, ClusterStep
  <2> QED
    BY <2>2, <2>3, <2>4, <2>5, <2>6, <2>7 DEF Next
<1> QED
  BY <1>1, InitInTurn, NextInTurn, PTL DEF Spec, SnapshotFirst

-----------------------------------------------------------------------------
(* Types.                                                                  *)

(* What the types of a run rest on: the record has its group, and room for *)
(* its report, from the start; `upgrade` has batches left to work on.      *)
UnderWay ==
  /\ pc # "idle" => rec.group \in Groups /\ Len(reports) < MaxRuns
  /\ pc \in {"check", "batch"} /\ kind = "upgrade" => rest # <<>>
  /\ pc = "batch" => kind = "upgrade"
  /\ pc \in {"current", "snapshot", "stream"} => kind = "upgrade-k8s"

Sound == TypeOK /\ UnderWay

LEMMA NewRunTyped ==
  ASSUME NEW g \in Groups \cup {NoGroup}
  PROVE  NewRun(g) \in Recorded /\ NewRun(g).group = g
  BY DEF NewRun, Recorded, Answers

LEMMA PlansNodes ==
  ASSUME NEW r \in Recorded
  PROVE  /\ [r EXCEPT !.planned = Nodes] \in Recorded
         /\ [r EXCEPT !.planned = Nodes].group = r.group
  BY DEF Recorded

(* A batch but the last leaves others to go. *)
LEMMA BatchesLeft ==
  ASSUME rest \in Seq(SUBSET Nodes), rest # <<>>, Len(rest) # 1
  PROVE  Tail(rest) \in Seq(SUBSET Nodes) /\ Tail(rest) # <<>>
<1>1. Len(rest) \in Nat /\ Len(rest) # 0
  OBVIOUS
<1>2. Tail(rest) \in Seq(SUBSET Nodes) /\ Len(Tail(rest)) = Len(rest) - 1
  OBVIOUS
<1>3. Len(Tail(rest)) # 0 /\ Len(<<>>) = 0
  BY <1>1, <1>2
<1> QED
  BY <1>2, <1>3, Zenon

LEMMA LastLeavesNone ==
  ASSUME NEW batches \in Seq(SUBSET Nodes), Len(batches) = 1
  PROVE  \A i \in DOMAIN Tail(batches) : FALSE
<1>1. PICK left : left = Tail(batches)
  OBVIOUS
<1>2. left \in Seq(SUBSET Nodes) /\ Len(left) = 0
  BY <1>1
<1>3. DOMAIN left = 1 .. Len(left)
  BY <1>2
<1>4. \A i \in DOMAIN left : i >= 1 /\ i <= 0
  BY <1>2, <1>3
<1>5. \A i \in DOMAIN left : i \in Int
  BY <1>2, <1>3
<1> QED
  BY <1>1, <1>4, <1>5

(* A run that ends says how, and has nothing left to do. *)
LEMMA Finishes ==
  ASSUME NEW r \in Recorded, NEW ok \in BOOLEAN, Finish(r, ok)
  PROVE  /\ pc' = "report" /\ rest' = <<>> /\ rest' \in Seq(SUBSET Nodes)
         /\ rec' \in Recorded
         /\ rec'.group = r.group /\ rec'.planned = r.planned /\ rec'.changed = r.changed
         /\ rec'.ended = r.ended /\ rec'.run = r.run /\ rec'.success = ok
  BY DEF Finish, Recorded

LEMMA SetsChanged ==
  ASSUME rec \in Recorded, NEW b \in Answers
  PROVE  /\ SetChanged(b) \in Recorded
         /\ SetChanged(b).group = rec.group /\ SetChanged(b).planned = rec.planned
         /\ SetChanged(b).changed = rec.changed /\ SetChanged(b).ended = rec.ended
         /\ SetChanged(b).run = b
  BY DEF SetChanged, Recorded

(* A goroutine's end writes its own node's result and no other's. *)
LEMMA NodeEndsOwn ==
  ASSUME rec \in Recorded, NEW n \in Nodes, NEW changed \in Answers, NEW how \in {"ok", "failed"},
         NEW r, r = NodeEnds(n, changed, how)
  PROVE  /\ r \in Recorded
         /\ r.group = rec.group /\ r.planned = rec.planned
         /\ r.run = rec.run /\ r.success = rec.success
         /\ r.ended[n] = how /\ r.changed[n] = changed
         /\ \A m \in Nodes \ {n} : r.ended[m] = rec.ended[m] /\ r.changed[m] = rec.changed[m]
  BY DEF NodeEnds, Recorded

(* What a goroutine's step comes to: it goes on, or ends with a result.    *)
GoesOn(n) ==
  /\ node[n] # "done" /\ node'[n] # "done"
  /\ UNCHANGED <<rec, talos, touched>>

EndsWith(n) ==
  /\ node[n] # "done" /\ node'[n] = "done"
  /\ \/ rec'.ended[n] = "failed"
     \/ rec'.ended[n] = "ok" /\ rec'.changed[n] = "no" /\ n \notin touched' \ touched
     \/ /\ rec'.ended[n] = "ok" /\ rec'.changed[n] = "yes"
        /\ Has("dry-run") \/ (n \in touched' /\ talos'[n] = "want")

LEMMA NodeSteps ==
  ASSUME Sound, NEW n \in Nodes, OneNode(n)
  PROVE  /\ pc = "batch" /\ UNCHANGED <<answering, kubelet, faults, recording, command>>
         /\ talos' \in [Nodes -> Versions] /\ touched' \subseteq Nodes
         /\ once' \in {"new", "running", "done"}
         /\ rec' \in Recorded
         /\ rec'.group = rec.group /\ rec'.planned = rec.planned
         /\ rec'.run = rec.run /\ rec'.success = rec.success
         /\ \A m \in Nodes \ {n} :
              /\ rec'.ended[m] = rec.ended[m] /\ rec'.changed[m] = rec.changed[m]
              /\ node'[m] = node[m] /\ talos'[m] = talos[m]
              /\ m \in touched' <=> m \in touched
         /\ GoesOn(n) \/ EndsWith(n)
<1> DEFINE Others == \A m \in Nodes \ {n} :
              /\ rec'.ended[m] = rec.ended[m] /\ rec'.changed[m] = rec.changed[m]
              /\ node'[m] = node[m] /\ talos'[m] = talos[m]
              /\ m \in touched' <=> m \in touched
           Same == /\ rec' \in Recorded
                   /\ rec'.group = rec.group /\ rec'.planned = rec.planned
                   /\ rec'.run = rec.run /\ rec'.success = rec.success
<1>1. /\ pc = "batch" /\ UNCHANGED <<answering, kubelet, faults, recording, command>>
      /\ node \in [Nodes -> Doing] /\ node[n] \in {"asks", "snapshots", "takes", "sends"}
      /\ talos \in [Nodes -> Versions] /\ touched \subseteq Nodes /\ rec \in Recorded
      /\ once' \in {"new", "running", "done"}
  BY DEF OneNode, Ask, Snap, Send, cluster, Sound, TypeOK, RecordTypeOK
<1>2. ASSUME NEW where \in Doing \ {"done"}, Goes(n, where), UNCHANGED <<rec, talos, touched>>
      PROVE  Same /\ Others /\ GoesOn(n)
  BY <1>1, <1>2 DEF Goes, GoesOn
<1>3. ASSUME NEW changed \in Answers, NEW how \in {"ok", "failed"}, Ends(n, changed, how),
             talos' \in {talos, [talos EXCEPT ![n] = "want"]}, touched' \in {touched, touched \cup {n}}
      PROVE  Same /\ Others /\ node'[n] = "done" /\ rec'.ended[n] = how /\ rec'.changed[n] = changed
  <2>1. rec' = NodeEnds(n, changed, how) /\ node' = [node EXCEPT ![n] = "done"]
    BY <1>3 DEF Ends, Goes
  <2>2. Same /\ rec'.ended[n] = how /\ rec'.changed[n] = changed
        /\ \A m \in Nodes \ {n} : rec'.ended[m] = rec.ended[m] /\ rec'.changed[m] = rec.changed[m]
    BY <1>1, <2>1, NodeEndsOwn
  <2> QED
    BY <1>1, <1>3, <2>1, <2>2
<1> USE DEF Answers
<1>4. CASE Ask(n)
  <2>1. UNCHANGED <<talos, touched>>
    BY <1>4 DEF Ask, cluster
  <2>2. CASE Goes(n, "snapshots") /\ UNCHANGED rec
    BY <1>1, <1>2, <2>1, <2>2
  <2>3. CASE Ends(n, "unknown", "failed")
    BY <1>1, <1>3, <2>1, <2>3 DEF EndsWith
  <2>4. CASE Ends(n, "no", "ok")
    BY <1>1, <1>3, <2>1, <2>4 DEF EndsWith
  <2>5. CASE Ends(n, "yes", "ok") /\ Has("dry-run")
    BY <1>1, <1>3, <2>1, <2>5 DEF EndsWith
  <2> QED
    BY <1>4, <2>2, <2>3, <2>4, <2>5 DEF Ask
<1>5. CASE Snap(n)
  <2>1. UNCHANGED <<talos, touched>>
    BY <1>5 DEF Snap, cluster
  <2>2. CASE Goes(n, "sends") /\ UNCHANGED rec
    BY <1>1, <1>2, <2>1, <2>2
  <2>3. CASE Goes(n, "takes") /\ UNCHANGED rec
    BY <1>1, <1>2, <2>1, <2>3
  <2>4. CASE Ends(n, "unknown", "failed")
    BY <1>1, <1>3, <2>1, <2>4 DEF EndsWith
  <2> QED
    BY <1>5, <2>2, <2>3, <2>4 DEF Snap
<1>6. CASE Send(n)
  <2>1. touched' = touched \cup {n}
    BY <1>6 DEF Send
  <2>2. CASE talos' = [talos EXCEPT ![n] = "want"] /\ Ends(n, "yes", "ok")
    <3>1. talos' \in [Nodes -> Versions] /\ talos'[n] = "want"
      BY <1>1, <2>2 DEF Versions
    <3> QED
      BY <1>1, <1>3, <2>1, <2>2, <3>1 DEF EndsWith
  <2>3. CASE talos' \in {talos, [talos EXCEPT ![n] = "want"]} /\ Ends(n, "unknown", "failed")
    <3>1. talos' \in [Nodes -> Versions]
      BY <1>1, <2>3 DEF Versions
    <3> QED
      BY <1>1, <1>3, <2>1, <2>3, <3>1 DEF EndsWith
  <2> QED
    BY <1>6, <2>2, <2>3 DEF Send
<1> QED
  BY <1>1, <1>4, <1>5, <1>6 DEF OneNode

(* What a run reports fits the bound on runs, and is of its own group.     *)
LEMMA LeavesTyped ==
  ASSUME Sound, Leaves
  PROVE  /\ file' \in [group : Groups \cup {NoGroup}, last : 0 .. MaxRuns]
         /\ endpoint' \in [Groups -> 0 .. MaxRuns]
         /\ reports' \in Seq([group : Groups, ok : BOOLEAN, written : BOOLEAN, pushed : BOOLEAN])
<1>1. /\ rec \in Recorded /\ rec.group \in Groups
      /\ file \in [group : Groups \cup {NoGroup}, last : 0 .. MaxRuns]
      /\ endpoint \in [Groups -> 0 .. MaxRuns]
      /\ reports \in Seq([group : Groups, ok : BOOLEAN, written : BOOLEAN, pushed : BOOLEAN])
      /\ Now \in 0 .. MaxRuns
  BY UpgradeAssumption DEF Leaves, Sound, UnderWay, TypeOK, RecordTypeOK, Now
<1>2. rec.success \in BOOLEAN
  BY <1>1 DEF Recorded
<1>3. Written \in [group : Groups \cup {NoGroup}, last : 0 .. MaxRuns]
  <2>1. Written.last \in 0 .. MaxRuns
    BY <1>1, <1>2, UpgradeAssumption DEF Written
  <2> QED
    BY <1>1, <2>1 DEF Written
<1>4. Pushed \in [Groups -> 0 .. MaxRuns]
  BY <1>1, <1>2 DEF Pushed
<1>5. ASSUME NEW ok \in BOOLEAN, NEW written \in BOOLEAN, NEW pushed \in BOOLEAN,
             Ended(ok, written, pushed)
      PROVE  reports' \in Seq([group : Groups, ok : BOOLEAN, written : BOOLEAN, pushed : BOOLEAN])
  BY <1>1, <1>5 DEF Ended
<1>6. CASE Report
  BY <1>1, <1>2, <1>3, <1>4, <1>5, <1>6 DEF Report
<1>7. CASE NoReport
  BY <1>1, <1>5, <1>7 DEF NoReport
<1> QED
  BY <1>6, <1>7 DEF Leaves

LEMMA InitSound == Init => Sound
<1> SUFFICES ASSUME Init PROVE Sound
  OBVIOUS
<1>1. /\ rec \in Recorded /\ "upgrade" \in Kinds
      /\ talos \in [Nodes -> Versions] /\ kubelet \in [Nodes -> Versions]
      /\ {} \in RunFlags /\ 0 \in 0 .. MaxFaults /\ 0 \in 0 .. MaxRuns /\ 1 \in 0 .. MaxRuns
  BY NewRunTyped, UpgradeAssumption DEF Init, RecordInit, Versions, Kinds
<1>2. RecordTypeOK
  <2>1. PICK g \in Groups, ok \in BOOLEAN, arrived \in BOOLEAN :
          /\ reports = <<[group |-> g, ok |-> ok, written |-> arrived, pushed |-> arrived]>>
          /\ file = [group |-> IF arrived THEN g ELSE NoGroup, last |-> IF arrived /\ ok THEN 1 ELSE 0]
          /\ endpoint = [h \in Groups |-> IF arrived /\ ok /\ h = g THEN 1 ELSE 0]
    BY DEF Init, RecordInit
  <2> QED
    BY <1>1, <2>1 DEF RecordTypeOK
<1> QED
  BY <1>1, <1>2, InitInTurn DEF Init, Sound, UnderWay, TypeOK, Typed

LEMMA NextSound ==
  ASSUME Sound, Typed', [Next]_vars
  PROVE  Sound'
<1> DEFINE RecordKept == UNCHANGED <<file, endpoint, reports>>
<1>1. rec \in Recorded /\ rest \in Seq(SUBSET Nodes) /\ Typed'
  BY DEF Sound, TypeOK, RecordTypeOK
<1> USE DEF Sound, TypeOK, RecordTypeOK, Typed, recording, cluster, command
<1>2. ASSUME NEW f \in RunFlags, BeginUpgrade(f) \/ BeginK8s(f)
      PROVE  Sound'
  <2> DEFINE k == IF BeginUpgrade(f) THEN "upgrade" ELSE "upgrade-k8s"
             g == <<k, "dry-run" \in f>>
             new == NewRun(g)
  <2>1. k \in Kinds /\ g \in Groups
    <3>1. k \in Kinds
      BY DEF Kinds
    <3>2. ("dry-run" \in f) \in BOOLEAN
      OBVIOUS
    <3> QED
      BY <3>1, <3>2, UpgradeAssumption, Zenon
  <2> HIDE DEF g
  <2>2. new \in Recorded /\ new.group \in Groups
    BY <2>1, NewRunTyped
  <2>3. [new EXCEPT !.planned = Nodes] \in Recorded /\ [new EXCEPT !.planned = Nodes].group \in Groups
    BY <2>2, PlansNodes
  <2>4. /\ pc = "idle" /\ Len(reports) < MaxRuns /\ kind' = k /\ flags' = f
        /\ UNCHANGED <<cluster, disk, saver, recording, node, once, touched>>
    BY <1>2 DEF BeginUpgrade, BeginK8s, Begin
  <2>5. CASE Finish(new, FALSE)
    BY <1>1, <2>1, <2>2, <2>4, <2>5, Finishes DEF UnderWay
  <2>6. CASE rec' = [new EXCEPT !.planned = Nodes] /\ pc' = "check" /\ rest' \in Layouts
    BY <1>1, <2>1, <2>4, <2>6, <2>3, UpgradeAssumption DEF UnderWay
  <2>7. CASE k = "upgrade-k8s" /\ rec' = new /\ pc' = "check" /\ rest' = <<>>
    BY <1>1, <2>1, <2>2, <2>4, <2>7 DEF UnderWay
  <2> QED
    BY <1>2, <2>5, <2>6, <2>7 DEF BeginUpgrade, BeginK8s, g
<1>3. CASE RefuseDowngrades
  <2>1. CASE Finish(rec, FALSE)
    BY <1>1, <1>3, <2>1, Finishes DEF RefuseDowngrades, UnderWay
  <2>2. CASE UNCHANGED <<rec, rest>> /\ pc' = IF kind = "upgrade" THEN "batch" ELSE "current"
    BY <1>1, <1>3, <2>2 DEF RefuseDowngrades, UnderWay, Kinds
  <2> QED
    BY <1>3, <2>1, <2>2 DEF RefuseDowngrades
<1>4. CASE StartBatch
  BY <1>1, <1>4 DEF StartBatch, UnderWay
<1>5. CASE BatchDone
  <2>1. CASE Finish(rec, FALSE) \/ Finish(rec, TRUE)
    BY <1>1, <1>5, <2>1, Finishes DEF BatchDone, UnderWay
  <2>2. CASE ~LastBatch /\ rest' = Tail(rest) /\ UNCHANGED <<rec, pc>>
    <3>1. rest # <<>> /\ Len(rest) # 1
      BY <1>5, <2>2 DEF BatchDone, LastBatch
    <3>2. Tail(rest) \in Seq(SUBSET Nodes) /\ Tail(rest) # <<>>
      BY <1>1, <3>1, BatchesLeft
    <3> QED
      BY <1>1, <1>5, <2>2, <3>2 DEF BatchDone, UnderWay
  <2> QED
    BY <1>5, <2>1, <2>2 DEF BatchDone
<1>6. ASSUME NEW n \in Nodes, OneNode(n) PROVE Sound'
  <2>1. /\ pc = "batch" /\ UNCHANGED <<answering, kubelet, faults, recording, command>>
        /\ talos' \in [Nodes -> Versions] /\ touched' \subseteq Nodes
        /\ once' \in {"new", "running", "done"}
        /\ rec' \in Recorded /\ rec'.group = rec.group
    BY <1>6, NodeSteps
  <2> QED
    BY <1>1, <2>1 DEF UnderWay
<1>7. CASE Current
  <2>1. CASE Finish(rec, FALSE) \/ Finish(SetChanged("no"), TRUE)
    BY <1>1, <1>7, <2>1, Finishes, SetsChanged DEF Current, UnderWay, Answers
  <2>2. CASE pc' \in {"snapshot", "stream"} /\ UNCHANGED <<rec, rest>>
    BY <1>1, <1>7, <2>2 DEF Current, UnderWay
  <2> QED
    BY <1>7, <2>1, <2>2 DEF Current
<1>8. CASE SnapshotTaken
  <2>1. CASE Finish(rec, FALSE)
    BY <1>1, <1>8, <2>1, Finishes DEF SnapshotTaken, UnderWay
  <2>2. CASE pc' = "stream" /\ UNCHANGED <<rec, rest>>
    BY <1>1, <1>8, <2>2 DEF SnapshotTaken, UnderWay
  <2> QED
    BY <1>8, <2>1, <2>2 DEF SnapshotTaken
<1>9. CASE UpgradeK8s
  <2>1. kubelet' \in [Nodes -> Versions] /\ touched' \subseteq Nodes
    BY <1>9 DEF UpgradeK8s, Versions
  <2>2. Finish(rec, FALSE) \/ Finish(SetChanged("yes"), TRUE)
    BY <1>9 DEF UpgradeK8s
  <2> QED
    BY <1>1, <1>9, <2>1, <2>2, Finishes, SetsChanged DEF UpgradeK8s, UnderWay, Answers
<1>10. CASE OnceDone
  BY <1>1, <1>10 DEF OnceDone, UnderWay
<1>11. CASE RivalStarts \/ (\E s \in Savers : Takes(s))
  BY <1>1, <1>11 DEF RivalStarts, Takes, UnderWay
<1>12. CASE Leaves
  <2>1. RecordTypeOK'
    BY <1>12, LeavesTyped, NewRunTyped DEF Leaves
  <2>2. "upgrade" \in Kinds /\ {} \in RunFlags
    BY UpgradeAssumption DEF Kinds
  <2> QED
    BY <1>1, <1>12, <2>1, <2>2 DEF Leaves, UnderWay
<1>13. CASE ClusterStep
  <2>1. answering' \subseteq Nodes /\ faults' \in 0 .. MaxFaults
    BY <1>13, UpgradeAssumption DEF ClusterStep, Silent, BackAgain
  <2> QED
    BY <1>1, <1>13, <2>1 DEF ClusterStep, UnderWay
<1>14. CASE UNCHANGED vars
  BY <1>1, <1>14 DEF vars, UnderWay
<1> QED
  BY <1>2, <1>3, <1>4, <1>5, <1>6, <1>7, <1>8, <1>9, <1>10, <1>11, <1>12, <1>13, <1>14 DEF Next

(* Type correctness of upgrade and upgrade-k8s: a batch is under way as    *)
(* long as nodes are worked on, and a run has reported no more than there  *)
(* are runs, of the group its flags gave it.                               *)
THEOREM Typing == Spec => []TypeOK
<1>1. Init => Typed /\ InTurn /\ Sound
  BY InitInTurn, InitSound
<1>2. Typed /\ InTurn /\ Sound /\ [Next]_vars => (Typed /\ InTurn /\ Sound)'
  BY NextInTurn, NextSound
<1>3. Sound => TypeOK
  BY DEF Sound
<1> QED
  BY <1>1, <1>2, <1>3, PTL DEF Spec

-----------------------------------------------------------------------------
(* What a run reports of its nodes is true.                                *)

(* A node's result is written once its goroutine is done, and is true of   *)
(* what was sent to the node.                                              *)
NodeTrue(n) ==
  /\ node[n] = "done" <=> rec.ended[n] # "no"
  /\ rec.ended[n] = "no" => n \notin touched
  /\ rec.ended[n] = "ok" =>
       \/ rec.changed[n] = "no" /\ n \notin touched
       \/ rec.changed[n] = "yes" /\ (Has("dry-run") \/ (n \in touched /\ talos[n] = "want"))

(* An upgrade succeeds only past its last batch: what is in no batch still *)
(* to go has ended well.                                                   *)
UpgradeTrue ==
  kind = "upgrade" /\ pc # "idle" =>
    /\ \A n \in Nodes : NodeTrue(n)
    /\ rec.run = "unknown" /\ rec.planned \in {{}, Nodes}
    /\ rec.success => \A n \in Nodes : rec.ended[n] = "ok"
    /\ pc \in {"check", "batch"} =>
         \A n \in Nodes : rec.ended[n] = "ok" \/ \E i \in DOMAIN rest : n \in rest[i]

(* upgrade-k8s plans no node, and says of the whole whether it changed.    *)
K8sTrue ==
  kind = "upgrade-k8s" /\ pc # "idle" =>
    /\ rec.planned = {}
    /\ pc # "report" => touched = {} /\ Nodes # {} /\ rec.run = "unknown"
    /\ rec.run = "no" => touched = {}
    /\ rec.run = "yes" => Has("dry-run") \/ touched # {}

RunTrue ==
  /\ UpgradeTrue
  /\ K8sTrue
  /\ pc = "idle" => touched = {}

LEMMA InitRunTrue == Init => RunTrue
  BY DEF Init, RunTrue, UpgradeTrue, K8sTrue

(* A step of `upgrade` other than a node's: its nodes' results stay.       *)
LEMMA UpgradeStep ==
  ASSUME Sound, RunTrue, kind = "upgrade", pc # "idle", pc' # "idle",
         UNCHANGED <<kind, flags, talos, touched>>,
         \A n \in Nodes : node'[n] = "done" <=> node[n] = "done",
         rec'.ended = rec.ended, rec'.changed = rec.changed,
         rec'.planned = rec.planned, rec'.run = rec.run,
         rec'.success => rec.success \/ \A n \in Nodes : rec.ended[n] = "ok",
         pc' \in {"check", "batch"} =>
           /\ pc \in {"check", "batch"}
           /\ \A n \in Nodes : (\E i \in DOMAIN rest : n \in rest[i]) =>
                rec.ended[n] = "ok" \/ \E i \in DOMAIN rest' : n \in rest'[i]
  PROVE  RunTrue'
<1>1. \A n \in Nodes : NodeTrue(n)'
  BY DEF RunTrue, UpgradeTrue, NodeTrue, Has
<1> QED
  BY <1>1 DEF RunTrue, UpgradeTrue, K8sTrue

(* A batch that is done without a failure leaves only later batches to go. *)
LEMMA BatchEnds ==
  ASSUME Sound, RunTrue, BatchDone, ~(\E n \in Batch : rec.ended[n] = "failed")
  PROVE  \A n \in Nodes : (\E i \in DOMAIN rest : n \in rest[i]) =>
           rec.ended[n] = "ok" \/ \E i \in DOMAIN Tail(rest) : n \in Tail(rest)[i]
<1>1. /\ kind = "upgrade" /\ pc = "batch" /\ rest # <<>> /\ rest \in Seq(SUBSET Nodes)
      /\ rec \in Recorded
      /\ \A n \in Batch : node[n] = "done"
  BY DEF BatchDone, Sound, UnderWay, TypeOK, RecordTypeOK
<1>2. ASSUME NEW n \in Nodes, n \in Batch PROVE rec.ended[n] = "ok"
  BY <1>1, <1>2 DEF RunTrue, UpgradeTrue, NodeTrue, Recorded
<1>3. ASSUME NEW n \in Nodes, NEW i \in DOMAIN rest, n \in rest[i], n \notin Batch
      PROVE  \E j \in DOMAIN Tail(rest) : n \in Tail(rest)[j]
  <2>1. i \in 1 .. Len(rest) /\ i # 1
    BY <1>1, <1>3 DEF Batch
  <2>2. i - 1 \in DOMAIN Tail(rest) /\ Tail(rest)[i - 1] = rest[i]
    BY <1>1, <2>1
  <2> QED
    BY <1>3, <2>2
<1> QED
  BY <1>2, <1>3

LEMMA NextRunTrue ==
  ASSUME Sound, InTurn, RunTrue, [Next]_vars
  PROVE  RunTrue'
<1> USE DEF cluster, command, recording
<1>1. rec \in Recorded /\ kind \in Kinds /\ Kinds = {"upgrade", "upgrade-k8s"} /\ touched \subseteq Nodes
  BY DEF Sound, TypeOK, RecordTypeOK, Kinds
<1>2. ASSUME NEW f \in RunFlags, BeginUpgrade(f) PROVE RunTrue'
  <2> DEFINE new == NewRun(<<"upgrade", "dry-run" \in f>>)
  <2>1. /\ pc = "idle" /\ kind' = "upgrade" /\ UNCHANGED <<node, touched>> /\ pc' \in {"check", "report"}
        /\ \A n \in Nodes : node[n] = "waits"
        /\ touched = {}
    BY <1>2 DEF BeginUpgrade, Begin, Finish, InTurn, RunTrue
  <2>2. ASSUME rec'.ended = [n \in Nodes |-> "no"], rec'.run = "unknown", rec'.planned \in {{}, Nodes},
               ~rec'.success, pc' = "report" \/ rest' \in Layouts
        PROVE  RunTrue'
    <3>1. ASSUME NEW n \in Nodes, rest' \in Layouts PROVE \E i \in DOMAIN rest' : n \in rest'[i]
      BY <3>1, UpgradeAssumption
    <3>2. \A n \in Nodes : NodeTrue(n)'
      BY <2>1, <2>2 DEF NodeTrue
    <3> QED
      BY <2>1, <2>2, <3>1, <3>2 DEF RunTrue, UpgradeTrue, K8sTrue
  <2>3. CASE rec' = [new EXCEPT !.success = FALSE] /\ pc' = "report"
    BY <2>2, <2>3 DEF NewRun
  <2>4. CASE rec' = [new EXCEPT !.planned = Nodes] /\ rest' \in Layouts
    BY <2>2, <2>4 DEF NewRun
  <2> QED
    BY <1>2, <2>3, <2>4 DEF BeginUpgrade, Finish
<1>3. ASSUME NEW f \in RunFlags, BeginK8s(f) PROVE RunTrue'
  <2> DEFINE new == NewRun(<<"upgrade-k8s", "dry-run" \in f>>)
  <2>1. pc = "idle" /\ kind' = "upgrade-k8s" /\ UNCHANGED touched /\ touched = {} /\ pc' # "idle"
    BY <1>3 DEF BeginK8s, Begin, Finish, RunTrue
  <2>2. rec'.planned = {} /\ rec'.run = "unknown"
    BY <1>3 DEF BeginK8s, Finish, NewRun
  <2>3. pc' # "report" => Nodes # {}
    BY <1>3, UpgradeAssumption DEF BeginK8s, Finish
  <2> QED
    BY <2>1, <2>2, <2>3 DEF RunTrue, UpgradeTrue, K8sTrue
<1>4. ASSUME kind = "upgrade-k8s", pc # "idle", pc' # "idle", UNCHANGED <<kind, flags, touched>>,
             rec'.planned = rec.planned,
             \/ rec'.run = rec.run /\ (pc' # "report" => pc # "report")
             \/ rec'.run = "no" /\ pc # "report" /\ pc' = "report"
      PROVE  RunTrue'
  BY <1>4 DEF RunTrue, UpgradeTrue, K8sTrue, Has
<1>5. CASE RefuseDowngrades
  <2>1. /\ pc = "check" /\ pc' \in {"report", "batch", "current"}
        /\ UNCHANGED <<kind, flags, talos, touched, node>>
        /\ rec'.ended = rec.ended /\ rec'.changed = rec.changed /\ rec'.planned = rec.planned
        /\ rec'.run = rec.run
        /\ rec'.success => rec.success
        /\ pc' # "report" => rest' = rest
    BY <1>1, <1>5, Finishes DEF RefuseDowngrades, Finish
  <2> QED
    BY <1>1, <1>4, <2>1, UpgradeStep
<1>6. CASE StartBatch
  <2>1. /\ kind = "upgrade" /\ pc = "batch" /\ UNCHANGED <<kind, flags, pc, rest, talos, touched, rec>>
        /\ \A n \in Nodes : node'[n] = "done" <=> node[n] = "done"
    BY <1>6 DEF StartBatch, Sound, UnderWay
  <2> QED
    BY <2>1, UpgradeStep
<1>7. CASE BatchDone
  <2>1. /\ kind = "upgrade" /\ pc = "batch" /\ UNCHANGED <<kind, flags, talos, touched, node>>
        /\ rest \in Seq(SUBSET Nodes) /\ rest # <<>>
    BY <1>7 DEF BatchDone, Sound, UnderWay, TypeOK
  <2>2. CASE Finish(rec, FALSE)
    BY <1>1, <2>1, <2>2, Finishes, UpgradeStep
  <2>3. CASE ~(\E n \in Batch : rec.ended[n] = "failed") /\ LastBatch /\ Finish(rec, TRUE)
    <3>1. \A i \in DOMAIN Tail(rest) : FALSE
      BY <2>1, <2>3, LastLeavesNone DEF LastBatch
    <3>2. \A n \in Nodes : rec.ended[n] = "ok"
      <4>1. \A n \in Nodes : rec.ended[n] = "ok" \/ \E i \in DOMAIN rest : n \in rest[i]
        BY <2>1 DEF RunTrue, UpgradeTrue
      <4> QED
        BY <1>7, <2>3, <3>1, <4>1, BatchEnds
    <3> QED
      BY <1>1, <2>1, <2>3, <3>2, Finishes, UpgradeStep
  <2>4. CASE ~(\E n \in Batch : rec.ended[n] = "failed") /\ rest' = Tail(rest) /\ UNCHANGED <<rec, pc>>
    <3>1. \A n \in Nodes : (\E i \in DOMAIN rest : n \in rest[i]) =>
            rec.ended[n] = "ok" \/ \E i \in DOMAIN rest' : n \in rest'[i]
      BY <1>7, <2>4, BatchEnds
    <3> QED
      BY <2>1, <2>4, <3>1, UpgradeStep
  <2> QED
    BY <1>7, <2>2, <2>3, <2>4 DEF BatchDone
<1>8. ASSUME NEW n \in Nodes, OneNode(n) PROVE RunTrue'
  <2>1. /\ kind = "upgrade" /\ pc = "batch" /\ UNCHANGED <<kind, flags, pc, rest>>
        /\ rec'.planned = rec.planned /\ rec'.run = rec.run /\ rec'.success = rec.success
        /\ rec' \in Recorded
    BY <1>8, NodeSteps DEF Sound, UnderWay
  <2>2. /\ \A m \in Nodes \ {n} :
              /\ rec'.ended[m] = rec.ended[m] /\ rec'.changed[m] = rec.changed[m]
              /\ node'[m] = node[m] /\ talos'[m] = talos[m]
              /\ m \in touched' <=> m \in touched
        /\ GoesOn(n) \/ EndsWith(n)
    BY <1>8, NodeSteps
  <2>3. \A m \in Nodes : NodeTrue(m)
    BY <2>1 DEF RunTrue, UpgradeTrue
  <2>4. ASSUME NEW m \in Nodes \ {n} PROVE NodeTrue(m)'
    BY <2>1, <2>2, <2>3, <2>4 DEF NodeTrue, Has
  <2>5. NodeTrue(n)'
    BY <2>1, <2>2, <2>3 DEF NodeTrue, GoesOn, EndsWith, Has
  <2>6. rec.ended[n] = "no" /\ ~rec.success
    <3>1. rec.ended[n] = "no"
      BY <2>2, <2>3 DEF NodeTrue, GoesOn, EndsWith
    <3> QED
      BY <2>1, <3>1 DEF RunTrue, UpgradeTrue
  <2>7. ASSUME NEW m \in Nodes
        PROVE  rec'.ended[m] = "ok" \/ \E i \in DOMAIN rest' : m \in rest'[i]
    <3>1. rec.ended[m] = "ok" \/ \E i \in DOMAIN rest : m \in rest[i]
      BY <2>1 DEF RunTrue, UpgradeTrue
    <3> QED
      BY <2>1, <2>2, <2>6, <3>1
  <2> QED
    BY <2>1, <2>4, <2>5, <2>6, <2>7 DEF RunTrue, UpgradeTrue, K8sTrue
<1>9. CASE Current
  <2>1. /\ kind = "upgrade-k8s" /\ pc = "current" /\ pc' \in {"report", "snapshot", "stream"}
        /\ UNCHANGED <<kind, flags, touched>>
    BY <1>9 DEF Current, Sound, UnderWay, Finish
  <2>2. /\ rec'.planned = rec.planned
        /\ rec'.run = rec.run \/ (rec'.run = "no" /\ pc' = "report")
    BY <1>1, <1>9, Finishes, SetsChanged DEF Current, Answers
  <2> QED
    BY <1>4, <2>1, <2>2
<1>10. CASE SnapshotTaken
  <2>1. /\ kind = "upgrade-k8s" /\ pc = "snapshot" /\ pc' \in {"report", "stream"}
        /\ UNCHANGED <<kind, flags, touched>>
        /\ rec'.planned = rec.planned /\ rec'.run = rec.run
    BY <1>1, <1>10, Finishes DEF SnapshotTaken, Sound, UnderWay, Finish
  <2> QED
    BY <1>4, <2>1
<1>11. CASE UpgradeK8s
  <2>1. /\ kind = "upgrade-k8s" /\ pc = "stream" /\ pc' = "report" /\ UNCHANGED <<kind, flags>>
        /\ touched' = IF Has("dry-run") THEN {} ELSE Nodes
        /\ Finish(rec, FALSE) \/ Finish(SetChanged("yes"), TRUE)
    BY <1>11 DEF UpgradeK8s, Sound, UnderWay, Finish
  <2>2. rec'.planned = rec.planned /\ rec'.run \in {rec.run, "yes"}
    BY <1>1, <2>1, Finishes, SetsChanged DEF Answers
  <2> QED
    BY <2>1, <2>2 DEF RunTrue, UpgradeTrue, K8sTrue, Has
<1>12. CASE \/ OnceDone \/ RivalStarts \/ ClusterStep \/ (\E s \in Savers : Takes(s)) \/ UNCHANGED vars
  <2>1. UNCHANGED <<kind, flags, pc, rest, talos, touched, node, rec>>
    BY <1>12 DEF OnceDone, RivalStarts, ClusterStep, Takes, vars
  <2>2. \A n \in Nodes : NodeTrue(n)' <=> NodeTrue(n)
    BY <2>1 DEF NodeTrue, Has
  <2> QED
    BY <2>1, <2>2 DEF RunTrue, UpgradeTrue, K8sTrue, Has
<1>13. CASE Leaves
  BY <1>13 DEF Leaves, RunTrue, UpgradeTrue, K8sTrue
<1> QED
  BY <1>2, <1>3, <1>5, <1>6, <1>7, <1>8, <1>9, <1>10, <1>11, <1>12, <1>13 DEF Next

(* The result of a node is told by its entries in the record. *)
LEMMA ResultOf ==
  ASSUME rec \in Recorded, NEW n \in Nodes
  PROVE  /\ rec.ended[n] = "no" => Result(n) = "not_reached"
         /\ rec.ended[n] = "failed" => Result(n) = "failed"
         /\ rec.ended[n] = "ok" /\ rec.changed[n] = "yes" => Result(n) = "changed"
         /\ rec.ended[n] = "ok" /\ rec.changed[n] = "no" => Result(n) = "unchanged"
         /\ rec.ended[n] \in {"no", "failed", "ok"}
  BY DEF Recorded, Result

(* What a run says of the whole, with its nodes' results to go by or not. *)
LEMMA RunChangedIs ==
  ASSUME rec \in Recorded
  PROVE  /\ RunChanged = "no" => rec.run = "no" \/ (rec.run = "unknown" /\ Results = {"unchanged"})
         /\ RunChanged = "yes" => rec.run = "yes" \/ (rec.run = "unknown" /\ "changed" \in Results)
  BY DEF Recorded, RunChanged, Answers

(* The part of ReportsAreTrue that is about the run under way. *)
RunReportsTrue ==
  pc = "report" =>
    /\ \A n \in rec.planned :
         /\ Result(n) \in {"unchanged", "not_reached"} => n \notin touched
         /\ Result(n) = "changed" => Has("dry-run") \/ (n \in touched /\ talos[n] = "want")
         /\ rec.success => Result(n) \in {"changed", "unchanged"}
    /\ RunChanged = "no" => touched = {}
    /\ RunChanged = "yes" => Has("dry-run") \/ touched # {}

LEMMA RunReports ==
  ASSUME Sound, RunTrue
  PROVE  RunReportsTrue
<1> SUFFICES ASSUME pc = "report" PROVE RunReportsTrue
  BY DEF RunReportsTrue
<1>1. /\ rec \in Recorded /\ rec.planned \subseteq Nodes /\ touched \subseteq Nodes
      /\ kind \in {"upgrade", "upgrade-k8s"}
  BY DEF Sound, TypeOK, RecordTypeOK, Recorded, Kinds
<1>2. CASE kind = "upgrade"
  <2>1. ASSUME NEW n \in Nodes
        PROVE  /\ Result(n) \in {"unchanged", "not_reached"} => n \notin touched
               /\ Result(n) = "changed" => Has("dry-run") \/ (n \in touched /\ talos[n] = "want")
               /\ rec.success => Result(n) \in {"changed", "unchanged"}
    <3>1. NodeTrue(n) /\ (rec.success => rec.ended[n] = "ok")
      BY <1>2 DEF RunTrue, UpgradeTrue
    <3> QED
      BY <1>1, <3>1, ResultOf DEF NodeTrue
  <2>2. rec.run = "unknown" /\ rec.planned \in {{}, Nodes}
    BY <1>2 DEF RunTrue, UpgradeTrue
  <2>3. Results = {"unchanged"} => touched = {}
    BY <1>1, <2>1, <2>2 DEF Results
  <2>4. "changed" \in Results => Has("dry-run") \/ touched # {}
    BY <1>1, <2>1 DEF Results
  <2> QED
    BY <1>1, <2>1, <2>2, <2>3, <2>4, RunChangedIs DEF RunReportsTrue
<1>3. CASE kind = "upgrade-k8s"
  <2>1. /\ rec.planned = {}
        /\ rec.run = "no" => touched = {}
        /\ rec.run = "yes" => Has("dry-run") \/ touched # {}
    BY <1>3 DEF RunTrue, K8sTrue
  <2>2. Results = {}
    BY <2>1 DEF Results
  <2> QED
    BY <1>1, <2>1, <2>2, RunChangedIs DEF RunReportsTrue
<1> QED
  BY <1>1, <1>2, <1>3

-----------------------------------------------------------------------------
(* The last success, in the file and at the endpoint, is true.             *)

Arrived == {i \in DOMAIN reports : reports[i].written}
Pushes == {i \in DOMAIN reports : reports[i].pushed}
String == {i \in Arrived : \A j \in Arrived : j >= i => reports[j].group = file.group}
Successes(g, S) == {i \in S : reports[i].group = g /\ reports[i].ok}

(* The file is of the group of the run it was last written by: so a run    *)
(* that finds another group's in it has no string to carry on from.        *)
LastTrue ==
  /\ LastSuccessTrue
  /\ Arrived # {} =>
       \E m \in Arrived : (\A j \in Arrived : j <= m) /\ reports[m].group = file.group

LEMMA MaxIs ==
  ASSUME NEW S \in SUBSET Nat, NEW m \in S, \A x \in S : x <= m
  PROVE  Max(S) = m
<1>1. \A y \in S : m >= y
  OBVIOUS
<1>2. Max(S) \in S /\ \A y \in S : Max(S) >= y
  BY <1>1 DEF Max
<1>3. Max(S) \in Nat /\ m \in Nat /\ Max(S) >= m /\ Max(S) <= m
  BY <1>2
<1> QED
  BY <1>3

LEMMA LastOfSuccesses ==
  ASSUME NEW g, NEW S
  PROVE  LastOf(g, S) = Max({0} \cup Successes(g, S))
  BY DEF LastOf, Successes

(* What a run that leaves adds to the reports, and where that arrives.     *)
Adds(ok, written, pushed) ==
  /\ reports' = Append(reports, [group |-> rec.group, ok |-> ok, written |-> written, pushed |-> pushed])
  /\ file' = IF written THEN Written ELSE file
  /\ endpoint' = IF pushed THEN Pushed ELSE endpoint
  /\ written \/ pushed => ok = rec.success

LEMMA LeavesAdds ==
  ASSUME Sound, Leaves
  PROVE  /\ pc # "idle"
         /\ \E ok, written, pushed \in BOOLEAN : ok \in {FALSE, rec.success} /\ Adds(ok, written, pushed)
<1>1. CASE pc = "report" /\ Report
  <2>1. rec.success \in BOOLEAN
    BY DEF Sound, TypeOK, RecordTypeOK, Recorded
  <2>2. \E written, pushed \in BOOLEAN : Adds(rec.success, written, pushed)
    BY <1>1 DEF Report, Ended, Adds
  <2> QED
    BY <1>1, <2>1, <2>2
<1>2. CASE pc # "idle" /\ NoReport
  <2>1. Adds(FALSE, FALSE, FALSE)
    BY <1>2 DEF NoReport, Ended, Adds
  <2> QED
    BY <1>2, <2>1
<1> QED
  BY <1>1, <1>2 DEF Leaves

(* The reports a run leaves behind are those before it and its own. *)
LEMMA Added ==
  ASSUME Sound, NEW ok \in BOOLEAN, NEW written \in BOOLEAN, NEW pushed \in BOOLEAN, Adds(ok, written, pushed)
  PROVE  /\ Now \in Nat \ {0} /\ DOMAIN reports' = DOMAIN reports \cup {Now}
         /\ \A i \in DOMAIN reports : i \in Nat /\ i < Now /\ reports'[i] = reports[i]
         /\ reports'[Now].group = rec.group /\ reports'[Now].ok = ok
         /\ reports'[Now].written = written /\ reports'[Now].pushed = pushed
<1> DEFINE report == [group |-> rec.group, ok |-> ok, written |-> written, pushed |-> pushed]
<1>1. /\ reports \in Seq([group : Groups, ok : BOOLEAN, written : BOOLEAN, pushed : BOOLEAN])
      /\ reports' = Append(reports, report)
  BY DEF Sound, TypeOK, RecordTypeOK, Adds
<1>2. /\ report.group = rec.group /\ report.ok = ok
      /\ report.written = written /\ report.pushed = pushed
  OBVIOUS
<1> HIDE DEF report
<1>3. /\ Len(reports) \in Nat /\ DOMAIN reports = 1 .. Len(reports)
      /\ DOMAIN reports' = 1 .. Len(reports) + 1
      /\ \A i \in 1 .. Len(reports) : reports'[i] = reports[i]
      /\ reports'[Len(reports) + 1] = report
  BY <1>1
<1> QED
  BY <1>2, <1>3 DEF Now

(* A push of a run that succeeded is its group's last success at the       *)
(* endpoint; any other leaves what is there true.                          *)
LEMMA EndpointStep ==
  ASSUME Sound, pc # "idle",
         NEW ok \in BOOLEAN, NEW written \in BOOLEAN, NEW pushed \in BOOLEAN, Adds(ok, written, pushed),
         NEW g \in Groups, endpoint[g] = LastOf(g, Pushes)
  PROVE  endpoint'[g] = LastOf(g, Pushes)'
<1>1. /\ rec.group \in Groups /\ endpoint \in [Groups -> 0 .. MaxRuns]
      /\ endpoint' = IF pushed THEN Pushed ELSE endpoint
      /\ pushed => ok = rec.success
  BY DEF Sound, UnderWay, TypeOK, RecordTypeOK, Adds
<1>2. Pushes' = Pushes \cup (IF pushed THEN {Now} ELSE {})
  BY Added DEF Pushes
<1>3. Successes(g, Pushes)' = Successes(g, Pushes) \cup (IF pushed /\ ok /\ g = rec.group THEN {Now} ELSE {})
  BY <1>2, Added DEF Successes, Pushes
<1>4. CASE pushed /\ ok /\ g = rec.group
  <2>1. endpoint'[g] = Now
    BY <1>1, <1>4 DEF Pushed
  <2>2. Max({0} \cup Successes(g, Pushes)') = Now
    <3>1. \A i \in Successes(g, Pushes) : i \in Nat /\ i < Now
      BY Added DEF Successes, Pushes
    <3>2. Successes(g, Pushes)' = Successes(g, Pushes) \cup {Now} /\ Now \in Nat
      BY <1>3, <1>4, Added
    <3>3. {0} \cup Successes(g, Pushes)' \in SUBSET Nat /\ Now \in {0} \cup Successes(g, Pushes)'
      BY <3>1, <3>2
    <3>4. \A i \in {0} \cup Successes(g, Pushes)' : i <= Now
      BY <3>1, <3>2
    <3> QED
      BY <3>3, <3>4, MaxIs
  <2> QED
    BY <2>1, <2>2 DEF LastOf, Successes
<1>5. CASE ~(pushed /\ ok /\ g = rec.group)
  <2>1. endpoint'[g] = endpoint[g]
    BY <1>1, <1>5 DEF Pushed
  <2>2. LastOf(g, Pushes)' = LastOf(g, Pushes)
    BY <1>3, <1>5 DEF LastOf, Successes
  <2> QED
    BY <2>1, <2>2
<1> QED
  BY <1>4, <1>5

(* A file that is written carries the last success of the string it ends.  *)
LEMMA FileStep ==
  ASSUME Sound, LastTrue, pc # "idle",
         NEW ok \in BOOLEAN, NEW written \in BOOLEAN, NEW pushed \in BOOLEAN, Adds(ok, written, pushed)
  PROVE  /\ file'.last = LastOf(file.group, String)'
         /\ Arrived' # {} =>
              \E m \in Arrived' : (\A j \in Arrived' : j <= m) /\ reports'[m].group = file'.group
<1>1. /\ file' = IF written THEN Written ELSE file
      /\ written => ok = rec.success
      /\ file.last = LastOf(file.group, String)
  BY DEF Adds, LastTrue, LastSuccessTrue, String, Arrived
<1>2. /\ Arrived' = Arrived \cup (IF written THEN {Now} ELSE {})
      /\ Now \in Nat /\ Now \notin Arrived
      /\ \A i \in Arrived : i \in Nat /\ i < Now /\ reports'[i] = reports[i]
  BY Added DEF Arrived
<1>3. CASE ~written
  <2>1. Arrived' = Arrived /\ file' = file
    BY <1>1, <1>2, <1>3
  <2>2. Successes(file.group, String)' = Successes(file.group, String)
    BY <1>2, <2>1 DEF Successes, String
  <2>3. LastOf(file.group, String)' = LastOf(file.group, String)
    BY <2>2 DEF LastOf, Successes
  <2>4. Arrived # {} => \E m \in Arrived : (\A j \in Arrived : j <= m) /\ reports[m].group = file.group
    BY DEF LastTrue
  <2> QED
    BY <1>1, <1>2, <2>1, <2>3, <2>4
<1>4. CASE written
  <2>1. /\ Arrived' = Arrived \cup {Now} /\ ok = rec.success
        /\ reports'[Now].group = rec.group /\ reports'[Now].ok = ok
        /\ file'.group = rec.group
    BY <1>1, <1>2, <1>4, Added DEF Written
  <2>2. \A j \in Arrived' : j <= Now
    BY <1>2, <2>1
  <2>3. Now \in String'
    BY <1>2, <2>1 DEF String
  <2>4. String' \subseteq Nat /\ \A i \in String' : i <= Now
    BY <1>2, <2>1, <2>2 DEF String
  <2>5. CASE ok
    <3>1. Now \in Successes(file.group, String)'
      BY <2>1, <2>3, <2>5 DEF Successes
    <3>2. \A i \in Successes(file.group, String)' : i \in Nat /\ i <= Now
      BY <2>4 DEF Successes
    <3>3. /\ {0} \cup Successes(file.group, String)' \in SUBSET Nat
          /\ \A i \in {0} \cup Successes(file.group, String)' : i <= Now
      BY <1>2, <3>2
    <3>4. Max({0} \cup Successes(file.group, String)') = Now
      BY <3>1, <3>3, MaxIs
    <3>5. LastOf(file.group, String)' = Now
      BY <3>4 DEF LastOf, Successes
    <3>6. file'.last = Now
      BY <1>1, <1>4, <2>1, <2>5 DEF Written
    <3> QED
      BY <2>1, <2>2, <3>5, <3>6
  <2>6. CASE ~ok /\ file.group = rec.group
    <3>1. file'.last = file.last
      BY <1>1, <1>4, <2>1, <2>6 DEF Written
    <3>2. Successes(file.group, String)' = Successes(file.group, String)
      BY <1>2, <2>1, <2>6 DEF Successes, String
    <3>3. LastOf(file.group, String)' = LastOf(file.group, String)
      BY <3>2 DEF LastOf, Successes
    <3> QED
      BY <1>1, <2>1, <2>2, <3>1, <3>3
  <2>7. CASE ~ok /\ file.group # rec.group
    <3>1. file'.last = 0
      BY <1>1, <1>4, <2>1, <2>7 DEF Written
    <3>2. Successes(file.group, String)' = {}
      <4>1. ASSUME NEW i \in Arrived, i \in String' PROVE FALSE
        <5>1. PICK m \in Arrived : (\A j \in Arrived : j <= m) /\ reports[m].group = file.group
          BY DEF LastTrue
        <5>2. m >= i /\ m \in Arrived'
          BY <1>2, <2>1, <4>1, <5>1
        <5>3. reports'[m].group = rec.group
          BY <2>1, <4>1, <5>2 DEF String
        <5> QED
          BY <1>2, <2>7, <5>1, <5>3
      <4> QED
        BY <2>1, <2>7, <4>1 DEF Successes, String
    <3>3. LastOf(file.group, String)' = Max({0})
      BY <3>2 DEF LastOf, Successes
    <3>4. Max({0}) = 0
      BY MaxIs
    <3> QED
      BY <2>1, <2>2, <3>1, <3>3, <3>4
  <2> QED
    BY <2>5, <2>6, <2>7
<1> QED
  BY <1>3, <1>4

LEMMA LastSuccessIs ==
  LastSuccessTrue <=> /\ file.last = LastOf(file.group, String)
                      /\ \A g \in Groups : endpoint[g] = LastOf(g, Pushes)
  BY DEF LastSuccessTrue, String, Arrived, Pushes

LEMMA InitLastTrue == Init => LastTrue
<1> SUFFICES ASSUME Init PROVE LastTrue
  OBVIOUS
<1>1. PICK g \in Groups, ok \in BOOLEAN, arrived \in BOOLEAN :
        /\ reports = <<[group |-> g, ok |-> ok, written |-> arrived, pushed |-> arrived]>>
        /\ file = [group |-> IF arrived THEN g ELSE NoGroup, last |-> IF arrived /\ ok THEN 1 ELSE 0]
        /\ endpoint = [h \in Groups |-> IF arrived /\ ok /\ h = g THEN 1 ELSE 0]
  BY DEF Init, RecordInit
<1>2. /\ DOMAIN reports = {1} /\ reports[1].group = g /\ reports[1].ok = ok
      /\ reports[1].written = arrived /\ reports[1].pushed = arrived
  BY <1>1
<1>3. Arrived = (IF arrived THEN {1} ELSE {}) /\ Pushes = (IF arrived THEN {1} ELSE {})
  BY <1>2 DEF Arrived, Pushes
<1>4. arrived => file.group = g
  BY <1>1
<1>5. String = IF arrived THEN {1} ELSE {}
  BY <1>2, <1>3, <1>4 DEF String
<1>6. Max({0} \cup {1}) = 1 /\ Max({0} \cup {}) = 0
  <2>1. Max({0} \cup {1}) = 1
    BY MaxIs
  <2>2. Max({0} \cup {}) = 0
    BY MaxIs
  <2> QED
    BY <2>1, <2>2
<1>7. file.last = LastOf(file.group, String)
  <2>1. Successes(file.group, String) = IF arrived /\ ok THEN {1} ELSE {}
    BY <1>2, <1>4, <1>5 DEF Successes
  <2>2. file.last = IF arrived /\ ok THEN 1 ELSE 0
    BY <1>1
  <2> QED
    BY <1>6, <2>1, <2>2, LastOfSuccesses
<1>8. ASSUME NEW h \in Groups PROVE endpoint[h] = LastOf(h, Pushes)
  <2>1. Successes(h, Pushes) = IF arrived /\ ok /\ h = g THEN {1} ELSE {}
    BY <1>2, <1>3 DEF Successes
  <2>2. endpoint[h] = IF arrived /\ ok /\ h = g THEN 1 ELSE 0
    BY <1>1
  <2> QED
    BY <1>6, <2>1, <2>2, LastOfSuccesses
<1> QED
  BY <1>2, <1>3, <1>4, <1>7, <1>8, LastSuccessIs DEF LastTrue

LEMMA NextLastTrue ==
  ASSUME Sound, LastTrue, [Next]_vars
  PROVE  LastTrue'
<1>1. CASE UNCHANGED recording
  BY <1>1 DEF recording, LastTrue, LastSuccessTrue, Arrived, LastOf
<1>2. CASE Leaves
  <2>1. pc # "idle"
    BY <1>2, LeavesAdds
  <2>2. PICK ok \in BOOLEAN, written \in BOOLEAN, pushed \in BOOLEAN : Adds(ok, written, pushed)
    BY <1>2, LeavesAdds
  <2>3. \A g \in Groups : endpoint[g] = LastOf(g, Pushes)
    BY LastSuccessIs DEF LastTrue
  <2>4. \A g \in Groups : endpoint'[g] = LastOf(g, Pushes)'
    BY <2>1, <2>2, <2>3, EndpointStep
  <2>5. /\ file'.last = LastOf(file.group, String)'
        /\ Arrived' # {} =>
             \E m \in Arrived' : (\A j \in Arrived' : j <= m) /\ reports'[m].group = file'.group
    BY <2>1, <2>2, FileStep
  <2>6. LastSuccessTrue'
    BY <2>4, <2>5 DEF LastSuccessTrue, String, Arrived, Pushes
  <2> QED
    BY <2>5, <2>6 DEF LastTrue
<1>3. Leaves \/ UNCHANGED recording
  BY DEF Next, BeginUpgrade, BeginK8s, Begin, RefuseDowngrades, StartBatch, BatchDone, OneNode, Ask, Snap, Send,
     Current, SnapshotTaken, UpgradeK8s, OnceDone, RivalStarts, ClusterStep, Takes, vars
<1> QED
  BY <1>1, <1>2, <1>3

(* The metrics of upgrade and upgrade-k8s are true however the run ends:   *)
(* a goroutine reports its own node and only once it is done with it,      *)
(* BatchDone calls a run a success only past its last batch, and a last    *)
(* success is carried forward by a run of its group and by no other.       *)
THEOREM ReportsTrue == Spec => []ReportsAreTrue
<1>1. Init => Typed /\ InTurn /\ Sound /\ RunTrue /\ LastTrue
  BY InitInTurn, InitSound, InitRunTrue, InitLastTrue
<1>2. Typed /\ InTurn /\ Sound /\ RunTrue /\ LastTrue /\ [Next]_vars =>
        (Typed /\ InTurn /\ Sound /\ RunTrue /\ LastTrue)'
  BY NextInTurn, NextSound, NextRunTrue, NextLastTrue
<1>3. Sound /\ RunTrue /\ LastTrue => ReportsAreTrue
  BY RunReports DEF RunReportsTrue, ReportsAreTrue, LastTrue
<1> QED
  BY <1>1, <1>2, <1>3, PTL DEF Spec
============================================================================
