---------------------------- MODULE RolloutProofs ----------------------------
(***************************************************************************)
(* What Rollout promises, for every number of targets, every layout of     *)
(* control planes and waves, and every combination of flags; and that it   *)
(* is one run of Campaign, with the hint that Campaign carries on with.    *)
(***************************************************************************)
EXTENDS RolloutRuns, WellFoundedInduction, TLAPS

(***************************************************************************)
(* The inductive invariant behind OneControlPlaneAway.  OneControlPlaneAway *)
(* says nothing of why the next batch may start, so it needs where each    *)
(* target stands with respect to the batch under way, and what a command   *)
(* that succeeded says of its machine.                                     *)
(***************************************************************************)
Progress ==
  /\ done <= upto
  /\ pc \notin {"batch", "stopped"} => done = upto
  /\ pc \in {"ready", "refused"} => upto = 0
  /\ \A p \in Pos : p <= done => node[p] \in Succeeded
  /\ \A p \in Pos : p > upto => node[p] = "waiting" /\ machine[p] = "up"

MachinesKnown ==
  /\ \A p \in Pos : node[p] \in {"started", "unchanged"} => machine[p] = "up"
  /\ run.waits => \A p \in Pos : node[p] = "changed" => machine[p] = "up"
  /\ run.inert => \A p \in Pos : machine[p] = "up"

ControlPlanesApart ==
  ~run.inert =>
    /\ \A p \in run.cp : p \in Batch => upto = done + 1
    /\ pc \notin {"ready", "refused"} /\ ~run.waits => WaitsForControlPlanes

IInv == TypeOK /\ Progress /\ MachinesKnown /\ ControlPlanesApart

USE NAssumption, ParallelAssumption, RunsAssumption

-----------------------------------------------------------------------------
(* Type correctness.                                                       *)

(* A run starts with every target waiting. *)
LEMMA InitTyping == Init => TypeOK
<1> SUFFICES ASSUME Init PROVE TypeOK
  OBVIOUS
<1>1. run \in RunSpace
  BY DEF Init
<1>2. node \in [Pos -> NodeState] /\ machine \in [Pos -> MachineState]
  BY DEF Init, NodeState, MachineState
<1>3. hint \in [left : SUBSET Pos, from : BOOLEAN]
  BY DEF Init
<1>4. 0 \in 0 .. N
  OBVIOUS
<1>5. pc \in PcState /\ actedInWave \in BOOLEAN /\ interrupted \in BOOLEAN
  BY DEF Init, PcState
<1>6. /\ done \in 0 .. N /\ upto \in 0 .. N
      /\ seen \in [soaked : 0 .. N, looked : 0 .. N, watched : 0 .. N]
  BY <1>4 DEF Init
<1>7. QED
  BY <1>1, <1>2, <1>3, <1>5, <1>6 DEF TypeOK

(* No step of the pass, of a command or of a machine leaves the types. *)
LEMMA StepTyping == TypeOK /\ [Next]_vars => TypeOK'
<1> SUFFICES ASSUME TypeOK, [Next]_vars PROVE TypeOK'
  OBVIOUS
<1> USE DEF TypeOK, PcState, NodeState, MachineState, Succeeded, counters
<1>1. CASE Pass
  <2>1. ASSUME NEW left \in SUBSET Pos, NEW from \in BOOLEAN, StopWith(left, from)
        PROVE  TypeOK'
    BY <2>1 DEF StopWith
  <2>2. CASE Stopped
    <3>1. (done + 1 .. N) \in SUBSET Pos /\ (run.until /\ done = N) \in BOOLEAN
      BY DEF Pos, RunSpace
    <3>2. QED
      BY <2>1, <2>2, <3>1 DEF Stopped
  <2>3. CASE Begin
    BY <2>3 DEF Begin, GoTo
  <2>4. CASE StartBatch
    <3>1. actedInWave' \in BOOLEAN
      BY <2>4, Zenon DEF StartBatch
    <3>2. upto' \in 0 .. N
      BY <2>4 DEF StartBatch, Pos
    <3>3. node' \in [Pos -> NodeState]
      BY <2>4 DEF StartBatch
    <3>4. QED
      BY <2>4, <3>1, <3>2, <3>3 DEF StartBatch
  <2>5. CASE BatchFailed
    <3>1. Left \in SUBSET Pos
      BY DEF Left, Pos
    <3>2. QED
      BY <2>1, <2>5, <3>1 DEF BatchFailed
  <2>6. CASE BatchSucceeded
    <3>1. pc' \in {"loop", "soak", "gate"}
      BY <2>6 DEF BatchSucceeded, AfterBatch
    <3>2. actedInWave' \in BOOLEAN
      BY <2>6, Zenon DEF BatchSucceeded
    <3>3. QED
      BY <2>6, <3>1, <3>2 DEF BatchSucceeded, Covered
  <2>7. CASE Soak
    BY <2>2, <2>7 DEF Soak
  <2>8. CASE GateOpens
    BY <2>8 DEF GateOpens
  <2>9. CASE GateFails \/ Return
    BY <2>2, <2>9 DEF GateFails, Return, GoTo
  <2>10. QED
    BY <1>1, <2>3, <2>4, <2>5, <2>6, <2>7, <2>8, <2>9 DEF Pass
<1>2. ASSUME NEW p \in Pos, Command(p)
      PROVE  TypeOK'
  BY <1>2 DEF Command, Skip, Send, Succeed, Fail
<1>3. ASSUME NEW p \in Pos, Machine(p)
      PROVE  TypeOK'
  BY <1>3 DEF Machine
<1>4. CASE Interrupt
  BY <1>4 DEF Interrupt
<1>5. CASE UNCHANGED vars
  BY <1>5 DEF vars
<1>6. QED
  BY <1>1, <1>2, <1>3, <1>4, <1>5 DEF Next

(***************************************************************************)
(* Type correctness of the roll-out: done and upto stay within the         *)
(* targets, and a hint names targets only.                                 *)
(***************************************************************************)
THEOREM Typing == Spec => []TypeOK
  BY InitTyping, StepTyping, PTL DEF Spec

-----------------------------------------------------------------------------
(* Control planes.                                                         *)

(***************************************************************************)
(* A batch is after what is done, within the targets, and holds a control  *)
(* plane of an enacting pass only alone.                                   *)
(***************************************************************************)
LEMMA NextBatchAlone ==
  ASSUME run \in RunSpace, done \in 0 .. N, NEW e \in Pos, IsNextBatch(done, e)
  PROVE  /\ done < e
         /\ ~run.inert => \A p \in run.cp : p \in done + 1 .. e => e = done + 1
<1>1. GoTogether(done, e)
  BY DEF IsNextBatch
<1>2. QED
  BY <1>1 DEF GoTogether, Pos

(* Every step keeps the invariant: one case per action that disturbs it. *)
LEMMA Invariance == IInv /\ [Next]_vars => IInv'
<1> SUFFICES ASSUME IInv, [Next]_vars PROVE IInv'
  OBVIOUS
<1>0. TypeOK'
  BY StepTyping DEF IInv
<1> USE DEF IInv, Progress, MachinesKnown, ControlPlanesApart, Batch, counters
<1>1. CASE UNCHANGED <<run, done, upto, node, machine>>
           /\ \/ pc' = pc
              \/ pc \in {"loop", "soak", "gate"}
                 /\ pc' \in {"loop", "gate", "returned", "stopped"}
  BY <1>0, <1>1 DEF TypeOK, PcState, WaitsForControlPlanes, Pos
<1>2. CASE Begin
  BY <1>0, <1>2 DEF Begin, GoTo, WaitsForControlPlanes
<1>4. CASE StartBatch
  <2>1. PICK e \in Pos :
          /\ IsNextBatch(done, e)
          /\ upto' = e
          /\ node' = [p \in Pos |-> IF p \in done + 1 .. e THEN "started"
                                                           ELSE node[p]]
    BY <1>4 DEF StartBatch
  <2>2. /\ pc = "loop" /\ pc' = "batch" /\ done = upto
        /\ UNCHANGED <<run, done, machine>>
    BY <1>4 DEF StartBatch
  <2>3. /\ done \in 0 .. N /\ done \in Nat /\ e \in Nat /\ done < e
        /\ ~run.inert => \A p \in run.cp : p \in done + 1 .. e => e = done + 1
    BY <2>1, NextBatchAlone DEF TypeOK, Pos
  <2>4. Progress'
    <3>1. \A p \in Pos : p <= done => node'[p] = node[p]
      BY <2>1, <2>3 DEF Pos
    <3>2. \A p \in Pos : p > e => node'[p] = node[p] /\ p > upto
      BY <2>1, <2>2, <2>3 DEF Pos
    <3>3. QED
      BY <2>1, <2>2, <2>3, <3>1, <3>2
  <2>5. MachinesKnown'
    BY <2>1, <2>2, <2>3 DEF TypeOK, Pos
  <2>6. ControlPlanesApart'
    BY <2>1, <2>2, <2>3 DEF WaitsForControlPlanes
  <2>7. QED
    BY <1>0, <2>4, <2>5, <2>6
<1>5. CASE BatchFailed
  BY <1>0, <1>5 DEF BatchFailed, StopWith, WaitsForControlPlanes
<1>6. CASE BatchSucceeded
  <2>1. /\ pc = "batch" /\ done' = upto
        /\ UNCHANGED <<run, upto, node, machine>>
        /\ \A p \in done + 1 .. upto : node[p] \in Succeeded
    BY <1>6 DEF BatchSucceeded, Covered, Answered, BatchErr
  <2>2. pc' \in {"loop", "soak", "gate"}
    BY <1>6 DEF BatchSucceeded, AfterBatch
  <2>3. Progress'
    <3>1. \A p \in Pos : p <= upto => node[p] \in Succeeded
      BY <2>1 DEF TypeOK, Pos
    <3>2. QED
      BY <2>1, <2>2, <3>1 DEF TypeOK
  <2>4. MachinesKnown' /\ ControlPlanesApart'
    BY <2>1, <2>2 DEF TypeOK, RunSpace, Pos, WaitsForControlPlanes
  <2>5. QED
    BY <1>0, <2>3, <2>4
<1>7. ASSUME NEW p \in Pos, Command(p)
      PROVE  IInv'
  <2>1. /\ pc = "batch" /\ p \in done + 1 .. upto
        /\ UNCHANGED <<run, pc, done, upto>>
    BY <1>7 DEF Command, Skip, Send, Succeed, Fail
  <2>2. /\ done < p /\ p <= upto
        /\ \A q \in Pos : q # p => node'[q] = node[q] /\ machine'[q] = machine[q]
    BY <1>7, <2>1 DEF Command, Skip, Send, Succeed, Fail, TypeOK, Pos
  <2>3. Progress'
    <3>1. \A q \in Pos : q <= done \/ q > upto => q # p
      BY <2>2 DEF TypeOK, Pos
    <3>2. QED
      BY <2>1, <2>2, <3>1
  <2>4. /\ node'[p] \in {"started", "unchanged"} => machine'[p] = "up"
        /\ run.waits /\ node'[p] = "changed" => machine'[p] = "up"
        /\ run.inert => machine'[p] = "up"
    BY <1>7 DEF Command, Skip, Send, Succeed, Fail, TypeOK
  <2>5. MachinesKnown'
    BY <2>1, <2>2, <2>4
  <2>6. ControlPlanesApart'
    BY <2>1 DEF WaitsForControlPlanes
  <2>7. QED
    BY <1>0, <2>3, <2>5, <2>6
<1>8. ASSUME NEW p \in Pos, Machine(p)
      PROVE  IInv'
  <2>1. /\ UNCHANGED <<run, pc, done, upto, node>>
        /\ machine[p] # "up"
        /\ \A q \in Pos : q # p => machine'[q] = machine[q]
    BY <1>8 DEF Machine, TypeOK
  <2>2. Progress'
    BY <2>1
  <2>3. MachinesKnown'
    BY <2>1
  <2>4. ControlPlanesApart'
    BY <2>1 DEF WaitsForControlPlanes
  <2>5. QED
    BY <1>0, <2>2, <2>3, <2>4
<1>9. QED
  <2>1. CASE Soak \/ GateOpens \/ GateFails \/ Return \/ Interrupt \/ UNCHANGED vars
    BY <1>1, <2>1 DEF Soak, GateOpens, GateFails, Return, Interrupt, Stopped,
                      StopWith, GoTo, vars
  <2>2. QED
    BY <1>2, <1>4, <1>5, <1>6, <1>7, <1>8, <2>1 DEF Next, Pass

LEMMA Invariant == Spec => []IInv
<1>1. Init => IInv
  <2> SUFFICES ASSUME Init PROVE IInv
    OBVIOUS
  <2>1. TypeOK
    BY InitTyping
  <2>2. QED
    BY <2>1 DEF Init, IInv, Progress, MachinesKnown, ControlPlanesApart, Batch,
                Pos, RunSpace
<1>2. QED
  BY <1>1, Invariance, PTL DEF Spec

(***************************************************************************)
(* rollOut.run never has two control planes away at once.                  *)
(***************************************************************************)
THEOREM ControlPlanesOneAtATime == Spec => []OneControlPlaneAway
<1>1. IInv => OneControlPlaneAway
  <2> SUFFICES ASSUME IInv, NEW p \in run.cp, NEW q \in run.cp,
                      machine[p] # "up", machine[q] # "up"
               PROVE  p = q
    BY DEF OneControlPlaneAway
  <2> USE DEF IInv, Progress, MachinesKnown, ControlPlanesApart
  <2>1. p \in Pos /\ q \in Pos
    BY DEF TypeOK, RunSpace
  <2>2. ~run.inert
    BY <2>1
  <2>3. CASE ~run.waits
    <3>1. pc \notin {"ready", "refused"}
      BY <2>1 DEF Pos
    <3>2. QED
      BY <2>2, <2>3, <3>1 DEF WaitsForControlPlanes
  <2>4. CASE run.waits
    <3>1. p \in Batch /\ q \in Batch
      BY <2>1, <2>4 DEF TypeOK, Pos, Batch, Succeeded
    <3>2. QED
      BY <2>2, <3>1 DEF Batch, TypeOK
  <2>5. QED
    BY <2>3, <2>4
<1>2. QED
  BY <1>1, Invariant, PTL

-----------------------------------------------------------------------------
(* What a run that stops leaves, and what its hint says of it.              *)

(* A failure is of the last batch, and a stopped run's hint is exact. *)
StopInv ==
  /\ \A p \in Pos : node[p] = "failed" =>
       p \in Batch /\ pc \in {"batch", "stopped"}
  /\ HintIsWhatIsLeft

(* Stopping between batches, the targets left are those after done. *)
LEMMA StoppedHint ==
  ASSUME IInv, pc \in {"soak", "gate"}, Stopped
  PROVE  HintIsWhatIsLeft'
<1>1. /\ hint' = [left |-> done + 1 .. N, from |-> run.until /\ done = N]
      /\ UNCHANGED <<run, node>>
  BY DEF Stopped, StopWith
<1>2. done \in Nat /\ N \in Nat /\ done <= N /\ run.until \in BOOLEAN
  BY DEF IInv, TypeOK, RunSpace
<1>3. done + 1 .. N = {p \in Pos : node[p] \notin Succeeded}
  BY <1>2 DEF IInv, Progress, Succeeded, Pos
<1>4. (done = N) <=> (done + 1 .. N = {})
  BY <1>2
<1>5. QED
  BY <1>1, <1>3, <1>4 DEF HintIsWhatIsLeft

(* Every step keeps StopInv. *)
LEMMA StopStep == IInv /\ StopInv /\ [Next]_vars => StopInv'
<1> SUFFICES ASSUME IInv, StopInv, [Next]_vars PROVE StopInv'
  OBVIOUS
<1> USE DEF StopInv, Batch, counters
<1>1. CASE Soak \/ GateFails
  <2>1. CASE Stopped
    BY <1>1, <2>1, StoppedHint DEF Soak, GateFails, Stopped, StopWith
  <2>2. CASE ~Stopped
    BY <1>1, <2>2 DEF Soak, GateFails, HintIsWhatIsLeft
  <2>3. QED
    BY <2>1, <2>2
<1>2. CASE BatchFailed
  <2>1. /\ hint' = [left |-> Left, from |-> FALSE]
        /\ pc = "batch" /\ pc' = "stopped" /\ UNCHANGED <<run, done, upto, node>>
    BY <1>2 DEF BatchFailed, StopWith
  <2>2. Left = {p \in Pos : node[p] \notin Succeeded}
    BY DEF Left, IInv, Progress, TypeOK, Pos
  <2>3. PICK p \in Pos : node[p] = "failed"
    BY <1>2 DEF BatchFailed, BatchErr, IInv, TypeOK, Pos
  <2>4. Left # {}
    BY <2>2, <2>3 DEF Succeeded
  <2>5. QED
    BY <2>1, <2>2, <2>4 DEF HintIsWhatIsLeft
<1>3. CASE StartBatch
  BY <1>3 DEF StartBatch, HintIsWhatIsLeft
<1>4. CASE BatchSucceeded
  <2>1. \A p \in Pos : node[p] # "failed"
    BY <1>4 DEF BatchSucceeded, BatchErr
  <2>2. pc' # "stopped" /\ UNCHANGED node
    BY <1>4 DEF BatchSucceeded, AfterBatch
  <2>3. QED
    BY <2>1, <2>2 DEF HintIsWhatIsLeft
<1>5. ASSUME NEW p \in Pos, Command(p)
      PROVE  StopInv'
  <2>1. /\ pc = "batch" /\ p \in done + 1 .. upto
        /\ UNCHANGED <<pc, done, upto>>
        /\ \A q \in Pos : q # p => node'[q] = node[q]
    BY <1>5 DEF Command, Skip, Send, Succeed, Fail, IInv, TypeOK
  <2>2. QED
    BY <2>1 DEF HintIsWhatIsLeft
<1>6. CASE Begin \/ GateOpens \/ Return
  BY <1>6 DEF Begin, GateOpens, Return, GoTo, HintIsWhatIsLeft
<1>7. ASSUME NEW p \in Pos, Machine(p)
      PROVE  StopInv'
  BY <1>7 DEF Machine, HintIsWhatIsLeft
<1>8. CASE Interrupt \/ UNCHANGED vars
  BY <1>8 DEF Interrupt, vars, HintIsWhatIsLeft
<1>9. QED
  BY <1>1, <1>2, <1>3, <1>4, <1>5, <1>6, <1>7, <1>8 DEF Next, Pass

(***************************************************************************)
(* The hint of a run that stops names the targets that have not succeeded, *)
(* no more and no fewer, or the waves --until left when there are none.    *)
(***************************************************************************)
THEOREM HintsAreExact == Spec => []HintIsWhatIsLeft
<1>1. Init => StopInv
  BY DEF Init, StopInv, HintIsWhatIsLeft
<1>2. StopInv => HintIsWhatIsLeft
  BY DEF StopInv
<1>3. QED
  BY <1>1, <1>2, StopStep, Invariant, PTL DEF Spec

(***************************************************************************)
(* A failure ends the roll-out: no node after the failed one's batch has   *)
(* been started, or sent anything, ever.                                   *)
(***************************************************************************)
THEOREM FailureIsTheEnd == Spec => []LaterNodesUntouched
<1>1. Init => StopInv
  BY DEF Init, StopInv, HintIsWhatIsLeft
<1>2. IInv /\ StopInv => LaterNodesUntouched
  BY DEF StopInv, IInv, Progress, LaterNodesUntouched
<1>3. QED
  BY <1>1, <1>2, StopStep, Invariant, PTL DEF Spec

-----------------------------------------------------------------------------
(* The health gate and the soak.                                           *)

(* A pass whose batches are looked at: it enacts, and something follows. *)
SomethingFollows == ~run.inert /\ (done < N \/ More)

(* A target of the batches so far that its command changed. *)
DidChange(p) == p \in Pos /\ p <= done /\ node[p] = "changed"

(* The wave of p is over. *)
Closed(p) == \E e \in run.ends : p <= e /\ e <= done

(***************************************************************************)
(* Why a gate or a soak is never skipped: a batch never runs over the end  *)
(* of a wave, actedInWave remembers what the wave under way changed, and   *)
(* whatever the pass does next, it has looked at what it owes a look.      *)
(***************************************************************************)
GateInv ==
  /\ pc = "batch" => done < upto /\ \A p \in Pos : done < p /\ p < upto => ~EndsWave(p)
  /\ \A p \in Pos : DidChange(p) /\ ~Closed(p) => actedInWave
  /\ SomethingFollows /\ run.health /\ pc \in {"loop", "batch", "returned"} =>
       \A p \in Pos : DidChange(p) => p <= seen.looked
  /\ SomethingFollows /\ run.soak /\ pc \in {"loop", "batch", "gate", "returned"} =>
       \A p \in Pos : DidChange(p) /\ Closed(p) => p <= seen.soaked
  /\ SomethingFollows /\ run.soak /\ run.health /\ pc \in {"loop", "batch", "returned"} =>
       \A p \in Pos : DidChange(p) /\ Closed(p) => p <= seen.watched

(* What a batch that succeeds leaves owing is what AfterBatch goes on to. *)
LEMMA BatchGateStep == IInv /\ GateInv /\ BatchSucceeded => GateInv'
<1> SUFFICES ASSUME IInv, GateInv, BatchSucceeded PROVE GateInv'
  OBVIOUS
<1> DEFINE acted == \E p \in Batch : node[p] = "changed"
<1>1. /\ pc = "batch" /\ done' = upto /\ done < upto
      /\ UNCHANGED <<run, upto, node, seen>>
      /\ actedInWave' = (actedInWave \/ acted)
      /\ pc' = AfterBatch(acted, actedInWave \/ acted)
  BY DEF BatchSucceeded, Covered, GateInv
<1>2. /\ done \in Nat /\ upto \in Nat /\ upto <= N /\ N \in Nat
      /\ run.ends \in SUBSET Pos
      /\ seen.looked \in Nat /\ seen.soaked \in Nat /\ seen.watched \in Nat
  BY DEF IInv, TypeOK, RunSpace
<1>3. SomethingFollows' => SomethingFollows /\ ~(run.inert \/ (upto = N /\ ~More))
  BY <1>1, <1>2 DEF SomethingFollows, More
<1>4. ASSUME NEW p \in Pos, DidChange(p)', ~acted
      PROVE  DidChange(p)
  BY <1>1, <1>2, <1>4 DEF DidChange, Batch, Pos
<1>5. ASSUME NEW p \in Pos, Closed(p), DidChange(p)
      PROVE  Closed(p)'
  BY <1>1, <1>2, <1>5 DEF Closed, Pos
<1>6. ASSUME NEW p \in Pos, DidChange(p)', Closed(p)', ~EndsWave(upto)
      PROVE  DidChange(p) /\ Closed(p)
  <2>1. PICK e \in run.ends : p <= e /\ e <= upto
    BY <1>1, <1>6 DEF Closed
  <2>2. e <= done
    BY <1>1, <1>2, <1>6, <2>1 DEF GateInv, EndsWave, Pos
  <2>3. QED
    BY <1>1, <1>2, <1>6, <2>1, <2>2 DEF Closed, DidChange, Pos
<1>7. ASSUME NEW p \in Pos, DidChange(p)', ~(actedInWave \/ acted)
      PROVE  DidChange(p) /\ Closed(p)
  BY <1>4, <1>7 DEF GateInv
<1>8. ASSUME NEW p \in Pos, DidChange(p)', ~Closed(p)'
      PROVE  actedInWave'
  BY <1>1, <1>4, <1>5, <1>8 DEF GateInv
<1>9. ASSUME SomethingFollows', run.health, pc' \in {"loop", "batch", "returned"},
             NEW p \in Pos, DidChange(p)'
      PROVE  p <= seen.looked
  <2>1. IF EndsWave(upto) THEN ~(actedInWave \/ acted) ELSE ~acted
    BY <1>1, <1>3, <1>9 DEF AfterBatch
  <2>2. DidChange(p)
    BY <1>4, <1>9, <2>1
  <2>3. QED
    BY <1>1, <1>3, <1>9, <2>2 DEF GateInv
<1>10. ASSUME SomethingFollows', run.soak, pc' \in {"loop", "batch", "gate", "returned"},
              NEW p \in Pos, DidChange(p)', Closed(p)'
       PROVE  DidChange(p) /\ Closed(p)
  <2>1. EndsWave(upto) => ~(actedInWave \/ acted)
    BY <1>1, <1>3, <1>10 DEF AfterBatch
  <2>2. QED
    BY <1>6, <1>7, <1>10, <2>1
<1>11. pc' # "batch"
  BY <1>1 DEF AfterBatch
<1>12. QED
  BY <1>1, <1>3, <1>8, <1>9, <1>10, <1>11 DEF GateInv

(* Every step keeps GateInv. *)
LEMMA GateStep == IInv /\ GateInv /\ [Next]_vars => GateInv'
<1> SUFFICES ASSUME IInv, GateInv, [Next]_vars PROVE GateInv'
  OBVIOUS
<1> USE DEF counters
<1>1. /\ done \in Nat /\ N \in Nat /\ done <= N
      /\ run.ends \in SUBSET Pos
      /\ seen \in [soaked : 0 .. N, looked : 0 .. N, watched : 0 .. N]
  BY DEF IInv, TypeOK, RunSpace
<1>2. CASE UNCHANGED <<run, done, upto, actedInWave, node, seen>>
           /\ (pc' = pc \/ pc' \in {"stopped", "refused"}
               \/ (pc = "loop" /\ pc' = "returned"))
  BY <1>2 DEF GateInv, SomethingFollows, More, DidChange, Closed, EndsWave
<1>3. CASE Begin
  BY <1>1, <1>3 DEF Begin, GoTo, GateInv, IInv, Progress, DidChange, Pos
<1>4. CASE StartBatch
  <2>1. PICK e \in Pos :
          /\ IsNextBatch(done, e)
          /\ upto' = e
          /\ node' = [p \in Pos |-> IF p \in done + 1 .. e THEN "started"
                                                           ELSE node[p]]
    BY <1>4 DEF StartBatch
  <2>2. /\ pc = "loop" /\ pc' = "batch" /\ UNCHANGED <<run, done, seen>>
        /\ actedInWave' = (done # 0 /\ ~EndsWave(done) /\ actedInWave)
    BY <1>4 DEF StartBatch
  <2>3. /\ done < e
        /\ \A p \in Pos : done < p /\ p < e => ~EndsWave(p)
    BY <1>1, <2>1 DEF IsNextBatch, GoTogether, EndsWave, Pos
  <2>4. \A p \in Pos : DidChange(p)' <=> DidChange(p)
    BY <1>1, <2>1, <2>2 DEF DidChange, Pos
  <2>5. \A p \in Pos : Closed(p)' <=> Closed(p)
    BY <2>2 DEF Closed
  <2>6. ASSUME NEW p \in Pos, DidChange(p), ~Closed(p)
        PROVE  done # 0 /\ ~EndsWave(done)
    BY <1>1, <2>6 DEF DidChange, Closed, EndsWave, Pos
  <2>7. \A p \in Pos : DidChange(p)' /\ ~Closed(p)' => actedInWave'
    BY <2>2, <2>4, <2>5, <2>6 DEF GateInv
  <2>8. SomethingFollows' <=> SomethingFollows
    BY <2>2 DEF SomethingFollows, More
  <2>9. QED
    BY <2>1, <2>2, <2>3, <2>4, <2>5, <2>7, <2>8 DEF GateInv, EndsWave
<1>5. CASE Soak
  <2>1. CASE Stopped
    BY <1>2, <2>1 DEF Stopped, StopWith
  <2>2. CASE ~Stopped
    <3>1. /\ pc = "soak" /\ seen' = [seen EXCEPT !.soaked = done]
          /\ pc' = IF run.health THEN "gate" ELSE "loop"
          /\ UNCHANGED <<run, done, upto, actedInWave, node>>
      BY <1>5, <2>2 DEF Soak
    <3>2. seen'.soaked = done
      BY <1>1, <3>1
    <3>3. QED
      BY <1>1, <3>1, <3>2
         DEF GateInv, SomethingFollows, More, DidChange, Closed, EndsWave, Pos
  <2>3. QED
    BY <2>1, <2>2
<1>6. CASE GateOpens
  <2>1. /\ pc = "gate" /\ pc' = "loop"
        /\ seen' = [seen EXCEPT !.looked = done, !.watched = seen.soaked]
        /\ UNCHANGED <<run, done, upto, actedInWave, node>>
    BY <1>6 DEF GateOpens
  <2>2. seen'.looked = done /\ seen'.watched = seen.soaked
        /\ seen'.soaked = seen.soaked
    BY <1>1, <2>1
  <2>3. QED
    BY <1>1, <2>1, <2>2
       DEF GateInv, SomethingFollows, More, DidChange, Closed, EndsWave, Pos
<1>7. CASE BatchFailed \/ GateFails \/ Return
  BY <1>2, <1>7 DEF BatchFailed, GateFails, Return, Stopped, StopWith, GoTo
<1>8. ASSUME NEW p \in Pos, Command(p)
      PROVE  GateInv'
  <2>1. /\ p \in done + 1 .. upto
        /\ UNCHANGED <<run, pc, done, upto, actedInWave, seen>>
        /\ \A q \in Pos : q # p => node'[q] = node[q]
    BY <1>8 DEF Command, Skip, Send, Succeed, Fail, IInv, TypeOK, Batch
  <2>2. \A q \in Pos : DidChange(q)' <=> DidChange(q)
    BY <1>1, <2>1 DEF DidChange, Pos
  <2>3. QED
    BY <2>1, <2>2 DEF GateInv, SomethingFollows, More, Closed, EndsWave
<1>9. CASE Interrupt \/ (\E p \in Pos : Machine(p)) \/ UNCHANGED vars
  BY <1>2, <1>9 DEF Interrupt, Machine, vars
<1>10. QED
  BY <1>3, <1>4, <1>5, <1>6, <1>7, <1>8, <1>9, BatchGateStep DEF Next, Pass

(* GateInv holds throughout. *)
LEMMA GateInvariant == Spec => []GateInv
<1>1. Init => GateInv
  BY DEF Init, GateInv, DidChange, Pos
<1>2. QED
  BY <1>1, GateStep, Invariant, PTL DEF Spec

(***************************************************************************)
(* With --health, no batch starts over a change no gate has looked at.     *)
(***************************************************************************)
THEOREM EveryBatchIsGated == Spec => []BatchesGated
<1>1. IInv /\ GateInv => BatchesGated
  BY DEF BatchesGated, GateInv, SomethingFollows, DidChange, IInv, TypeOK, Pos
<1>2. QED
  BY <1>1, Invariant, GateInvariant, PTL

(***************************************************************************)
(* What a wave changed has soaked, and the gate looked after the soak,     *)
(* before the next wave starts, and before the run ends short of it.       *)
(***************************************************************************)
THEOREM EveryWaveIsWatched == Spec => []WavesWatched
<1>1. IInv /\ GateInv => WavesWatched
  BY DEF WavesWatched, GateInv, SomethingFollows, More, DidChange, Closed, IInv, TypeOK, Pos
<1>2. QED
  BY <1>1, Invariant, GateInvariant, PTL

-----------------------------------------------------------------------------
(* The waves of a run.                                                     *)

(* A set of numbers has a least one. *)
LEMMA LeastOfSome ==
  ASSUME NEW S, S \subseteq Nat, S # {}
  PROVE  \E m \in S : \A x \in S : m <= x
<1> DEFINE Less == OpToRel(<, Nat)
<1>1. \A v, w \in Nat : <<v, w>> \in Less <=> v < w
  BY DEF OpToRel
<1>2. IsWellFoundedOn(Less, Nat)
  BY NatLessThanWellFounded
<1> HIDE DEF Less
<1>3. PICK m \in S : \A x \in S : ~(<<x, m>> \in Less)
  BY <1>2, WFMin, Zenon
<1>4. ASSUME NEW x \in S PROVE m <= x
  <2>1. x \in Nat /\ m \in Nat
    OBVIOUS
  <2>2. ~(x < m)
    BY <1>1, <1>3, <2>1, Zenon
  <2> QED
    BY <2>1, <2>2
<1> QED
  BY <1>4

(* A set of numbers up to d has a greatest one. *)
LEMMA GreatestOfSome ==
  ASSUME NEW d \in Nat, NEW S, S \subseteq 0 .. d, S # {}
  PROVE  \E m \in S : \A x \in S : m >= x
<1> DEFINE T == {d - x : x \in S}
<1>1. T \subseteq Nat /\ T # {}
  <2>1. \A x \in S : x \in Nat /\ x <= d /\ d - x \in Nat
    OBVIOUS
  <2> QED
    BY <2>1
<1>2. PICK t \in T : \A u \in T : t <= u
  BY <1>1, LeastOfSome
<1>3. PICK m \in S : t = d - m
  BY <1>2
<1>4. ASSUME NEW x \in S PROVE m >= x
  <2>1. d - m <= d - x
    BY <1>2, <1>3
  <2> QED
    BY <2>1
<1> QED
  BY <1>4

(***************************************************************************)
(* A target's wave is the first that ends at or after it, and the last     *)
(* wave that d targets cover is the last that ends at or before d.         *)
(***************************************************************************)
LEMMA WavesLaidOut ==
  ASSUME TypeOK
  PROVE  /\ run.ends \subseteq Pos /\ N \in run.ends
         /\ \A p \in Pos : /\ WaveOf(p) \in run.ends /\ p <= WaveOf(p)
                           /\ \A e \in run.ends : p <= e => WaveOf(p) <= e
         /\ WaveOf(Later) = Later
<1>1. run.ends \subseteq Pos /\ N \in run.ends
  BY DEF TypeOK, RunSpace
<1>2. ASSUME NEW p \in Pos
      PROVE  /\ WaveOf(p) \in run.ends /\ p <= WaveOf(p)
             /\ \A e \in run.ends : p <= e => WaveOf(p) <= e
  <2> DEFINE S == {e \in run.ends : p <= e}
  <2>1. S \subseteq Nat /\ N \in S
    BY <1>1 DEF Pos
  <2>2. \E m \in S : \A x \in S : m <= x
    BY <2>1, LeastOfSome
  <2>3. Min(S) \in S /\ \A x \in S : Min(S) <= x
    BY <2>2 DEF Min
  <2>4. WaveOf(p) = Min(S)
    BY DEF WaveOf, Later, Pos
  <2> QED
    BY <2>3, <2>4
<1>3. WaveOf(Later) = Later
  BY DEF WaveOf
<1> QED
  BY <1>1, <1>2, <1>3

LEMMA LastEndIs ==
  ASSUME TypeOK, NEW d \in 0 .. N
  PROVE  /\ LastEndBy(d) = 0 \/ LastEndBy(d) \in run.ends
         /\ LastEndBy(d) \in 0 .. N /\ LastEndBy(d) <= d
         /\ \A e \in run.ends : e <= d => e <= LastEndBy(d)
<1> DEFINE S == {0} \cup {e \in run.ends : e <= d}
<1>1. run.ends \subseteq Pos
  BY WavesLaidOut
<1>2. S \subseteq 0 .. d /\ S # {} /\ d \in Nat
  BY <1>1 DEF Pos
<1>3. \E m \in S : \A x \in S : m >= x
  BY <1>2, GreatestOfSome
<1>4. Max(S) \in S /\ \A x \in S : Max(S) >= x
  BY <1>3 DEF Max
<1>5. LastEndBy(d) = Max(S)
  BY DEF LastEndBy
<1> QED
  BY <1>1, <1>2, <1>4, <1>5 DEF Pos

(* Where the wave under way begins and ends. *)
LEMMA WaveUnderWay ==
  ASSUME TypeOK, NEW d \in 0 .. N - 1
  PROVE  LET a == LastEndBy(d)
             v == WaveOf(d + 1)
         IN  /\ v \in run.ends /\ a < v /\ d < v
             /\ \A e \in run.ends : e > a => v <= e
             /\ \A p \in Pos : (p <= a <=> WaveOf(p) <= a)
             /\ \A p \in Pos : (WaveOf(p) = v <=> a < p /\ p <= v)
             /\ \A p \in Pos : (WaveOf(p) >= v <=> a < p)
<1> DEFINE a == LastEndBy(d)
           v == WaveOf(d + 1)
<1>1. d \in 0 .. N /\ d + 1 \in Pos
  BY DEF Pos
<1>2. /\ a = 0 \/ a \in run.ends
      /\ a \in 0 .. N /\ a <= d
      /\ \A e \in run.ends : e <= d => e <= a
  BY <1>1, LastEndIs
<1>3. /\ v \in run.ends /\ d + 1 <= v
      /\ \A e \in run.ends : d + 1 <= e => v <= e
  BY <1>1, WavesLaidOut
<1>4. run.ends \subseteq Pos
  BY WavesLaidOut
<1>5. v \in Nat /\ a \in Nat /\ d \in Nat /\ a < v /\ d < v
  BY <1>2, <1>3, <1>4 DEF Pos
<1> HIDE DEF a, v
<1>6. \A e \in run.ends : e > a => v <= e
  BY <1>2, <1>3, <1>4, <1>5 DEF Pos
<1>7. ASSUME NEW p \in Pos
      PROVE  /\ (p <= a <=> WaveOf(p) <= a)
             /\ (WaveOf(p) = v <=> a < p /\ p <= v)
             /\ (WaveOf(p) >= v <=> a < p)
  <2>1. /\ WaveOf(p) \in run.ends /\ p <= WaveOf(p)
        /\ \A e \in run.ends : p <= e => WaveOf(p) <= e
    BY WavesLaidOut
  <2>2. p \in Nat /\ WaveOf(p) \in Nat
    BY <1>4, <2>1 DEF Pos
  <2>3. p <= a => WaveOf(p) <= a
    <3>1. a = 0 => ~(p <= a)
      BY DEF Pos
    <3> QED
      BY <1>2, <2>1, <3>1
  <2>4. p <= v => WaveOf(p) <= v
    BY <1>3, <2>1
  <2>5. p > a => WaveOf(p) >= v
    BY <1>5, <1>6, <2>1, <2>2
  <2> QED
    BY <1>5, <2>1, <2>2, <2>3, <2>4, <2>5
<1> QED
  BY <1>3, <1>5, <1>6, <1>7 DEF a, v

(***************************************************************************)
(* The plan of the command: every target, wave by wave, up to the one      *)
(* --until stops short of.                                                 *)
(***************************************************************************)
LEMMA PlanOfTheRun ==
  ASSUME TypeOK
  PROVE  /\ OneRun!Kept(Command1) = run.ends
         /\ OneRun!Planned(Command1) = Pos
         /\ OneRun!ThenFrom(Command1) = IF run.until THEN Later ELSE 0
         /\ ~OneRun!Refused(Command1)
         /\ OneRun!More(Command1) <=> More
<1> DEFINE w == [p \in All |-> WaveOf(p)]
           c == Command1
<1>1. /\ run.ends \subseteq Pos /\ N \in run.ends
      /\ \A p \in Pos : /\ WaveOf(p) \in run.ends /\ p <= WaveOf(p)
                        /\ \A e \in run.ends : p <= e => WaveOf(p) <= e
      /\ WaveOf(Later) = Later
  BY WavesLaidOut
<1>2. N \in Nat \ {0} /\ Pos = 1 .. N /\ All = 1 .. Later /\ Later = N + 1
  BY DEF Pos, All, Later
<1>3. run.until \in BOOLEAN /\ run.beyond \in BOOLEAN /\ More = (run.until \/ run.beyond)
  BY DEF TypeOK, RunSpace, More
<1>4. \A e \in run.ends : WaveOf(e) = e
  BY <1>1, <1>2
<1>5. {w[n] : n \in Pos} = run.ends
  <2>1. \A n \in Pos : n \in All /\ w[n] = WaveOf(n)
    BY <1>2
  <2> HIDE DEF w
  <2>2. \A n \in Pos : w[n] \in run.ends
    BY <1>1, <2>1
  <2>3. \A e \in run.ends : e \in Pos /\ w[e] = e
    BY <1>1, <1>4, <2>1
  <2> QED
    BY <2>2, <2>3
<1>6. {w[n] : n \in All} = run.ends \cup {Later}
  <2>1. All = Pos \cup {Later}
    BY <1>2
  <2> QED
    BY <1>1, <1>5, <2>1
<1>7. /\ c.nodes = IF More THEN All ELSE Pos
      /\ c.only = IF ~run.beyond THEN {} ELSE IF run.until THEN run.ends \cup {Later} ELSE run.ends
      /\ c.from = 1
      /\ c.until = IF run.until THEN N ELSE Later
  BY DEF Command1
<1> HIDE DEF c
<1>8. OneRun!Selected(c) = run.ends \cup (IF run.until THEN {Later} ELSE {})
  <2>1. OneRun!Selected(c) =
          {v \in {w[n] : n \in c.nodes} : (c.only = {} \/ v \in c.only) /\ v >= c.from}
    BY DEF OneRun!Selected
  <2> HIDE DEF w
  <2>2. {w[n] : n \in c.nodes} = IF More THEN run.ends \cup {Later} ELSE run.ends
    BY <1>5, <1>6, <1>7
  <2>3. \A v \in run.ends \cup {Later} : v >= 1
    BY <1>1, <1>2
  <2>4. Later \notin run.ends
    BY <1>1, <1>2
  <2> QED
    BY <1>1, <1>3, <1>7, <2>1, <2>2, <2>3, <2>4
<1>9. OneRun!Kept(c) = run.ends
  BY <1>1, <1>2, <1>3, <1>7, <1>8 DEF OneRun!Kept
<1>10. OneRun!Planned(c) = Pos
  <2>1. OneRun!Planned(c) = {n \in c.nodes : w[n] \in OneRun!Kept(c)}
    BY DEF OneRun!Planned
  <2>2. \A n \in Pos : n \in All /\ n \in c.nodes /\ w[n] \in run.ends
    BY <1>1, <1>2, <1>7
  <2>3. \A n \in c.nodes : n \in Pos \/ n = Later
    BY <1>2, <1>7
  <2>4. w[Later] \notin run.ends
    BY <1>1, <1>2
  <2> HIDE DEF w
  <2> QED
    BY <1>9, <2>1, <2>2, <2>3, <2>4
<1>11. OneRun!ThenFrom(c) = IF run.until THEN Later ELSE 0
  <2> DEFINE S == {v \in OneRun!Selected(c) : v > c.until}
  <2>1. S = IF run.until THEN {Later} ELSE {}
    BY <1>1, <1>2, <1>3, <1>7, <1>8
  <2>2. OneRun!ThenFrom(c) = IF S = {} THEN 0 ELSE OneRun!Min(S)
    BY DEF OneRun!ThenFrom
  <2>3. S = {Later} => OneRun!Min(S) = Later
    BY <1>2 DEF OneRun!Min
  <2> QED
    BY <2>1, <2>2, <2>3
<1>12. ~OneRun!Refused(c)
  BY <1>1, <1>2, <1>7, <1>9 DEF OneRun!Refused
<1>13. OneRun!More(c) <=> More
  <2>1. OneRun!Max(run.ends) = N
    <3>1. \A e \in run.ends : N >= e
      BY <1>1, <1>2
    <3>2. \A x, y \in run.ends : x >= y /\ y >= x => x = y
      BY <1>1, <1>2
    <3> QED
      BY <1>1, <3>1, <3>2 DEF OneRun!Max
  <2>2. OneRun!More(c) <=>
          \/ run.until
          \/ c.only # {} /\ \E n \in c.nodes : w[n] > N
    <3>1. OneRun!More(c) <=>
            \/ OneRun!ThenFrom(c) # 0
            \/ c.only # {} /\ \E n \in c.nodes : w[n] > OneRun!Max(OneRun!Kept(c))
      BY DEF OneRun!More
    <3>2. OneRun!ThenFrom(c) # 0 <=> run.until
      BY <1>2, <1>3, <1>11
    <3> QED
      BY <1>9, <2>1, <3>1, <3>2
  <2>3. run.beyond => c.only # {} /\ Later \in c.nodes /\ w[Later] > N
    <3>1. Later \in All /\ w[Later] = Later /\ Later > N
      BY <1>1, <1>2
    <3>2. run.ends # {}
      BY <1>1
    <3> QED
      BY <1>3, <1>7, <3>1, <3>2
  <2>4. c.only # {} => run.beyond
    BY <1>7
  <2> QED
    BY <1>3, <2>2, <2>3, <2>4
<1> QED
  BY <1>9, <1>10, <1>11, <1>12, <1>13 DEF c

-----------------------------------------------------------------------------
(* What a run does, wave by wave.                                          *)

(***************************************************************************)
(* Why what follows a wave is the watch Campaign has there: the pass soaks *)
(* at the end of a wave only, neither soaks nor gates when nothing         *)
(* follows, and takes a wave for acted on only if it was.                  *)
(***************************************************************************)
WatchInv ==
  /\ pc = "soak" => EndsWave(done)
  /\ pc \in {"soak", "gate"} /\ done = N => More
  /\ actedInWave /\ (pc = "batch" \/ ~EndsWave(done)) =>
       \E p \in Pos : DidChange(p) /\ ~Closed(p)

(* Every step keeps WatchInv. *)
LEMMA WatchStep == IInv /\ GateInv /\ WatchInv /\ [Next]_vars => WatchInv'
<1> SUFFICES ASSUME IInv, GateInv, WatchInv, [Next]_vars PROVE WatchInv'
  OBVIOUS
<1> USE DEF counters
<1>1. /\ done \in Nat /\ upto \in Nat /\ N \in Nat /\ done <= N /\ upto <= N
      /\ run.ends \in SUBSET Pos
  BY DEF IInv, TypeOK, RunSpace
<1>2. CASE UNCHANGED <<run, done, actedInWave, node>>
           /\ \/ pc' = pc
              \/ pc' \in {"loop", "returned", "stopped", "refused"}
              \/ pc = "soak" /\ pc' = "gate"
  BY <1>2 DEF WatchInv, More, DidChange, Closed, EndsWave
<1>3. CASE StartBatch
  <2>1. /\ pc' = "batch" /\ UNCHANGED <<run, done>>
        /\ actedInWave' = (done # 0 /\ ~EndsWave(done) /\ actedInWave)
        /\ \A p \in Pos : p <= done => node'[p] = node[p]
    BY <1>1, <1>3 DEF StartBatch, Pos
  <2>2. ASSUME actedInWave'
        PROVE  \E p \in Pos : DidChange(p)' /\ ~Closed(p)'
    BY <2>1, <2>2 DEF WatchInv, DidChange, Closed
  <2> QED
    BY <2>1, <2>2 DEF WatchInv
<1>4. CASE BatchSucceeded
  <2> DEFINE acted == \E p \in Batch : node[p] = "changed"
  <2>1. /\ pc = "batch" /\ done' = upto /\ done < upto
        /\ UNCHANGED <<run, upto, node>>
        /\ actedInWave' = (actedInWave \/ acted)
        /\ pc' = AfterBatch(acted, actedInWave \/ acted)
    BY <1>4 DEF BatchSucceeded, Covered, GateInv
  <2>2. /\ pc' \in {"loop", "soak", "gate"}
        /\ pc' = "soak" => EndsWave(upto)
        /\ pc' # "loop" /\ upto = N => More
    BY <2>1 DEF AfterBatch
  <2>3. ASSUME actedInWave', ~EndsWave(upto)
        PROVE  \E p \in Pos : DidChange(p)' /\ ~Closed(p)'
    <3>1. \A p \in Pos : done < p /\ p <= upto => ~EndsWave(p)
      <4>1. \A p \in Pos : done < p /\ p < upto => ~EndsWave(p)
        BY <2>1 DEF GateInv
      <4>2. \A p \in Pos : p <= upto => p < upto \/ p = upto
        BY <1>1 DEF Pos
      <4> QED
        BY <2>3, <4>1, <4>2
    <3>2. CASE actedInWave
      <4>1. PICK p \in Pos : DidChange(p) /\ ~Closed(p)
        BY <2>1, <3>2 DEF WatchInv
      <4>2. DidChange(p)'
        BY <1>1, <2>1, <4>1 DEF DidChange, Pos
      <4>3. ~Closed(p)'
        BY <1>1, <2>1, <3>1, <4>1 DEF Closed, EndsWave, Pos
      <4> QED
        BY <4>2, <4>3
    <3>3. CASE acted
      <4>1. PICK p \in Batch : node[p] = "changed"
        BY <3>3
      <4>2. p \in Pos /\ done < p /\ p <= upto
        BY <1>1, <4>1 DEF Batch, Pos
      <4>3. DidChange(p)'
        BY <2>1, <4>1, <4>2 DEF DidChange
      <4>4. ~Closed(p)'
        BY <1>1, <2>1, <3>1, <4>2 DEF Closed, EndsWave, Pos
      <4> QED
        BY <4>2, <4>3, <4>4
    <3> QED
      BY <2>1, <2>3, <3>2, <3>3
  <2>4. EndsWave(upto)' <=> EndsWave(upto)
    BY <2>1 DEF EndsWave
  <2>5. More' = More
    BY <2>1 DEF More
  <2> QED
    BY <2>1, <2>2, <2>3, <2>4, <2>5 DEF WatchInv, EndsWave
<1>5. ASSUME NEW p \in Pos, Command(p)
      PROVE  WatchInv'
  <2>1. /\ p \in done + 1 .. upto
        /\ UNCHANGED <<run, pc, done, actedInWave>>
        /\ \A q \in Pos : q # p => node'[q] = node[q]
    BY <1>5 DEF Command, Skip, Send, Succeed, Fail, IInv, TypeOK, Batch
  <2>2. \A q \in Pos : DidChange(q)' <=> DidChange(q)
    BY <1>1, <2>1 DEF DidChange, Pos
  <2> QED
    BY <2>1, <2>2 DEF WatchInv, More, Closed, EndsWave
<1>6. CASE Soak \/ GateOpens \/ GateFails \/ Return \/ BatchFailed \/ Begin
  BY <1>2, <1>6 DEF Soak, GateOpens, GateFails, Return, BatchFailed, Begin,
                    Stopped, StopWith, GoTo
<1>7. CASE Interrupt \/ (\E p \in Pos : Machine(p)) \/ UNCHANGED vars
  BY <1>2, <1>7 DEF Interrupt, Machine, vars
<1> QED
  BY <1>3, <1>4, <1>5, <1>6, <1>7 DEF Next, Pass

(* What a run is, seen as one of a Campaign, between its start and its end. *)
InRun == pc \in {"loop", "batch", "soak", "gate"}

LEMMA MidRun ==
  InRun => /\ Fell = FALSE
           /\ Reached = LastEnd
           /\ Finished = 1 .. LastEnd
           /\ Carried = Command1
           /\ Place = IF Watching THEN "watch" ELSE "wave"
           /\ Changed = {p \in 1 .. LastEnd : node[p] = "changed" /\ Watches}
           /\ Unwatched = {p \in Changed : WaveOf(p) = LastEnd
                                           /\ (Watching \/ (done = N /\ ~More))}
<1> HAVE InRun
<1>1. Fell = FALSE
  BY DEF Fell, InRun
<1>2. Reached = LastEnd /\ Finished = 1 .. LastEnd
  BY <1>1 DEF Reached, Finished
<1>3. Carried = Command1
  BY DEF Carried, InRun
<1>4. Place = IF Watching THEN "watch" ELSE "wave"
  BY DEF Place, InRun
<1>5. Changed = {p \in 1 .. LastEnd : node[p] = "changed" /\ Watches}
  BY <1>2 DEF Changed
<1>6. Unwatched = {p \in Changed : WaveOf(p) = LastEnd
                                   /\ (Watching \/ (done = N /\ ~More))}
  BY <1>1 DEF Unwatched
<1> QED
  BY <1>1, <1>2, <1>3, <1>4, <1>5, <1>6

LEMMA MidRunNext ==
  InRun' => (/\ Fell = FALSE
             /\ Reached = LastEnd
             /\ Finished = 1 .. LastEnd
             /\ Carried = Command1
             /\ Place = IF Watching THEN "watch" ELSE "wave"
             /\ Changed = {p \in 1 .. LastEnd : node[p] = "changed" /\ Watches}
             /\ Unwatched = {p \in Changed : WaveOf(p) = LastEnd
                                             /\ (Watching \/ (done = N /\ ~More))})'
  BY MidRun, PTL

(* The waves and the first command are fixed with the run. *)
LEMMA RunStays ==
  ASSUME UNCHANGED run
  PROVE  /\ UNCHANGED [p \in All |-> WaveOf(p)]
         /\ \A p : WaveOf(p)' = WaveOf(p)
         /\ UNCHANGED <<Command1, Watches, More>>
<1>1. ASSUME NEW p
      PROVE  WaveOf(p)' = WaveOf(p)
  BY DEF WaveOf
<1>2. UNCHANGED More
  BY DEF More
<1>3. UNCHANGED Command1
  BY <1>2 DEF Command1
<1>4. UNCHANGED Watches
  BY DEF Watches
<1> QED
  BY <1>1, <1>2, <1>3, <1>4

(* Inside a wave nothing of the run shows. *)
LEMMA StaysPut ==
  ASSUME InRun, InRun', UNCHANGED <<run, LastEnd>>,
         Watching' <=> Watching, (done = N)' <=> (done = N),
         \A p \in 1 .. LastEnd : node'[p] = node[p]
  PROVE  UNCHANGED OneRun!vars
<1>1. /\ UNCHANGED [p \in All |-> WaveOf(p)]
      /\ \A p : WaveOf(p)' = WaveOf(p)
      /\ UNCHANGED <<Command1, Watches, More>>
  BY RunStays
<1>2. UNCHANGED <<Fell, Reached, Finished, Carried, Place>>
  <2>1. UNCHANGED <<Fell, Carried>>
    BY <1>1, MidRun, MidRunNext
  <2>2. UNCHANGED <<Reached, Finished>>
    BY MidRun, MidRunNext
  <2>3. UNCHANGED Place
    BY MidRun, MidRunNext
  <2> QED
    BY <2>1, <2>2, <2>3
<1>3. UNCHANGED Changed
  <2>1. Changed = {p \in 1 .. LastEnd : node[p] = "changed" /\ Watches}
    BY MidRun
  <2>2. Changed' = {p \in 1 .. LastEnd : node'[p] = "changed" /\ Watches}
    BY <1>1, MidRunNext
  <2> QED
    BY <2>1, <2>2
<1>4. UNCHANGED Unwatched
  <2>1. Unwatched = {p \in Changed : WaveOf(p) = LastEnd
                                     /\ (Watching \/ (done = N /\ ~More))}
    BY MidRun
  <2>2. Unwatched' = {p \in Changed : WaveOf(p)' = LastEnd
                                      /\ (Watching' \/ ((done = N)' /\ ~More))}
    BY <1>1, <1>3, MidRunNext
  <2> QED
    BY <1>1, <2>1, <2>2
<1> QED
  BY <1>1, <1>2, <1>3, <1>4 DEF OneRun!vars

(* Nor does what the mapping does not read. *)
LEMMA StaysTheSame ==
  ASSUME UNCHANGED <<run, pc, done, upto, node, hint>>
  PROVE  UNCHANGED OneRun!vars
<1>1. /\ UNCHANGED [p \in All |-> WaveOf(p)]
      /\ \A p : WaveOf(p)' = WaveOf(p)
      /\ UNCHANGED <<Command1, Watches, More>>
  BY RunStays
<1>2. UNCHANGED <<LastEnd, Watching, Fell>>
  BY DEF LastEnd, LastEndBy, Watching, EndsWave, Fell
<1>3. UNCHANGED Reached
  BY <1>1, <1>2 DEF Reached
<1>4. UNCHANGED Finished
  BY <1>2 DEF Finished
<1>5. UNCHANGED Changed
  BY <1>1, <1>4 DEF Changed
<1>6. UNCHANGED Unwatched
  BY <1>1, <1>2, <1>5 DEF Unwatched
<1>7. UNCHANGED Place
  BY <1>2 DEF Place
<1>8. UNCHANGED Carried
  BY <1>1 DEF Carried
<1> QED
  BY <1>1, <1>2, <1>3, <1>4, <1>5, <1>6, <1>7, <1>8 DEF OneRun!vars

(***************************************************************************)
(* The wave Campaign has come to is the one the next batch is of, and its  *)
(* members are the targets from the end of the last one to its own.        *)
(***************************************************************************)
LEMMA WhatIsAhead ==
  ASSUME TypeOK, InRun
  PROVE  /\ OneRun!Ahead = {e \in run.ends : e > LastEnd}
         /\ \A v : OneRun!Members(v) = {p \in Command1.nodes : p \in All /\ WaveOf(p) = v}
<1>1. OneRun!Ahead = {e \in run.ends : e > LastEnd}
  BY MidRun, PlanOfTheRun DEF OneRun!Ahead
<1>2. ASSUME NEW v
      PROVE  OneRun!Members(v) = {p \in Command1.nodes : p \in All /\ WaveOf(p) = v}
  <2>1. Command1.nodes \subseteq All
    BY DEF Command1, All, Later, Pos
  <2> QED
    BY <2>1, MidRun DEF OneRun!Members
<1> QED
  BY <1>1, <1>2

LEMMA WaveAhead ==
  ASSUME TypeOK, InRun, done < N, NEW v, v = WaveOf(done + 1)
  PROVE  /\ OneRun!Ahead # {} /\ OneRun!NextWave = v
         /\ v \in run.ends /\ LastEnd \in 0 .. N /\ LastEnd <= done /\ done < v
         /\ \A p \in Pos : WaveOf(p) = v <=> LastEnd < p /\ p <= v
         /\ \A p \in Pos : WaveOf(p) >= v <=> LastEnd < p
         /\ OneRun!Members(v) = LastEnd + 1 .. v
         /\ OneRun!Ahead # {v} <=> v # N
<1>1. done \in 0 .. N - 1 /\ done \in 0 .. N
  BY DEF TypeOK
<1>2. /\ v \in run.ends /\ LastEnd < v /\ done < v
      /\ \A e \in run.ends : e > LastEnd => v <= e
      /\ \A p \in Pos : WaveOf(p) = v <=> LastEnd < p /\ p <= v
      /\ \A p \in Pos : WaveOf(p) >= v <=> LastEnd < p
  BY <1>1, WaveUnderWay DEF LastEnd
<1>3. LastEnd \in 0 .. N /\ LastEnd <= done
  BY <1>1, LastEndIs DEF LastEnd
<1>4. run.ends \subseteq Pos /\ N \in run.ends /\ WaveOf(Later) = Later
  BY WavesLaidOut
<1>5. OneRun!Ahead = {e \in run.ends : e > LastEnd}
  BY WhatIsAhead
<1>6. OneRun!Ahead # {}
  BY <1>2, <1>5
<1>7. OneRun!NextWave = v
  <2>1. v \in OneRun!Ahead /\ \A e \in OneRun!Ahead : v <= e
    BY <1>2, <1>5
  <2>2. OneRun!Ahead \subseteq Nat
    BY <1>4, <1>5 DEF Pos
  <2>3. OneRun!NextWave = CHOOSE x \in OneRun!Ahead : \A y \in OneRun!Ahead : x =< y
    BY DEF OneRun!NextWave, OneRun!Min
  <2>4. \A x \in OneRun!Ahead : (\A y \in OneRun!Ahead : x =< y) => x = v
    BY <2>1, <2>2
  <2> QED
    BY <2>1, <2>3, <2>4
<1>8. OneRun!Members(v) = LastEnd + 1 .. v
  <2>1. OneRun!Members(v) = {p \in Command1.nodes : p \in All /\ WaveOf(p) = v}
    BY WhatIsAhead
  <2>2. Pos \subseteq Command1.nodes /\ \A p \in All : p \in Pos \/ p = Later
    BY DEF Command1, All, Pos, Later
  <2>3. v # Later /\ Pos \subseteq All
    BY <1>2, <1>4 DEF Pos, Later, All
  <2>4. OneRun!Members(v) = {p \in Pos : WaveOf(p) = v}
    BY <1>4, <2>1, <2>2, <2>3
  <2>5. v \in 1 .. N /\ LastEnd \in Nat
    BY <1>2, <1>3, <1>4 DEF Pos
  <2>6. \A p \in Pos : WaveOf(p) = v <=> p \in LastEnd + 1 .. v
    BY <1>2, <2>5 DEF Pos
  <2>7. LastEnd + 1 .. v \subseteq Pos
    BY <2>5 DEF Pos
  <2> QED
    BY <2>4, <2>6, <2>7
<1>9. OneRun!Ahead # {v} <=> v # N
  <2>1. v = N => OneRun!Ahead = {v}
    BY <1>2, <1>4, <1>5 DEF Pos
  <2>2. v # N => N \in OneRun!Ahead
    BY <1>2, <1>3, <1>4, <1>5 DEF Pos
  <2> QED
    BY <2>1, <2>2
<1> QED
  BY <1>2, <1>3, <1>6, <1>7, <1>8, <1>9

(* At the end of a wave that is its own last; at the end of all none is left. *)
LEMMA AtTheEnd ==
  ASSUME TypeOK, InRun, EndsWave(done)
  PROVE  /\ LastEnd = done /\ done \in Pos
         /\ OneRun!Ahead # {} <=> done # N
         /\ {p \in Pos : WaveOf(p) > done} = done + 1 .. N
<1>1. run.ends \subseteq Pos /\ N \in run.ends
  BY WavesLaidOut
<1>2. done \in 0 .. N /\ done \in run.ends /\ done \in Pos
  BY <1>1 DEF TypeOK, EndsWave
<1>3. LastEnd = done
  BY <1>1, <1>2, LastEndIs DEF LastEnd, Pos
<1>4. OneRun!Ahead = {e \in run.ends : e > done}
  BY <1>3, WhatIsAhead
<1>5. OneRun!Ahead # {} <=> done # N
  BY <1>1, <1>2, <1>4 DEF Pos
<1>6. ASSUME NEW p \in Pos
      PROVE  WaveOf(p) > done <=> p > done
  <2>1. /\ WaveOf(p) \in run.ends /\ p <= WaveOf(p)
        /\ \A e \in run.ends : p <= e => WaveOf(p) <= e
    BY WavesLaidOut
  <2> QED
    BY <1>1, <1>2, <2>1 DEF Pos
<1> QED
  BY <1>2, <1>3, <1>5, <1>6 DEF Pos

(***************************************************************************)
(* The last batch of a wave: the wave is done, and it is watched if it     *)
(* changed anything and a wave follows.                                    *)
(***************************************************************************)
LEMMA WaveIsDone ==
  ASSUME IInv, IInv', GateInv, GateInv', WatchInv, BatchSucceeded, EndsWave(upto)
  PROVE  OneRun!WaveDone
<1> DEFINE v == upto
           acted == \E p \in Batch : node[p] = "changed"
           inWave == actedInWave \/ acted
           new == {p \in LastEnd + 1 .. v : node[p] = "changed" /\ Watches}
<1>1. /\ pc = "batch" /\ done' = upto /\ done < upto
      /\ UNCHANGED <<run, upto, node>>
      /\ actedInWave' = inWave
      /\ pc' = AfterBatch(acted, inWave)
  BY DEF BatchSucceeded, Covered, GateInv
<1>2. TypeOK /\ TypeOK' /\ upto \in 1 .. N /\ done \in 0 .. N /\ done < N /\ N \in Nat
  <2>1. TypeOK /\ TypeOK' /\ upto \in 0 .. N /\ done \in 0 .. N
    BY DEF IInv, TypeOK
  <2> QED
    BY <1>1, <2>1
<1>3. InRun /\ InRun'
  BY <1>1 DEF InRun, AfterBatch
<1>4. /\ UNCHANGED [p \in All |-> WaveOf(p)]
      /\ \A p : WaveOf(p)' = WaveOf(p)
      /\ UNCHANGED <<Command1, Watches, More>>
  BY <1>1, RunStays
<1>5. run.ends \subseteq Pos /\ v \in run.ends
  BY <1>2, WavesLaidOut DEF EndsWave
<1>6. WaveOf(done + 1) = v
  <2>1. done + 1 \in Pos
    BY <1>1, <1>2 DEF Pos
  <2>2. /\ WaveOf(done + 1) \in run.ends /\ done + 1 <= WaveOf(done + 1)
        /\ WaveOf(done + 1) <= v
    BY <1>1, <1>2, <1>5, <2>1, WavesLaidOut
  <2>3. ~(WaveOf(done + 1) < v)
    BY <1>1, <1>2, <1>5, <2>2 DEF GateInv, EndsWave, Pos
  <2> QED
    BY <1>2, <1>5, <2>2, <2>3 DEF Pos
<1>7. /\ OneRun!Ahead # {} /\ OneRun!NextWave = v
      /\ LastEnd \in 0 .. N /\ LastEnd <= done
      /\ \A p \in Pos : WaveOf(p) = v <=> LastEnd < p /\ p <= v
      /\ OneRun!Members(v) = LastEnd + 1 .. v
      /\ OneRun!Ahead # {v} <=> v # N
  BY <1>2, <1>3, <1>6, WaveAhead
<1>8. LastEnd' = v
  <2>1. LastEnd' = LastEndBy(v)
    BY <1>1 DEF LastEnd, LastEndBy
  <2>2. v \in 0 .. N /\ LastEndBy(v) <= v /\ v <= LastEndBy(v) /\ LastEndBy(v) \in 0 .. N
    BY <1>2, <1>5, LastEndIs
  <2> QED
    BY <2>1, <2>2
<1>9. ~Watching /\ done # N
  BY <1>1, <1>2 DEF Watching
<1>10. /\ Fell = FALSE /\ Reached = LastEnd /\ Finished = 1 .. LastEnd
       /\ Carried = Command1 /\ Place = "wave"
       /\ Changed = {p \in 1 .. LastEnd : node[p] = "changed" /\ Watches}
       /\ Unwatched = {}
  BY <1>3, <1>9, MidRun
<1>11. /\ Fell' = FALSE /\ Reached' = v /\ Finished' = 1 .. v
       /\ Carried' = Command1
       /\ Place' = IF Watching' THEN "watch" ELSE "wave"
       /\ Changed' = {p \in 1 .. v : node[p] = "changed" /\ Watches}
       /\ Unwatched' = {p \in Changed' : WaveOf(p) = v /\ (Watching' \/ (v = N /\ ~More))}
  BY <1>1, <1>3, <1>4, <1>8, MidRunNext
<1>12. /\ 1 .. v = 1 .. LastEnd \cup (LastEnd + 1 .. v)
       /\ Changed' = Changed \cup new
       /\ new \in SUBSET (LastEnd + 1 .. v)
       /\ {p \in Changed' : WaveOf(p) = v} = new
  <2>1. 1 .. v = 1 .. LastEnd \cup (LastEnd + 1 .. v) /\ 1 .. v \subseteq Pos
    BY <1>1, <1>2, <1>7 DEF Pos
  <2>2. \A p \in 1 .. v : WaveOf(p) = v <=> p \in LastEnd + 1 .. v
    BY <1>2, <1>7, <2>1
  <2>3. Changed' = Changed \cup new
    BY <1>10, <1>11, <2>1
  <2>4. {p \in Changed' : WaveOf(p) = v} = new
    BY <1>11, <2>1, <2>2
  <2> QED
    BY <2>1, <2>3, <2>4
<1>13. new # {} <=> Watches /\ inWave
  <2>1. \A p \in Pos : DidChange(p) /\ ~Closed(p) <=> p \in LastEnd + 1 .. done /\ node[p] = "changed"
    <3>1. LastEnd = 0 \/ LastEnd \in run.ends
      BY <1>2, LastEndIs DEF LastEnd
    <3>2. \A e \in run.ends : e <= done => e <= LastEnd
      BY <1>2, LastEndIs DEF LastEnd
    <3>3. \A p \in Pos : Closed(p) <=> p <= LastEnd
      BY <1>2, <1>5, <1>7, <3>1, <3>2 DEF Closed, Pos
    <3> QED
      BY <1>2, <1>7, <3>3 DEF DidChange, Pos
  <2>2. /\ actedInWave => \E p \in LastEnd + 1 .. done : node[p] = "changed"
        /\ (\E p \in LastEnd + 1 .. done : node[p] = "changed") => actedInWave
    <3>1. LastEnd + 1 .. done \subseteq Pos
      BY <1>2, <1>7 DEF Pos
    <3> QED
      BY <1>1, <2>1, <3>1 DEF WatchInv, GateInv
  <2>3. LastEnd + 1 .. v = (LastEnd + 1 .. done) \cup Batch
    BY <1>1, <1>2, <1>7 DEF Batch
  <2> QED
    BY <2>2, <2>3
<1>14. Watching' <=> Watches /\ inWave /\ (More \/ v # N)
  <2>1. run.soak \in BOOLEAN /\ run.health \in BOOLEAN /\ run.inert \in BOOLEAN
    BY <1>2 DEF TypeOK, RunSpace
  <2>2. EndsWave(done)'
    BY <1>1 DEF EndsWave
  <2>3. Watching' <=> pc' = "soak" \/ pc' = "gate"
    BY <2>2 DEF Watching
  <2> HIDE DEF acted, inWave
  <2>4. pc' = IF run.inert \/ (v = N /\ ~More) THEN "loop"
              ELSE IF inWave /\ run.soak THEN "soak"
              ELSE IF run.health /\ inWave THEN "gate" ELSE "loop"
    BY <1>1 DEF AfterBatch
  <2> QED
    BY <2>1, <2>3, <2>4 DEF Watches
<1> HIDE DEF new, acted, inWave
<1>15. Unwatched' = new
  <2>1. CASE new = {}
    BY <1>11, <1>12, <2>1
  <2>2. CASE new # {}
    <3>1. Watching' \/ (v = N /\ ~More)
      BY <1>13, <1>14, <2>2
    <3> QED
      BY <1>11, <1>12, <3>1
  <2> QED
    BY <2>1, <2>2
<1>16. OneRun!More(Carried) <=> More
  BY <1>2, <1>10, PlanOfTheRun
<1>17. Place' = IF new # {} /\ (OneRun!More(Carried) \/ OneRun!Ahead # {v}) THEN "watch" ELSE "wave"
  BY <1>7, <1>11, <1>13, <1>14, <1>16
<1>18. /\ Reached' = v
       /\ Finished' = Finished \cup OneRun!Members(v)
       /\ (1 .. Reached)' = (1 .. Reached) \cup OneRun!Members(v)
       /\ new \in SUBSET OneRun!Members(v)
       /\ Changed' = Changed \cup new
       /\ Unwatched' = Unwatched \cup new
  BY <1>7, <1>10, <1>11, <1>12, <1>15
<1> HIDE DEF v
<1> QED
  BY <1>4, <1>7, <1>10, <1>11, <1>17, <1>18 DEF OneRun!WaveDone

(* Any other batch: nothing of the run shows. *)
LEMMA WaveGoesOn ==
  ASSUME IInv, GateInv, BatchSucceeded, ~EndsWave(upto)
  PROVE  UNCHANGED OneRun!vars
<1>1. /\ pc = "batch" /\ done' = upto /\ done < upto
      /\ UNCHANGED <<run, upto, node>>
      /\ pc' \in {"loop", "gate"}
  BY DEF BatchSucceeded, Covered, GateInv, AfterBatch
<1>2. TypeOK /\ upto \in 0 .. N /\ done \in 0 .. N /\ N \in Nat
  BY DEF IInv, TypeOK
<1>3. run.ends \subseteq Pos /\ N \in run.ends
  BY <1>2, WavesLaidOut
<1>4. done # N /\ upto # N
  BY <1>1, <1>2, <1>3 DEF EndsWave
<1>5. LastEnd' = LastEnd
  <2>1. \A e \in run.ends : e <= upto <=> e <= done
    BY <1>1, <1>2, <1>3 DEF GateInv, EndsWave, Pos
  <2>2. {e \in run.ends : e <= upto} = {e \in run.ends : e <= done}
    BY <2>1
  <2> QED
    BY <1>1, <2>2 DEF LastEnd, LastEndBy
<1>6. InRun /\ InRun' /\ ~Watching /\ ~Watching'
  BY <1>1 DEF InRun, Watching, EndsWave
<1> QED
  BY <1>1, <1>4, <1>5, <1>6, StaysPut

(* A watch that passes: the soak with no gate after it, or the gate. *)
LEMMA WatchIsOver ==
  ASSUME IInv, WatchInv, Watching, InRun, InRun', ~Watching',
         UNCHANGED <<run, done, node>>
  PROVE  OneRun!Watch
<1>1. /\ UNCHANGED [p \in All |-> WaveOf(p)]
      /\ \A p : WaveOf(p)' = WaveOf(p)
      /\ UNCHANGED <<Command1, Watches, More, LastEnd>>
  BY RunStays DEF LastEnd, LastEndBy
<1>2. done = N => More
  BY DEF Watching, WatchInv
<1>3. /\ Place = "watch" /\ Place' = "wave"
      /\ UNCHANGED <<Fell, Carried>>
  BY <1>1, MidRun, MidRunNext
<1>4. UNCHANGED <<Reached, Finished>>
  BY <1>1, MidRun, MidRunNext
<1>5. UNCHANGED Changed
  <2>1. Changed = {p \in 1 .. LastEnd : node[p] = "changed" /\ Watches}
    BY MidRun
  <2>2. Changed' = {p \in 1 .. LastEnd : node[p] = "changed" /\ Watches}
    BY <1>1, MidRunNext
  <2> QED
    BY <2>1, <2>2
<1>6. Unwatched' = {}
  BY <1>1, <1>2, MidRunNext
<1> QED
  BY <1>1, <1>3, <1>4, <1>5, <1>6 DEF OneRun!Watch

(* A wave that has ended with the pass still on is done and covered. *)
LEMMA WatchedWave ==
  ASSUME IInv, WatchInv, Watching
  PROVE  /\ TypeOK /\ InRun /\ EndsWave(done) /\ done = upto
         /\ done = N => More
BY DEF Watching, WatchInv, InRun, IInv, Progress

(***************************************************************************)
(* A watch that fails, and the run with it: the hint it stops with is the  *)
(* command to carry on with, or there is nothing to carry on with.         *)
(***************************************************************************)
LEMMA WatchStopsTheRun ==
  ASSUME IInv, WatchInv, Watching, Stopped
  PROVE  OneRun!WatchFails
<1>1. /\ hint' = [left |-> done + 1 .. N, from |-> run.until /\ done = N]
      /\ pc' = "stopped" /\ UNCHANGED <<run, done, upto, node>>
  BY DEF Stopped, StopWith, counters
<1>2. TypeOK /\ InRun /\ EndsWave(done) /\ done = upto /\ (done = N => More)
  BY WatchedWave
<1>3. /\ UNCHANGED [p \in All |-> WaveOf(p)]
      /\ \A p : WaveOf(p)' = WaveOf(p)
      /\ UNCHANGED <<Command1, Watches, More, LastEnd>>
  BY <1>1, RunStays DEF LastEnd, LastEndBy
<1>4. /\ LastEnd = done /\ done \in Pos
      /\ OneRun!Ahead # {} <=> done # N
      /\ {p \in Pos : WaveOf(p) > done} = done + 1 .. N
  BY <1>2, AtTheEnd
<1>5. N \in Nat /\ done \in 1 .. N /\ run.until \in BOOLEAN
  BY <1>2, <1>4 DEF TypeOK, RunSpace, Pos
<1>6. /\ Fell = FALSE /\ Reached = LastEnd /\ Finished = 1 .. LastEnd
      /\ Carried = Command1 /\ Place = "watch"
      /\ Changed = {p \in 1 .. LastEnd : node[p] = "changed" /\ Watches}
  BY <1>2, MidRun
<1>7. Fell' = FALSE
  BY <1>1, <1>2, <1>5 DEF Fell, EndsWave
<1>8. Reached' = LastEnd /\ Finished' = 1 .. LastEnd
  BY <1>3, <1>7 DEF Reached, Finished
<1>9. Changed' = Changed
  BY <1>1, <1>3, <1>6, <1>8 DEF Changed
<1>10. ~Watching'
  BY <1>1 DEF Watching
<1>11. Unwatched' = {}
  BY <1>1, <1>2, <1>3, <1>7, <1>10 DEF Unwatched
<1>12. OneRun!Planned(Carried) = Pos /\ OneRun!ThenFrom(Carried) = IF run.until THEN Later ELSE 0
  BY <1>2, <1>6, PlanOfTheRun
<1>13. Later # 0
  BY <1>5 DEF Later
<1>14. hint'.left = done + 1 .. N /\ hint'.from = (run.until /\ done = N)
  BY <1>1
<1>15. CASE done # N
  <2>1. hint'.left # {}
    BY <1>5, <1>14, <1>15
  <2>2. Carried' = [Command1 EXCEPT !.nodes = done + 1 .. N] /\ Place' = "stopped"
    BY <1>1, <1>3, <1>10, <1>14, <2>1 DEF Carried, Place
  <2>3. {n \in OneRun!Planned(Carried) : [p \in All |-> WaveOf(p)][n] > Reached} = done + 1 .. N
    <3>1. \A n \in Pos : [p \in All |-> WaveOf(p)][n] = WaveOf(n)
      BY DEF Pos, All, Later
    <3> QED
      BY <1>4, <1>6, <1>12, <3>1
  <2>4. Carried' = OneRun!LeftHint({n \in OneRun!Planned(Carried) : [p \in All |-> WaveOf(p)][n] > Reached})
    BY <1>6, <2>2, <2>3 DEF OneRun!LeftHint
  <2> QED
    BY <1>3, <1>4, <1>6, <1>7, <1>8, <1>9, <1>11, <1>15, <2>2, <2>4 DEF OneRun!WatchFails
<1>16. CASE done = N /\ run.until
  <2>1. hint'.left = {} /\ hint'.from
    <3>1. done + 1 .. N = {}
      BY <1>5, <1>16
    <3>2. hint'.from = TRUE
      BY <1>14, <1>16
    <3> QED
      BY <1>14, <3>1, <3>2
  <2>2. /\ Carried' = [Command1 EXCEPT !.from = Later, !.until = Later]
        /\ Place' = "stopped"
    BY <1>1, <1>3, <1>10, <2>1 DEF Carried, Place
  <2>3. Carried' = OneRun!FromHint
    BY <1>6, <1>12, <1>16, <2>2 DEF OneRun!FromHint
  <2> QED
    BY <1>3, <1>4, <1>6, <1>7, <1>8, <1>9, <1>11, <1>12, <1>13, <1>16, <2>2, <2>3
       DEF OneRun!WatchFails
<1>17. CASE done = N /\ ~run.until
  <2>1. hint'.left = {} /\ ~hint'.from
    BY <1>5, <1>14, <1>17
  <2>2. Carried' = Command1 /\ Place' = "over"
    BY <1>1, <1>3, <1>10, <2>1 DEF Carried, Place
  <2> QED
    BY <1>3, <1>4, <1>6, <1>7, <1>8, <1>9, <1>11, <1>12, <1>17, <2>2
       DEF OneRun!WatchFails
<1> QED
  BY <1>15, <1>16, <1>17

(***************************************************************************)
(* The run stops inside a wave, over a node that failed or a gate: some of *)
(* the wave succeeded, and the hint names the rest of the run.             *)
(***************************************************************************)
LEMMA WaveBreaksOff ==
  ASSUME IInv, GateInv, InRun, ~Watching, done < N, HintIsWhatIsLeft',
         pc' = "stopped", UNCHANGED <<run, done, upto, node>>,
         upto <= WaveOf(done + 1), Fell',
         \E p \in Pos : p <= WaveOf(done + 1) /\ node[p] \notin Succeeded
  PROVE  OneRun!WaveFails
<1> DEFINE v == WaveOf(done + 1)
           good == {p \in LastEnd + 1 .. v : node[p] \in Succeeded}
           new == {p \in good : node[p] = "changed" /\ Watches}
<1>1. TypeOK /\ done \in 0 .. N /\ upto \in 0 .. N /\ N \in Nat /\ done # N
  BY DEF IInv, TypeOK
<1>2. /\ UNCHANGED [p \in All |-> WaveOf(p)]
      /\ \A p : WaveOf(p)' = WaveOf(p)
      /\ UNCHANGED <<Command1, Watches, LastEnd>>
  BY RunStays DEF LastEnd, LastEndBy
<1>3. /\ OneRun!Ahead # {} /\ OneRun!NextWave = v
      /\ v \in run.ends /\ LastEnd \in 0 .. N /\ LastEnd <= done /\ done < v
      /\ \A p \in Pos : WaveOf(p) >= v <=> LastEnd < p
      /\ OneRun!Members(v) = LastEnd + 1 .. v
  BY <1>1, WaveAhead
<1>4. run.ends \subseteq Pos /\ v \in 1 .. N
  BY <1>1, <1>3, WavesLaidOut DEF Pos
<1>5. /\ \A p \in Pos : p <= done => node[p] \in Succeeded
      /\ \A p \in Pos : p > upto => node[p] \notin Succeeded
  BY DEF IInv, Progress, Succeeded
<1> HIDE DEF v
<1>6. /\ Fell = FALSE /\ Reached = LastEnd /\ Finished = 1 .. LastEnd
      /\ Carried = Command1 /\ Place = "wave"
      /\ Changed = {p \in 1 .. LastEnd : node[p] = "changed" /\ Watches}
      /\ Unwatched = {}
  BY <1>1, MidRun
<1>7. Fell' = TRUE
  BY DEF Fell
<1>8. /\ Reached' = v
      /\ Finished' = {p \in Pos : node[p] \in Succeeded}
  BY <1>2, <1>7 DEF Reached, Finished, v
<1>9. {p \in Pos : node[p] \in Succeeded} = 1 .. LastEnd \cup good
  <2>1. \A p \in Pos : p <= LastEnd => node[p] \in Succeeded
    BY <1>1, <1>3, <1>5 DEF Pos
  <2>2. \A p \in Pos : p > v => node[p] \notin Succeeded
    BY <1>1, <1>4, <1>5 DEF Pos, v
  <2>3. \A p : p \in Pos <=> p \in 1 .. LastEnd \/ p \in LastEnd + 1 .. v \/ (p \in Pos /\ p > v)
    BY <1>1, <1>3, <1>4 DEF Pos
  <2>4. \A p \in 1 .. LastEnd : p <= LastEnd
    OBVIOUS
  <2> QED
    BY <2>1, <2>2, <2>3, <2>4
<1>10. good \in (SUBSET OneRun!Members(v)) \ {OneRun!Members(v)}
  <2>1. PICK p \in Pos : p <= v /\ node[p] \notin Succeeded
    BY DEF v
  <2>2. p \in LastEnd + 1 .. v
    BY <1>1, <1>3, <1>4, <1>5, <2>1 DEF Pos
  <2> QED
    BY <1>3, <2>1, <2>2
<1>11. /\ Changed' = Changed \cup new
       /\ Unwatched' = new
  <2>1. Changed' = {p \in 1 .. LastEnd \cup good : node[p] = "changed" /\ Watches}
    BY <1>2, <1>8, <1>9 DEF Changed
  <2>2. Unwatched' = {p \in Changed' : p > LastEnd}
    BY <1>2, <1>7 DEF Unwatched
  <2>3. /\ \A p \in 1 .. LastEnd : ~(p > LastEnd)
        /\ \A p \in good : p > LastEnd
    BY <1>3, <1>4
  <2> HIDE DEF good
  <2> QED
    BY <1>6, <2>1, <2>2, <2>3
<1>12. hint'.left = {p \in Pos : node[p] \notin Succeeded}
  BY DEF HintIsWhatIsLeft
<1>13. OneRun!Remaining(v, good) = hint'.left
  <2>1. OneRun!Planned(Carried) = Pos
    BY <1>1, <1>6, PlanOfTheRun
  <2>2. \A n \in Pos : [p \in All |-> WaveOf(p)][n] = WaveOf(n)
    BY DEF Pos, All, Later
  <2>3. OneRun!Remaining(v, good) = {n \in Pos : WaveOf(n) >= v} \ good
    BY <2>1, <2>2 DEF OneRun!Remaining
  <2>4. \A n \in Pos : n \in 1 .. LastEnd <=> ~(LastEnd < n)
    BY <1>3 DEF Pos
  <2>5. \A n \in Pos : node[n] \in Succeeded <=> n \in 1 .. LastEnd \cup good
    BY <1>9
  <2>6. OneRun!Remaining(v, good) = {n \in Pos : LastEnd < n} \ good
    BY <1>3, <2>3
  <2> HIDE DEF good
  <2> QED
    BY <1>12, <2>4, <2>5, <2>6
<1>14. hint'.left # {}
  BY <1>12
<1>15. Place' = "stopped"
  <2>1. ~Watching'
    BY DEF Watching
  <2> QED
    BY <1>14, <2>1 DEF Place
<1>16. Carried' = [Command1 EXCEPT !.nodes = hint'.left]
  BY <1>2, <1>14 DEF Carried
<1>17. Carried' = OneRun!LeftHint(OneRun!Remaining(v, good))
  BY <1>6, <1>13, <1>16 DEF OneRun!LeftHint
<1>18. 1 .. v = 1 .. LastEnd \cup OneRun!Members(v)
  <2>1. LastEnd \in Nat /\ LastEnd < v
    BY <1>1, <1>3, <1>4
  <2> QED
    BY <1>3, <1>4, <2>1
<1>19. /\ (1 .. Reached)' = (1 .. Reached) \cup OneRun!Members(v)
       /\ Finished' = Finished \cup good
       /\ new \in SUBSET good
       /\ Unwatched' = Unwatched \cup new
  BY <1>6, <1>8, <1>9, <1>11, <1>18
<1> HIDE DEF good, new
<1> QED
  BY <1>2, <1>3, <1>6, <1>7, <1>8, <1>10, <1>11, <1>15, <1>17, <1>19 DEF OneRun!WaveFails

(* A batch that failed stops its wave. *)
LEMMA BatchBreaksOff ==
  ASSUME IInv, GateInv, BatchFailed, HintIsWhatIsLeft'
  PROVE  OneRun!WaveFails
<1>1. /\ pc = "batch" /\ pc' = "stopped" /\ done < upto
      /\ UNCHANGED <<run, done, upto, node>>
      /\ \E p \in Batch : node[p] = "failed"
  BY DEF BatchFailed, BatchErr, StopWith, counters, GateInv
<1>2. TypeOK /\ done \in 0 .. N /\ upto \in 0 .. N /\ N \in Nat /\ done < N
  <2>1. TypeOK /\ done \in 0 .. N /\ upto \in 0 .. N
    BY DEF IInv, TypeOK
  <2> QED
    BY <1>1, <2>1
<1>3. InRun /\ ~Watching /\ Fell'
  BY <1>1 DEF InRun, Watching, Fell
<1>4. upto <= WaveOf(done + 1)
  <2>1. done + 1 \in Pos
    BY <1>2 DEF Pos
  <2>2. /\ WaveOf(done + 1) \in run.ends /\ done + 1 <= WaveOf(done + 1)
        /\ run.ends \subseteq Pos
    BY <1>2, <2>1, WavesLaidOut
  <2> QED
    BY <1>1, <1>2, <2>2 DEF GateInv, EndsWave, Pos
<1>5. \E p \in Pos : p <= WaveOf(done + 1) /\ node[p] \notin Succeeded
  <2>1. PICK p \in Batch : node[p] = "failed"
    BY <1>1
  <2>2. p \in Pos /\ p <= upto
    BY <1>2, <2>1 DEF Batch, Pos
  <2>3. WaveOf(done + 1) \in Nat
    BY <1>2, WavesLaidOut DEF Pos
  <2> QED
    BY <1>2, <1>4, <2>1, <2>2, <2>3 DEF Pos, Succeeded
<1> QED
  BY <1>1, <1>2, <1>3, <1>4, <1>5, WaveBreaksOff

(* So does a gate that fails after a batch that was not the wave's last. *)
LEMMA GateBreaksOff ==
  ASSUME IInv, GateInv, GateFails, ~Watching, HintIsWhatIsLeft'
  PROVE  OneRun!WaveFails
<1>1. /\ pc = "gate" /\ pc' = "stopped" /\ done = upto
      /\ UNCHANGED <<run, done, upto, node>>
  BY DEF GateFails, Stopped, StopWith, counters, IInv, Progress
<1>2. TypeOK /\ done \in 0 .. N /\ N \in Nat
  BY DEF IInv, TypeOK
<1>3. run.ends \subseteq Pos /\ N \in run.ends
  BY <1>2, WavesLaidOut
<1>4. ~EndsWave(done) /\ done < N
  BY <1>1, <1>2, <1>3 DEF Watching, EndsWave
<1>5. InRun /\ Fell'
  BY <1>1, <1>4 DEF InRun, Fell, EndsWave
<1>6. done + 1 \in Pos
  BY <1>2, <1>4 DEF Pos
<1>7. WaveOf(done + 1) \in Nat /\ done + 1 <= WaveOf(done + 1)
  BY <1>2, <1>6, WavesLaidOut DEF Pos
<1>8. upto <= WaveOf(done + 1)
  BY <1>1, <1>2, <1>7
<1>9. node[done + 1] \notin Succeeded
  BY <1>1, <1>2, <1>6 DEF IInv, Progress, Succeeded
<1> QED
  BY <1>1, <1>4, <1>5, <1>6, <1>7, <1>8, <1>9, WaveBreaksOff

(* The run returns: over, or with the command for the wave --until left. *)
LEMMA RunReturns ==
  ASSUME IInv, Return
  PROVE  OneRun!Finish
<1>1. /\ pc = "loop" /\ pc' = "returned" /\ done = N
      /\ UNCHANGED <<run, done, upto, node>>
  BY DEF Return, GoTo, counters
<1>2. TypeOK /\ InRun /\ EndsWave(done) /\ N \in Nat /\ run.until \in BOOLEAN
  BY <1>1, WavesLaidOut DEF IInv, InRun, EndsWave, TypeOK, RunSpace
<1>3. /\ UNCHANGED [p \in All |-> WaveOf(p)]
      /\ \A p : WaveOf(p)' = WaveOf(p)
      /\ UNCHANGED <<Command1, Watches, More, LastEnd>>
  BY <1>1, RunStays DEF LastEnd, LastEndBy
<1>4. OneRun!Ahead = {}
  BY <1>1, <1>2, AtTheEnd
<1>5. ~Watching /\ ~Watching'
  BY <1>1 DEF Watching
<1>6. /\ Fell = FALSE /\ Reached = LastEnd /\ Finished = 1 .. LastEnd
      /\ Carried = Command1 /\ Place = "wave"
  BY <1>2, <1>5, MidRun
<1>7. Fell' = FALSE
  BY <1>1 DEF Fell
<1>8. UNCHANGED <<Reached, Finished>>
  BY <1>3, <1>6, <1>7 DEF Reached, Finished
<1>9. UNCHANGED Changed
  BY <1>1, <1>3, <1>8 DEF Changed
<1>10. UNCHANGED Unwatched
  BY <1>1, <1>3, <1>5, <1>6, <1>7, <1>9 DEF Unwatched
<1>11. OneRun!ThenFrom(Carried) = IF run.until THEN Later ELSE 0
  BY <1>2, <1>6, PlanOfTheRun
<1>12. Later # 0
  BY <1>2 DEF Later
<1>13. CASE run.until
  <2>1. /\ Carried' = [Command1 EXCEPT !.from = Later, !.until = Later]
        /\ Place' = "stopped"
    BY <1>1, <1>3, <1>5, <1>13 DEF Carried, Place
  <2>2. Carried' = OneRun!FromHint
    BY <1>6, <1>11, <1>13, <2>1 DEF OneRun!FromHint
  <2> QED
    BY <1>3, <1>4, <1>6, <1>7, <1>8, <1>9, <1>10, <1>11, <1>12, <1>13, <2>1, <2>2
       DEF OneRun!Finish
<1>14. CASE ~run.until
  <2>1. Carried' = Command1 /\ Place' = "over"
    BY <1>1, <1>3, <1>5, <1>14 DEF Carried, Place
  <2> QED
    BY <1>3, <1>4, <1>6, <1>7, <1>8, <1>9, <1>10, <1>11, <1>14, <2>1
       DEF OneRun!Finish
<1> QED
  BY <1>13, <1>14

(* Nothing is done before the run begins, nor by a pass that is refused. *)
LEMMA NotYetRun ==
  TypeOK /\ pc \in {"ready", "refused"} /\ done = 0 =>
    /\ Place = "typed" /\ Fell = FALSE /\ Reached = 0 /\ LastEnd = 0
    /\ Finished = {} /\ Changed = {} /\ Unwatched = {}
    /\ Carried = Command1
<1> HAVE TypeOK /\ pc \in {"ready", "refused"} /\ done = 0
<1>1. LastEnd = 0
  <2>1. 0 \in 0 .. N
    OBVIOUS
  <2>2. LastEndBy(0) \in 0 .. N /\ LastEndBy(0) <= 0
    BY <2>1, LastEndIs
  <2> QED
    BY <2>2 DEF LastEnd
<1>2. Fell = FALSE
  BY DEF Fell
<1>3. Reached = 0 /\ Finished = {}
  BY <1>1, <1>2 DEF Reached, Finished
<1>4. Changed = {}
  BY <1>3 DEF Changed
<1>5. Unwatched = {}
  BY <1>4 DEF Unwatched
<1>6. Place = "typed" /\ Carried = Command1
  BY DEF Place, Carried, Watching
<1> QED
  BY <1>1, <1>2, <1>3, <1>4, <1>5, <1>6

LEMMA NotYetRunNext ==
  TypeOK' /\ (pc \in {"ready", "refused"})' /\ (done = 0)' =>
    (/\ Place = "typed" /\ Fell = FALSE /\ Reached = 0 /\ LastEnd = 0
     /\ Finished = {} /\ Changed = {} /\ Unwatched = {}
     /\ Carried = Command1)'
  BY NotYetRun, PTL

(* Begin types the command, or refuses it before anything is planned. *)
LEMMA RunBegins ==
  ASSUME IInv, IInv', Begin
  PROVE  [OneRun!Next]_OneRun!vars
<1>1. /\ pc = "ready" /\ pc' \in {"loop", "refused"} /\ done = 0 /\ done' = 0
      /\ UNCHANGED run
  BY DEF Begin, GoTo, counters, IInv, TypeOK, Progress
<1>2. TypeOK /\ TypeOK'
  BY DEF IInv
<1>3. /\ UNCHANGED [p \in All |-> WaveOf(p)]
      /\ \A p : WaveOf(p)' = WaveOf(p)
      /\ UNCHANGED <<Command1, Watches, More, LastEnd>>
  BY <1>1, RunStays DEF LastEnd, LastEndBy
<1>4. /\ Place = "typed" /\ Fell = FALSE /\ Reached = 0 /\ LastEnd = 0
      /\ Finished = {} /\ Changed = {} /\ Unwatched = {}
      /\ Carried = Command1
  BY <1>1, <1>2, NotYetRun
<1>5. CASE pc' = "refused"
  BY <1>1, <1>2, <1>3, <1>4, <1>5, NotYetRunNext DEF OneRun!vars
<1>6. CASE pc' = "loop"
  <2>1. InRun' /\ ~Watching'
    BY <1>6 DEF InRun, Watching
  <2>2. /\ Place' = "wave" /\ Fell' = FALSE /\ Reached' = 0
        /\ Finished' = 1 .. 0 /\ Carried' = Command1
    BY <1>3, <1>4, <2>1, MidRunNext
  <2>3. Finished' = {}
    BY <2>2
  <2>4. Changed' = {}
    BY <2>3 DEF Changed
  <2>5. Unwatched' = {}
    BY <2>4 DEF Unwatched
  <2>6. ~OneRun!Refused(Carried)
    BY <1>2, <1>4, PlanOfTheRun
  <2>7. OneRun!Type
    BY <1>3, <1>4, <2>2, <2>3, <2>4, <2>5, <2>6 DEF OneRun!Type
  <2> QED
    BY <2>7 DEF OneRun!Next
<1> QED
  BY <1>1, <1>5, <1>6

(* Starting a batch, and what its commands do, is inside a wave. *)
LEMMA BatchGoesOn ==
  ASSUME IInv, GateInv, StartBatch \/ \E p \in Pos : Command(p)
  PROVE  UNCHANGED OneRun!vars
<1>1. /\ pc \in {"loop", "batch"} /\ pc' = "batch"
      /\ UNCHANGED <<run, done>>
      /\ \A p \in Pos : p <= done => node'[p] = node[p]
  <2>1. CASE StartBatch
    BY <2>1 DEF StartBatch, IInv, TypeOK, Pos
  <2>2. ASSUME NEW p \in Pos, Command(p)
        PROVE  /\ pc = "batch" /\ UNCHANGED <<run, pc, done>>
               /\ \A q \in Pos : q <= done => node'[q] = node[q]
    <3>1. /\ pc = "batch" /\ p \in done + 1 .. upto
          /\ UNCHANGED <<run, pc, done>>
          /\ \A q \in Pos : q # p => node'[q] = node[q]
      BY <2>2 DEF Command, Skip, Send, Succeed, Fail, IInv, TypeOK, Batch, counters
    <3>2. \A q \in Pos : q <= done => q # p
      BY <3>1 DEF IInv, TypeOK, Pos
    <3> QED
      BY <3>1, <3>2
  <2> QED
    BY <2>1, <2>2
<1>2. TypeOK /\ done \in 0 .. N /\ N \in Nat
  BY DEF IInv, TypeOK
<1>3. LastEnd \in 0 .. N /\ LastEnd <= done
  BY <1>2, LastEndIs DEF LastEnd
<1>4. UNCHANGED LastEnd
  BY <1>1 DEF LastEnd, LastEndBy
<1>5. \A p \in 1 .. LastEnd : node'[p] = node[p]
  BY <1>1, <1>2, <1>3 DEF Pos
<1>6. InRun /\ InRun' /\ ~Watching /\ ~Watching'
  BY <1>1 DEF InRun, Watching
<1>7. (done = N)' <=> (done = N)
  BY <1>1
<1> QED
  BY <1>1, <1>4, <1>5, <1>6, <1>7, StaysPut

(* The soak and the gate: a watch passes or stops the run, and a gate      *)
(* inside a wave opens or breaks it off.                                   *)
LEMMA SoakAndGate ==
  ASSUME IInv, GateInv, WatchInv, HintIsWhatIsLeft', Soak \/ GateOpens \/ GateFails
  PROVE  [OneRun!Next]_OneRun!vars
<1>1. TypeOK /\ InRun
  BY DEF Soak, GateOpens, GateFails, IInv, InRun
<1>2. CASE Watching /\ Stopped
  BY <1>2, WatchStopsTheRun DEF OneRun!Next
<1>3. CASE GateFails /\ ~Watching
  BY <1>3, GateBreaksOff DEF OneRun!Next
<1>4. CASE Soak /\ ~Stopped
  <2>1. /\ pc = "soak" /\ pc' \in {"gate", "loop"}
        /\ UNCHANGED <<run, done, node>>
    BY <1>4 DEF Soak, counters
  <2>2. Watching /\ EndsWave(done) /\ EndsWave(done)' /\ InRun'
    BY <2>1 DEF Watching, WatchInv, EndsWave, InRun
  <2>3. CASE pc' = "loop"
    <3>1. ~Watching'
      BY <2>3 DEF Watching
    <3> QED
      BY <1>1, <2>1, <2>2, <3>1, WatchIsOver DEF OneRun!Next
  <2>4. CASE pc' = "gate"
    <3>1. Watching'
      BY <2>2, <2>4 DEF Watching
    <3>2. UNCHANGED LastEnd
      BY <2>1 DEF LastEnd, LastEndBy
    <3>3. (done = N)' <=> (done = N)
      BY <2>1
    <3>4. \A p \in 1 .. LastEnd : node'[p] = node[p]
      BY <2>1
    <3> QED
      BY <1>1, <2>1, <2>2, <3>1, <3>2, <3>3, <3>4, StaysPut
  <2> QED
    BY <2>1, <2>3, <2>4
<1>5. CASE GateOpens
  <2>1. /\ pc = "gate" /\ pc' = "loop"
        /\ UNCHANGED <<run, done, node>>
    BY <1>5 DEF GateOpens, counters
  <2>2. InRun' /\ ~Watching'
    BY <2>1 DEF InRun, Watching
  <2>3. CASE Watching
    BY <1>1, <2>1, <2>2, <2>3, WatchIsOver DEF OneRun!Next
  <2>4. CASE ~Watching
    <3>1. UNCHANGED LastEnd
      BY <2>1 DEF LastEnd, LastEndBy
    <3>2. (done = N)' <=> (done = N)
      BY <2>1
    <3>3. \A p \in 1 .. LastEnd : node'[p] = node[p]
      BY <2>1
    <3> QED
      BY <1>1, <2>1, <2>2, <2>4, <3>1, <3>2, <3>3, StaysPut
  <2> QED
    BY <2>3, <2>4
<1>6. Soak /\ Stopped => Watching
  BY DEF Soak, Watching
<1>7. GateFails => Stopped
  BY DEF GateFails
<1> QED
  BY <1>2, <1>3, <1>4, <1>5, <1>6, <1>7

(* Every step of the roll-out is a step of the run it is, or none. *)
LEMMA RunStep ==
  IInv /\ IInv' /\ GateInv /\ GateInv' /\ WatchInv /\ StopInv' /\ [Next]_vars =>
    [OneRun!Next]_OneRun!vars
<1> SUFFICES ASSUME IInv, IInv', GateInv, GateInv', WatchInv, StopInv', [Next]_vars
             PROVE  [OneRun!Next]_OneRun!vars
  OBVIOUS
<1>1. HintIsWhatIsLeft'
  BY DEF StopInv
<1>2. CASE Begin
  BY <1>2, RunBegins
<1>3. CASE StartBatch \/ \E p \in Pos : Command(p)
  BY <1>3, BatchGoesOn
<1>4. CASE BatchFailed
  BY <1>1, <1>4, BatchBreaksOff DEF OneRun!Next
<1>5. CASE BatchSucceeded
  BY <1>5, WaveIsDone, WaveGoesOn DEF OneRun!Next
<1>6. CASE Soak \/ GateOpens \/ GateFails
  BY <1>1, <1>6, SoakAndGate
<1>7. CASE Return
  BY <1>7, RunReturns DEF OneRun!Next
<1>8. CASE Interrupt \/ (\E p \in Pos : Machine(p)) \/ UNCHANGED vars
  <2>1. UNCHANGED <<run, pc, done, upto, node, hint>>
    BY <1>8 DEF Interrupt, Machine, vars, counters
  <2> QED
    BY <2>1, StaysTheSame
<1> QED
  BY <1>2, <1>3, <1>4, <1>5, <1>6, <1>7, <1>8 DEF Next, Pass

(* A roll-out that has not begun is a run whose command has been typed. *)
LEMMA RunStart == Init => OneRun!Init
<1> SUFFICES ASSUME Init PROVE OneRun!Init
  OBVIOUS
<1>1. TypeOK /\ pc \in {"ready", "refused"} /\ done = 0
  BY InitTyping DEF Init
<1>2. /\ Place = "typed" /\ Fell = FALSE /\ Reached = 0
      /\ Finished = {} /\ Changed = {} /\ Unwatched = {}
      /\ Carried = Command1
  BY <1>1, NotYetRun
<1>3. /\ run.ends \subseteq Pos /\ N \in run.ends
      /\ \A p \in Pos : WaveOf(p) \in run.ends
      /\ WaveOf(Later) = Later
  BY <1>1, WavesLaidOut
<1>4. N \in Nat \ {0} /\ Pos = 1 .. N /\ All = 1 .. Later /\ Later = N + 1
  BY DEF Pos, All, Later
<1>5. OneRun!Waves = All /\ Pos \subseteq All /\ Later \in All /\ 1 \in All /\ N \in All
  BY <1>4 DEF OneRun!Waves
<1>6. [p \in All |-> WaveOf(p)] \in [All -> OneRun!Waves]
  <2>1. \A p \in All : p \in Pos \/ p = Later
    BY <1>4
  <2> QED
    BY <1>3, <1>5, <2>1
<1>7. Command1 \in OneRun!Commands
  <2>1. Command1.nodes \in (SUBSET All) \ {{}}
    BY <1>4, <1>5 DEF Command1
  <2>2. Command1.only \in SUBSET OneRun!Waves
    BY <1>3, <1>5 DEF Command1
  <2>3. Command1.from \in OneRun!Waves /\ Command1.until \in OneRun!Waves
    BY <1>5 DEF Command1
  <2>4. Command1 = [nodes |-> Command1.nodes, only |-> Command1.only,
                    from |-> Command1.from, until |-> Command1.until]
    BY DEF Command1
  <2> QED
    BY <2>1, <2>2, <2>3, <2>4 DEF OneRun!Commands
<1>8. 1 .. Reached = {}
  BY <1>2
<1> QED
  BY <1>2, <1>6, <1>7, <1>8 DEF OneRun!Init

(***************************************************************************)
(* For any number of targets in any waves, and any flags: from its batches,*)
(* soaks and gates, however its nodes fail and whenever it is interrupted, *)
(* a roll-out is one run of Campaign, and stops with exactly the hint that *)
(* Campaign carries on with.                                               *)
(***************************************************************************)
THEOREM AsPlanned == Spec => RunsAsPlanned
<1>1. Init => StopInv /\ WatchInv
  BY DEF Init, StopInv, HintIsWhatIsLeft, WatchInv
<1>2. StopInv => HintIsWhatIsLeft
  BY DEF StopInv
<1>3. Spec => [](StopInv /\ WatchInv)
  BY <1>1, StopStep, WatchStep, Invariant, GateInvariant, PTL DEF Spec
<1> QED
  BY <1>2, <1>3, RunStart, RunStep, Invariant, GateInvariant, PTL
     DEF Spec, RunsAsPlanned, OneRun!Spec
=============================================================================
