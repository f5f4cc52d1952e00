------------------------------- MODULE Rollout -------------------------------
(***************************************************************************)
(* A roll-out: the node-by-node pass that upgrade, reboot and apply share  *)
(* (rollOut.run in internal/cli/rollout.go, the batching and the fan-out   *)
(* of internal/cli/parallel.go).                                           *)
(*                                                                         *)
(* The targets are the positions 1..N, in the order the waves put them,    *)
(* which is the order a resume hint counts through.  Beside the pass the   *)
(* module keeps what the pass is there to protect: the machines, which go  *)
(* down and come back while their command runs, or after it gave up.       *)
(***************************************************************************)
EXTENDS Naturals

CONSTANTS N,           \* how many nodes the run targets
          MaxParallel, \* bound on --parallel (64 in the code)
          Runs         \* the runs considered: what the flags and the config say

Pos == 1 .. N

(***************************************************************************)
(* A run is fixed before its first batch:                                  *)
(*   cp        the targets that are control planes                         *)
(*   ends      the last position of each wave; without waves, only N       *)
(*   parallel  --parallel, or for an inert pass not given one,             *)
(*             defaultParallel                                             *)
(*   inert     nothing is enacted: a dry run or a staged apply             *)
(*   health    --health                                                    *)
(*   waits     each node's command returns only once the node is back      *)
(*   soak      rollout.soak is longer than zero                            *)
(*   until     --until stopped short of a wave (thenFrom is set)           *)
(*   beyond    --wave left out the waves after the last one                *)
(*   standsDown  the command gives standDown, as apply does                *)
(***************************************************************************)
RunSpace ==
  [cp : SUBSET Pos, ends : {e \in SUBSET Pos : N \in e},
   parallel : 1 .. MaxParallel,
   inert : BOOLEAN, health : BOOLEAN, waits : BOOLEAN, soak : BOOLEAN,
   until : BOOLEAN, beyond : BOOLEAN, standsDown : BOOLEAN]

ASSUME NAssumption == N \in Nat \ {0}
ASSUME ParallelAssumption == MaxParallel \in Nat \ {0}
ASSUME RunsAssumption == Runs \subseteq RunSpace

VARIABLES
  run,          \* the run's flags: chosen at the start, constant after
  pc,           \* where the pass is
  done,         \* how many targets the batches so far have covered
  upto,         \* the last position of the batch under way
  node,         \* what talman knows of each target
  actedInWave,  \* whether a batch of the wave under way changed anything
  hint,         \* the resume hint of a run that stopped
  interrupted,  \* a first signal has cancelled the run's context
  machine,      \* what the target itself is doing
  seen          \* history: how far the roll-out was when it last soaked, how
                \* far when a gate last ran or stood down, and how far it had
                \* soaked when that gate did

counters == <<done, upto, actedInWave>>
vars == <<run, pc, counters, node, hint, interrupted, machine, seen>>

NodeState == {"waiting", "started", "sent", "changed", "unchanged", "failed"}
Succeeded == {"changed", "unchanged"}
MachineState == {"up", "pending", "down"}
PcState == {"ready", "loop", "batch", "soak", "gate",
            "returned", "stopped", "refused"}

TypeOK ==
  /\ run \in RunSpace
  /\ pc \in PcState
  /\ done \in 0 .. N
  /\ upto \in 0 .. N
  /\ node \in [Pos -> NodeState]
  /\ actedInWave \in BOOLEAN
  /\ hint \in [left : SUBSET Pos, from : BOOLEAN]
  /\ interrupted \in BOOLEAN
  /\ machine \in [Pos -> MachineState]
  /\ seen \in [soaked : 0 .. N, looked : 0 .. N, watched : 0 .. N]

Init ==
  /\ run \in Runs
  /\ pc = "ready"
  /\ done = 0
  /\ upto = 0
  /\ node = [p \in Pos |-> "waiting"]
  /\ actedInWave = FALSE
  /\ hint = [left |-> {}, from |-> FALSE]
  /\ interrupted = FALSE
  /\ machine = [p \in Pos |-> "up"]
  /\ seen = [soaked |-> 0, looked |-> 0, watched |-> 0]

-----------------------------------------------------------------------------
(* Batches.                                                                *)

Batch == done + 1 .. upto

(* A mutation of GoTogether: chunks() for every pass, control planes and all. *)
GoTogetherAsChunks(d, e) ==
  /\ d < e
  /\ e <= N
  /\ e <= d + run.parallel
  /\ \A p \in d + 1 .. e - 1 : p \notin run.ends

(***************************************************************************)
(* The nodes after d up to e may go together: no more of them than         *)
(* parallel, all of one wave, and, when anything is enacted, no control    *)
(* plane with another node.                                                *)
(***************************************************************************)
GoTogether(d, e) ==
  /\ d < e
  /\ e <= N
  /\ e <= d + run.parallel
  /\ \A p \in d + 1 .. e - 1 : p \notin run.ends
  /\ \/ run.inert
     \/ e = d + 1
     \/ \A p \in d + 1 .. e : p \notin run.cp

(***************************************************************************)
(* batchesFor cuts a wave greedily, so the batch after d is the longest    *)
(* run of nodes that may go together.                                      *)
(***************************************************************************)
IsNextBatch(d, e) == GoTogether(d, e) /\ ~GoTogether(d, e + 1)

(* The batch that ends at d is the last of its wave. *)
EndsWave(d) == d \in run.ends

(* A mutation of More: only the waves --wave left out count. *)
MoreWithoutUntil == run.beyond

(* Waves come after the last one this run reaches, by the operator's choice. *)
More == run.until \/ run.beyond

(* A pass that does not wait may reach one control plane at most. *)
WaitsForControlPlanes == \A p, q \in run.cp : p = q

-----------------------------------------------------------------------------
(* The commands of a batch.                                                *)

(***************************************************************************)
(* The node is asked first and there is nothing to do: it already runs     *)
(* what it should, or it is a dry run that answers.  An interrupted run    *)
(* starts no command, so only what a dry run works out here still answers. *)
(***************************************************************************)
Skip(p) ==
  /\ node[p] = "started"
  /\ ~interrupted \/ run.inert
  /\ node' = [node EXCEPT ![p] = "unchanged"]
  /\ UNCHANGED machine

(***************************************************************************)
(* The command reaches the node.  It may take the node down, at once or a  *)
(* little later, unless the pass enacts nothing.                           *)
(***************************************************************************)
Send(p) ==
  /\ node[p] = "started"
  /\ ~interrupted
  /\ node' = [node EXCEPT ![p] = "sent"]
  /\ \E m \in IF run.inert THEN {"up"} ELSE {"up", "pending"} :
       machine' = [machine EXCEPT ![p] = m]

(* The command succeeds: one that waits, only once the node is back. *)
Succeed(p) ==
  /\ node[p] = "sent"
  /\ run.waits => machine[p] = "up"
  /\ node' = [node EXCEPT ![p] = "changed"]
  /\ UNCHANGED machine

(* A mutation of Fail: a command that could not be started is never heard of. *)
FailOnlyOnceSent(p) ==
  /\ node[p] = "sent"
  /\ node' = [node EXCEPT ![p] = "failed"]
  /\ UNCHANGED machine

(***************************************************************************)
(* The node fails: it would not answer, the command was refused, its wait  *)
(* ran out of time, or an interrupt ended it -- whatever became of the     *)
(* node since the command reached it.                                      *)
(***************************************************************************)
Fail(p) ==
  /\ node[p] \in {"started", "sent"}
  /\ node' = [node EXCEPT ![p] = "failed"]
  /\ UNCHANGED machine

Command(p) ==
  /\ pc = "batch"
  /\ p \in Batch
  /\ Skip(p) \/ Send(p) \/ Succeed(p) \/ Fail(p)
  /\ UNCHANGED <<run, pc, counters, hint, interrupted, seen>>

-----------------------------------------------------------------------------
(* The pass.                                                               *)

(* The run goes to q and changes nothing else. *)
GoTo(q) ==
  /\ pc' = q
  /\ UNCHANGED <<run, counters, node, hint, interrupted, machine, seen>>

StopWith(left, from) ==
  /\ hint' = [left |-> left, from |-> from]
  /\ pc' = "stopped"
  /\ UNCHANGED <<run, counters, node, interrupted, machine, seen>>

(* The run stops between batches: with targets left, or only waves. *)
Stopped == StopWith(done + 1 .. N, run.until /\ done = N)

Begin ==
  /\ pc = "ready"
  /\ GoTo(IF run.inert \/ run.waits \/ WaitsForControlPlanes
            THEN "loop" ELSE "refused")

(* eachNode starts every node of the batch at once; a wave starts unacted. *)
StartBatch ==
  /\ pc = "loop"
  /\ \E e \in Pos :
       /\ IsNextBatch(done, e)
       /\ upto' = e
       /\ node' = [p \in Pos |-> IF p \in done + 1 .. e THEN "started"
                                                        ELSE node[p]]
  /\ actedInWave' = (done # 0 /\ ~EndsWave(done) /\ actedInWave)
  /\ pc' = "batch"
  /\ UNCHANGED <<run, done, hint, interrupted, machine, seen>>

(* eachNode returns once every node of the batch has. *)
Answered == \A p \in Batch : node[p] \in Succeeded \cup {"failed"}

(* A mutation of BatchErr: the batch fails only when all of it did. *)
BatchErrWhenAllFail == \A p \in Batch : node[p] = "failed"

(* What eachNode returns for the batch is an error. *)
BatchErr == \E p \in Batch : node[p] = "failed"

(* The targets left when a batch fails, its nodes told apart. *)
Left == {p \in done + 1 .. N : node[p] \notin Succeeded}

(* A node of the batch failed: the run stops, and its hint names what is left. *)
BatchFailed ==
  /\ pc = "batch" /\ Answered
  /\ BatchErr
  /\ StopWith(Left, FALSE)

(* A mutation of AfterBatch: the health gate is only for the end of a wave. *)
AfterBatchWavesOnly(acted, inWave) ==
  IF run.inert \/ (upto = N /\ ~More) \/ ~EndsWave(upto) THEN "loop"
  ELSE IF inWave /\ run.soak THEN "soak"
  ELSE IF inWave /\ run.health THEN "gate" ELSE "loop"

(***************************************************************************)
(* Where the pass goes from a batch that succeeded: no gate after the last *)
(* node, unless waves come after it; inside a wave a gate after a batch    *)
(* that acted; after a wave that acted the soak, and then the gate.        *)
(***************************************************************************)
AfterBatch(acted, inWave) ==
  IF run.inert \/ (upto = N /\ ~More) THEN "loop"
  ELSE IF EndsWave(upto) /\ inWave /\ run.soak THEN "soak"
  ELSE IF run.health /\ (IF EndsWave(upto) THEN inWave ELSE acted) THEN "gate"
  ELSE "loop"

(* A mutation of Covered: one node too many. *)
CoveredOffByOne == upto + 1

(* done, once it counts the batch. *)
Covered == upto

BatchSucceeded ==
  /\ pc = "batch" /\ Answered
  /\ ~BatchErr
  /\ LET acted == \E p \in Batch : node[p] = "changed"
     IN  /\ actedInWave' = (actedInWave \/ acted)
         /\ pc' = AfterBatch(acted, actedInWave \/ acted)
  /\ done' = Covered
  /\ UNCHANGED <<run, upto, node, hint, interrupted, machine, seen>>

(* The soak runs its course, or an interrupt ends it and the run. *)
Soak ==
  /\ pc = "soak"
  /\ \/ /\ ~interrupted
        /\ seen' = [seen EXCEPT !.soaked = done]
        /\ pc' = IF run.health THEN "gate" ELSE "loop"
        /\ UNCHANGED <<run, counters, node, hint, interrupted, machine>>
     \/ interrupted /\ Stopped

(***************************************************************************)
(* The gate opens on a healthy cluster, where no target may be down, and   *)
(* apply's stands down while a configured node is still new.               *)
(***************************************************************************)
GateOpens ==
  /\ pc = "gate"
  /\ \/ ~interrupted /\ \A p \in Pos : machine[p] # "down"
     \/ run.standsDown
  /\ seen' = [seen EXCEPT !.looked = done, !.watched = seen.soaked]
  /\ pc' = "loop"
  /\ UNCHANGED <<run, counters, node, hint, interrupted, machine>>

(* Unhealthy, out of time, or interrupted. *)
GateFails == pc = "gate" /\ Stopped

Return == pc = "loop" /\ done = N /\ GoTo("returned")

-----------------------------------------------------------------------------
(* What goes on around the pass.                                           *)

Ended == pc \in {"returned", "stopped", "refused"}

(* A first SIGINT or SIGTERM cancels the run's context. *)
Interrupt ==
  /\ ~Ended /\ ~interrupted
  /\ interrupted' = TRUE
  /\ UNCHANGED <<run, pc, counters, node, hint, machine, seen>>

(* A node acts on the command it took, whether or not the command is still  *)
(* there to hear of it, and comes back if it ever does.                     *)
Machine(p) ==
  /\ \/ machine[p] = "pending" /\ machine' = [machine EXCEPT ![p] = "down"]
     \/ machine[p] = "down" /\ machine' = [machine EXCEPT ![p] = "up"]
  /\ UNCHANGED <<run, pc, counters, node, hint, interrupted, seen>>

-----------------------------------------------------------------------------
Pass ==
  \/ Begin \/ StartBatch \/ BatchFailed \/ BatchSucceeded
  \/ Soak \/ GateOpens \/ GateFails \/ Return

Next ==
  \/ Pass
  \/ \E p \in Pos : Command(p) \/ Machine(p)
  \/ Interrupt

Spec == Init /\ [][Next]_vars

(***************************************************************************)
(* Every command ends: the ones that wait carry --timeout, WaitReady has a *)
(* deadline and the health check a --wait-timeout.  The machines promise   *)
(* nothing, and nobody need interrupt.                                     *)
(***************************************************************************)
Fairness == WF_vars(Pass) /\ \A p \in Pos : WF_vars(Command(p))

FairSpec == Spec /\ Fairness

-----------------------------------------------------------------------------
(* What a roll-out promises.                                               *)

(* rollout.go's one rule: a pass never has two control planes away at once, *)
(* taken down and not yet back, whatever fails, is interrupted or is late.  *)
OneControlPlaneAway ==
  \A p, q \in run.cp :
    machine[p] # "up" /\ machine[q] # "up" => p = q

(* A node's failure ends the roll-out: its batch is the last that starts,   *)
(* and no node after it is touched, however long the batch goes on.         *)
LaterNodesUntouched ==
  \A p \in Pos : node[p] = "failed" =>
    /\ p \in Batch
    /\ \A q \in Pos : q > upto => node[q] = "waiting" /\ machine[q] = "up"

(* With --health, no batch starts over a change no gate has looked at since *)
(* (a gate that stood down counts as one, as it does in the code).          *)
BatchesGated ==
  pc = "batch" /\ run.health /\ ~run.inert =>
    \A p \in 1 .. done : node[p] = "changed" => p <= seen.looked

(* Between waves, and at the end of a run that leaves waves for another to  *)
(* carry on with: what a wave changed has soaked, and the gate looked after *)
(* the soak and not before it.                                              *)
WavesWatched ==
  ~run.inert /\ (pc = "batch" \/ (pc = "returned" /\ (run.until \/ run.beyond))) =>
    \A p \in 1 .. done :
      node[p] = "changed" /\ (\E e \in run.ends : p <= e /\ e <= done) =>
        /\ run.soak => p <= seen.soaked
        /\ run.health => p <= seen.looked
        /\ run.soak /\ run.health => p <= seen.watched

(* A run that stops says exactly what is left: the targets that have not    *)
(* succeeded, or, when there is none, the wave --until stopped short of.    *)
HintIsWhatIsLeft ==
  pc = "stopped" =>
    /\ hint.left = {p \in Pos : node[p] \notin Succeeded}
    /\ hint.from = (run.until /\ hint.left = {})

(* Every run ends, interrupted or not, even if its nodes never come back.   *)
Ends == <>Ended
=============================================================================
