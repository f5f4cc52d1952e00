# talman in TLA+

talman drives a Talos Linux cluster from one configuration: it renders machine
configs, applies them, upgrades, reboots, resets and bootstraps nodes, and rotates
the cluster's CAs, by running `talosctl` and `sops`. It keeps no daemon and no
database. What can go wrong is in the middle of a run: nodes that fail or never
answer, a second Ctrl-C, a run that stops and is carried on from the command it
printed. These modules model that behaviour, TLC checks them on small instances,
and TLAPS proves the most important parts for every instance.

Paths below are relative to `src/`.

## 1. The system

### Components

| Component | Code | State it keeps | Operations | What makes it hard |
|---|---|---|---|---|
| Roll-out engine | `internal/cli/rollout.go`, `parallel.go`, `reboot.go` | position in the pass, acted-in-wave, error, hint | `run`: batches, fan-out, soak, gate, stop, hint | nodes in parallel, failures, lost answers, interrupts |
| Waves, resumed runs | `internal/cli/rollout.go` (`waveFlags`), `internal/config/rollout.go`, `internal/cli/root.go` | none but the command line | `plan`, `Stages`, `resumeHint`, `replayFlags`, `carryOn` | what one run leaves is the next run's input |
| Interrupts and children | `internal/interrupt/interrupt.go` | cleanups, running children, first signal, killing | `Watch`, `Cleanup`, `TempDir`, `CreateTemp`, `Run`, `killRunning`, `RunCleanups` | a handler beside every other goroutine |
| Ordered output | `internal/cli/parallel.go` (`eachNode`, `inOrder`) | head of the order, held text, done | `say`, `finish` | goroutines in any order |
| CA rotation | `internal/cli/rotate.go` | `talosconfig`, `talosconfig.rotated`, the bundle, kept bundles | `rotate-ca`, `--finish` | failure or a kill between any two steps |
| apply | `internal/cli/apply.go` | modes it has seen | `applyOne`, `standDown`, `newNodes`, dry run, diff, bootstrap after the pass | a node changes between question and answer |
| upgrade, upgrade-k8s | `internal/cli/upgrade.go`, `downgrade.go` | one snapshot per run | `upgradeOne`, snapshot, version checks | one snapshot shared by a batch |
| Bootstrap | `internal/cli/bootstrap.go` | none | probe control planes, configure the first, bootstrap, wait for etcd | a lost reply; bootstrapping twice |
| Asking a node | `internal/talosctl/state.go` | route a node last answered on | `askNode`, `Mode`, `Etcd`, `WaitReady` | stabilization window, flapping nodes, deadlines |
| Running talosctl | `internal/talosctl/talosctl.go` | checked version | argument lists, `Ensure` | none beyond Interrupts |
| Reset | `internal/cli/reset.go` | none | order, graceful teardown, wipe | stops with half a cluster gone |
| Secrets bundle | `internal/cli/secrets.go`, `internal/sopsx/sopsx.go` | the encrypted bundle | generate, encrypt, keep the old one | check and replacement apart |
| Rendering, writing | `internal/render/*.go`, `internal/cli/render.go` | output directory, decrypted bundle, schematic cache | `Open`, `Node`, `WriteAll`, `WriteTalosconfig`, `WriteAtomic` | crash between write and rename |
| etcd snapshot | `internal/cli/etcd.go` | snapshot file | name, stream beside, link into place | another talman with the same name |
| Metrics | `internal/metrics/*.go` | results per node | plan, start, change, result, push | every node one result, whatever ends the run |
| Health, status | `internal/cli/health.go`, `status.go` | none | choose a node, ask, report | read-only |
| Commands and flags | `internal/cli/root.go`, `main.go` and others | context of a run | select nodes, replay flags, exit code | the hint must be a command that means the same |
| init | `internal/cli/init.go` | scaffold | write all or nothing | failure midway |
| Configuration; patches, templates, schematics; redaction; pass-through | `internal/config`, `internal/patch`, `internal/template`, `internal/factory`, `internal/redact` | none | parse, default, validate, convert | no behaviour over time |

### How they interact

A command (upgrade, reboot, apply) selects nodes, has `waveFlags.plan` lay them
out in waves, and gives a function per node to `rollOut.run`. That cuts each wave
into batches, has `eachNode` run the function on a batch's nodes at once, with
`inOrder` between them and the terminal, and soaks and asks a health gate between
batches and waves. Each function calls `talosctl` through `interrupt.Run`, under
the run's context, and stages secrets in temporary files that
`internal/interrupt` keeps on a list. A signal cancels the context for all of
them; a second one sweeps the list and exits. A run that stops prints the command
that carries on, which a person types: this is the only channel from one run to
the next, besides the cluster and the files. A rotation is one `talosctl` call and
a series of file replacements, each of which may be the last.

### What makes each correct

* Roll-out: two control planes are never away together; a failure stops the pass
  before any other node is touched; gates and soaks lie between what changed and
  what is changed next; the hint names what is left and nothing else; the run ends.
* Resumed runs: a hint is accepted, keeps the waves' order, forgets no node, and
  nothing goes past an unwatched canary.
* Interrupts: no child outlives talman, no secret stays on disk, the exit code is
  the first signal's, and the run ends.
* Output: in the batch's order, nothing lost, doubled or held longer than needed.
* Rotation: there is always a way back in, no bundle is lost, success means that
  talosconfig, bundle and nodes agree, and an error's advice can be followed.
* Waiting: a node counted back is, a node that is back is counted, and the wait ends.
* Building, keeping and tearing down a cluster: no second etcd beside one that has
  data, no config to an unauthenticated node unasked, no gate held down by a node that
  has joined, and a teardown that its hints carry to the end.
* Upgrades and metrics: the snapshot before the first change, and a report that says
  of each node, and of when the job last worked, what is so.
* The cluster directory: files that are replaced whole after a kill or a power loss, and
  those written in place but for the moment of writing; secrets only beside the `.gitignore`
  that hides them, but while that is being rewritten; a bundle in use that can be read never
  lost; an `init` that leaves all or nothing; and no config that names a schematic its factory
  was never sent.

## 2. The modules

| Module | What it is | Checked by | Proved in |
|---|---|---|---|
| `Rollout` | one run of the roll-out engine, and the machines it acts on | `MCRollout` | `RolloutProofs` |
| `Campaign` | several runs, joined by their hints | `MCCampaign` | `CampaignProofs` |
| `RolloutRuns` | a `Rollout` seen as one run of a `Campaign`, which it implements | `MCRollout` | `RolloutProofs` |
| `Interrupt` | the signal handler beside goroutines and children | `MCInterrupt` | `PassProofs` |
| `Transcript` | abstract: what a batch's output promises | through `InOrder` | `PassProofs` |
| `InOrder` | the fan-out and `inOrder`; implements `Transcript` | `MCInOrder` | `PassProofs` |
| `WaitReady` | one wait for a node to come back, in time | `MCWaitReady` | `WaitReadyProofs` |
| `Rotation` | `rotate-ca` and `--finish`, the files and the CAs | `MCRotation` | `RotationProofs` |
| `Machines` | Talos machines and their etcds, as talman sees them (external) | through `Lifecycle` | - |
| `Operator` | one terminal: the command that runs and the hint it leaves | through `Lifecycle` | - |
| `Apply` | `apply` and `apply --bootstrap`, node by node | through `Lifecycle` | - |
| `Reset` | `reset`, node by node | through `Lifecycle` | - |
| `Lifecycle` | composes the four: a cluster built, kept and torn down | `MCLifecycle` | `LifecycleProofs` |
| `Snapshot` | an etcd snapshot saved beside another talman's | through `Upgrade` | - |
| `Record` | a run's metrics, its file and its push | through `Upgrade` | - |
| `Upgrade` | composes the two with `upgrade` and `upgrade-k8s` | `MCUpgrade` | `UpgradeProofs` |
| `Disk` | the files of a cluster directory, with kills and power losses | through `ClusterDir` | - |
| `Commands` | processes at work in it, and the guarding `.gitignore` | through `ClusterDir` | - |
| `Generate`, `Scaffold`, `Rendering` | `secrets generate`; `init`; `render` and the talosconfig | through `ClusterDir` | - |
| `AtomicFiles` | abstract: what `WriteAtomic` promises of the files it replaces | through `ClusterDir` | `ClusterDirProofs` |
| `ClusterDir` | composes the five; implements `AtomicFiles` | `MCClusterDir` | `ClusterDirProofs` |

Some definitions have a variant above them, introduced as "a mutation of": the
definition with a plausible bug in it. They are part of no specification. Each
property of a passing run has one that makes it fail, which shows that the
property depends on the code's doing what it does.

### Rollout

Targets are positions 1..N in the order `run` goes through them. `run` holds the
flags and the layout, chosen in `Init` among `Runs` and constant after; TLC takes
all of `RunSpace`. `done` is the code's `done`, `upto` the last position of the
batch, `actedInWave` the code's variable of that name, `hint` what `fromHint` and
`hint` print. `node` is what the batch knows of each target and `machine` what the
target is doing, which talman does not see: a machine may go down after its
command returned (`pending`), and may never come back.

`Begin` is the refusal of a pass that does not wait and reaches several control
planes; `StartBatch` a turn of the loop with `batchesFor`'s greedy cut
(`IsNextBatch`); `Command` the function given for a node, as upgrade, reboot and
apply share it (skip, send, succeed, fail); `BatchFailed` and `BatchSucceeded` what
follows `eachNode`; `Soak`, `GateOpens` and `GateFails` the boundary;
`Interrupt` the cancellation of the context.

`waits` is an assumption about the command: it returns success only when the node
is back. That holds for `talosctl upgrade` and `reboot` with `--wait`. For apply it
is what `WaitReady` promises, on the assumptions named there: a node that goes down
for the first time after `--stabilize` is called back before it has left.

### Campaign

A command is the sets of nodes and waves its flags select. A wave of a run is one
step (`WaveDone`, `WaveFails`), and the soak and gate after it another (`Watch`,
`WatchFails`); between runs `Type` is the person typing the command last
hinted at, or, after an interrupted soak or failed gate, the same again. `Selected`,
`Kept`, `ThenFrom`, `Refused` and `More` are the parts of `waveFlags.plan`;
`LeftHint` and `FromHint` the two commands a stopped run prints. It is assumed that
`rollout.waves` is set (one stage is Rollout's case), that soak and health are
asked for, and that the person follows the hints. Which nodes of a wave a run changes is
left open: one may be up to date, or have been changed by a run that lost its answer.
`keepNodes`, by which apply drops nodes of the plan, is `Apply`'s.

### RolloutRuns

`Rollout` and `Campaign` meet in a run: what is one step there is batches, commands, a soak
and a gate here. `RolloutRuns` maps the one to the other. A wave is named by the last of its
positions (`WaveOf`), and a node beyond the targets stands for the waves that `--until` or
`--wave` left for later (`Later`). `Command1` is the command that was typed, read off the
flags of the run, and `Carried` the one its hint, or `carryOn`, leaves; `Place` is how far the
run has come. `RunsAsPlanned` says that a roll-out is such a run (`OneRun`), that is: waves
are taken in order and whole, one that changed something is watched unless nothing follows,
and the hint of a run that stopped is the command `Campaign` carries on with. So the hints
that `Campaign`'s theorems speak of are those the batching engine prints. `Campaign` asks for
soak and health always; a run with neither, or one that enacts nothing, is mapped to one
that changes nothing it has to watch (`Watches`).

### Interrupt

`Workers` are goroutines of a pass. A job of one is: create a temporary file, list
it, write the secret, perhaps start a child on it (`RunChild`, `Fork`, `Adopt`,
`Reap`), remove it, unlist it: `sopsx.EncryptTo`, `render.Open` and
`WriteAtomic` are of this shape. Each is a step of its own, because the handler
(`FirstSignal`, `Cancel`, `SecondSignal`, `Drain`, `Sweep`, `ForcedExit`) runs
between any two. What the code does under one lock is one step. `Drain` may give
up on a start in flight, as `startDrain` does; `timedOut` remembers that. SIGPIPE
counts as a first signal and not as a second. `Return` is main's: it asks for the first
signal and exits with its code, or with the run's own if there was none. Between
`FirstSignal` and `Cancel` the context is not cancelled yet, so a run may still ask too
early and end as if nothing had come; `ExitCodeIsTheFirst` is therefore about runs that were
cancelled, which is when a command fails on account of the signal.

### InOrder and Transcript

`InOrder` has the code's `next`, `held` and `done`, with the slots of `eachNode`.
`Transcript` has no buffers: the reader always sees all that was said by the nodes
whose predecessors are finished. `ReadsInOrder` is `Transcript`'s specification
with `finished` mapped to `done`.

### WaitReady

Time is counted in ticks, and the clock does not pass a step that is due: a sleep's
end, an attempt's failure after `Dial`, the reboot after `RebootBy`. The wait is at
`sleep`, at the `first` or `second` attempt of `askNode`, or at `report`, the
question `awayBecause` asks for the sake of a message, which takes time too; that
it is asked every 30 seconds is abstracted to now and then. `steady` is
`steadySince`, `prefers` the route remembered for the node. Beside it the node goes
down and comes back, and its routes open and shut, as they like. It is assumed that
a node that reboots on its config has gone down within the window
(`WindowAssumption`), and that a reboot lasts longer than two answering polls are
apart (`RebootAssumption`): a shorter one is invisible to polling. An attempt at a
node that can be reached is not lost.

### Rotation

CAs are numbered by the rotation that made them. `talos`, `k8s` and `accepted` are
the cluster's side, `tc`, `rotated`, `bundle` and `kept` the files. `Rotate` and
`Finish` start a run, the `Tool` actions are talosctl's (external: the repository
holds no source of it), and `Complete`, `Extract`, `Keep`, `Write`, `Rename` are
the code after it, one per file operation. `Fail` and `Crash` may follow each of
them. `Render` and `Apply` are what the operator may do between runs. What is taken
of talosctl is what `rotate.go`'s comments count on: the new Talos CA is accepted
before it issues, the old one is accepted until the rotated talosconfig is written,
and the Kubernetes CA follows. Also assumed: a killed talman takes talosctl with it
(Interrupt's `NoOrphans`), and there is one operator at a time.

### Machines, Operator, Apply, Reset and Lifecycle

`Machines` is what talman finds out there: a machine is in maintenance mode or has a
config (`set`), boots it (`booting`), answers with cluster PKI (`joined`), differs
from what the repository renders (`drift`), and a control plane holds the data of an
`etcd`, which runs (`serving`) and has members. Talos is not in the repository; its
actions are taken from what the code expects of it: that a control plane answers by
itself and a worker only once there is a cluster, that a bootstrap of a node with data
is refused, that an etcd lets a member leave while it has quorum.

`Operator` has one command at a time. `Type` takes one of `Commands` or the last
`hint`, `Killed` may end it anywhere, and `doomed` is history: what a chain of resets
set out to wipe. `probe` is `probeControlPlanes`' answer, `modes` the code's map of
that name, `todo` the nodes left, in the config's order but for those that go `Early`
(`IsNext`), and `turn` what `applyOne` has in its local variables.

`Apply` follows `newApplyCmd` and `applyOne` in their order: `Probe` (each control
plane asked on its own, at its own moment), `Check` (`checkCluster`), `Confirm`,
`RefuseNewNodes` / `OnboardOnly` / `StartBootstrap` / `StartAll`, then for each node
`Turn` (which API), `Await` (a quiet node after a bootstrap), `First` (the dry run asked
first), `Send` or, for a dry run or a staged config, `Show`, `Wait`, and between nodes
`Gate` (`standDown` and the health check). A bootstrap goes from the first node's
`Wait` to `Bootstrap` and `WaitForEtcd`. The world moves between any two of these, which
is where question and answer come apart. Nodes go one at a time: batches, waves and
the soak are `Rollout`'s, and `WaitReady` is here a step that sees the node running or
gives up, as its own module refines it. `--mode` is auto or staged. A bootstrap from a
snapshot (`--recover-from`) takes the same steps.

`Reset` orders workers first, and its hint (`HintFlags`) is told that it carries on a
teardown once only control planes are left.

### Snapshot, Record and Upgrade

`Snapshot` is `etcdSnapshot` for any number of talmans that picked their names in the
same second: `PickName`, `Stream`, `Link`. `Record` is `metrics.Run`, with the runs
before it: `file` and `endpoint` hold a last success as the number of the run it came
from, and `reports` is the history they are compared with. The push endpoint keeps
what a push does not replace, as a Pushgateway does. In `Upgrade` each node of a batch
is a goroutine of its own (`node`), `once` is `snapOnce`, and `touched` the nodes that
were sent an upgrade. Which layout of batches a roll-out goes in is a constant, and
between batches the run may stop as it would at a gate. `Leaves` reports and ends the
run, or kills it. A node that `takes` is the goroutine inside `snapOnce`: every other one of
its batch that gets there waits for it, and fails if it failed (`SnapErr`). `BatchDone` may
end the run with a failure, as a soak or gate after the batch does, also after the last one,
which `--until` soaks and gates.

### Disk, Commands, Generate, Scaffold, Rendering and ClusterDir

`seen` is what a process finds at a path and `kept` what a power loss would leave;
`dirty` are the paths whose contents were not synced. It is assumed that a file system
keeps changes of names in their order, as a journal does, and writes contents back in
any: a rename of a file that was synced is then whole or has not happened, and one of
a file that was not may leave a name without contents. (`WriteAtomic` does not sync the
directory, so a rename may be lost by a power loss; without a journal's order, so may
an earlier one.) A file is a kind and the command, or the bundle, it came from.

`proc` is a process, whose place (`at`) is the step it takes next. `Fail` and `Kill` may
come at each. `PrepareOutput` and `WriteIgnore` are `prepareOutput` with
`os.WriteFile`'s two steps, shared by everything that writes into the output directory.
`Generate` has the checks, the read of the old bundle, the backup and the replacement
apart; `Scaffold` one action per file operation of `init` and its `undo`; `Rendering`
one per lookup, submission and file, with `cache` the renderer's `schematicIDs`.
`ReadOldBundle` takes any error of the read for there being no
bundle, as the code does: one that is there and cannot be read is replaced and not kept.
`theirs`, `settled` and `cut` are history: what an operator wrote; the bundles that were in
place, on disk, when a generate began, less those it could not read; and the files whose
writing in place was cut short, by a failure, a kill or a power loss.

`AtomicFiles` has no processes, no temporary files and no writes in place: a file goes from
one version to the next, a writeback makes what there is last, and a power loss goes back
to that. `NothingHalfDone` says that the commands implement it (`Store`), for the files that
are only ever replaced (`Replaced`) and the versions the commands finish (`Finished`). The
others, `talman.yaml`, `.sops.yaml` and the `.gitignore` (`InPlace`), are opened and then
written, so the same property says of them what can be said: they are empty only while a
command is between the two (`Writing`) or where one was cut short there (`cut`), and a failed
init has left none of its own. An empty `.gitignore` hides nothing. `Guarded` says that
secrets lie beside one that does, except in just those moments (`HalfWritten`): a command
that rewrites an edited `.gitignore` beside secrets passes through one, and a kill there
leaves it, after which every command that would write more secrets refuses.

## 3. The runs

| Run | Bounds | Shows |
|---|---|---|
| `rollout_safety` | 3 targets, `--parallel` up to 3, every layout and flag | the safety of one run |
| `rollout_ends` | 2 targets, every layout and flag, fairness | the run ends; refinement of `Campaign`; the hint is exact |
| `interrupt` | 2 goroutines, 2 jobs each, fairness | children, files, exit code, end |
| `interrupt_secret` | 1 goroutine, 1 job | a violation, see section 5 |
| `in_order` | 4 nodes, up to 2 lines each, 1 to 4 slots, fairness | refinement of `Transcript`; all is printed |
| `campaign` | 4 nodes, 3 waves, every first command, symmetry in nodes | hints, order, nothing forgotten, canary |
| `campaign_canary` | 3 nodes, 2 waves | a violation, see section 5 |
| `wait_ready` | window 3, deadline 4, poll and dial 1, outages of 4 or more | ready is back, failed was away, the end in time |
| `rotation` | 3 rotations, unbounded failures, kills and repairs | a way back in, bundles, agreement, advice |
| `lifecycle` | 2 control planes with a worker between them in the config, 3 commands of 15 or hinted, 2 etcds, 1 fault, unbounded kills | one etcd, nothing unasked, the gate, the teardown |
| `upgrade` | 1 control plane, then 2 workers at once, 7 mixtures of versions, 6 sets of flags, 1 run after another's, 2 names, 1 silent node, unbounded kills | snapshot first, with two goroutines at one snapshot; true metrics |
| `cluster_dir` | 2 processes, 2 commands, 2 nodes of one schematic and two factories, 2 seconds, unbounded kills and power losses | refinement of `AtomicFiles`; files written in place, `.gitignore`, bundle, init, schematics |

Why the bounds are enough to be of interest. Three targets hold two control planes
with a worker before, between or after them, a batch of one beside a batch of two,
and one, two or three waves; nothing in `run` compares more than neighbouring
batches, and the proofs remove the bound. A liveness argument needs one batch after
another, which two targets give; they are also one wave of two or two of one, each of which
may fail or be broken off, and the refinement is proved for any number. Two goroutines suffice for a child being forked
while another's is killed, and a second job for a file registered after another was
removed. Four nodes make `finish` release two or three held nodes at once. Three
waves are one before, one at and one after the `--until` or `--from` of a command.
The times of `wait_ready` allow a reboot and an outage after it, windows that start
before and end after the deadline, and every outcome; poll and dial are the unit, so
every order of their ends occurs. Three rotations allow one over the leftovers of two others, and the proofs remove
that bound too. Two control planes are the fewest of which one can be down or reset
while the other holds the cluster's data, and an etcd of two is the smallest that can be
too small to let one go; three commands are a build, what goes wrong with it and what
its hint does, or a teardown and the two it takes to carry it on; one fault is a node
lost or an answer lost, at any point of any of them. Two workers in a batch are two
goroutines at one snapshot, in the starts in which the control plane is up to date and
takes none, and two names a rival that takes the first. Two commands in
a directory are every pair at once or in turn, with a directory that has a bundle, under
either name, from the start.

In `campaign` the nodes are permuted by a symmetry: they differ only by their wave,
which is any. In `upgrade` it permutes the two workers of the one batch, whose starting
versions are closed under it, and in `cluster_dir` the processes. None of these runs
checks liveness, for which symmetry would be unsound.

Deadlock is checked in `rotation`, where the operator can always do something. The
other systems do stop: a run returns, a program exits, a campaign is over. For
those that must, that they end is a liveness property instead.

### Fairness

* `Rollout`: the pass and each node's command go on. The code justifies it with the
  `--timeout` that commands carry, `WaitReady`'s deadline and the health check's
  `--wait-timeout`. Machines are not fair (they may never come back) nor is the
  person who interrupts.
* `Interrupt`: goroutines, handler and return are scheduled. A child is certain to
  end only once the context is cancelled: SIGTERM and, after `waitDelay`, a kill.
  Signals need not come.
* `InOrder`: a waiting goroutine gets a slot that stays free, and `finish` is
  deferred in it. A node need not speak.

## 4. The proofs

`tlapm` checks `RolloutProofs`, `CampaignProofs`, `PassProofs`, `WaitReadyProofs`,
`RotationProofs`, `LifecycleProofs`, `UpgradeProofs` and `ClusterDirProofs` with nothing
left open.

Assumptions: in `Rollout`, `N` and `MaxParallel` positive and `Runs` a set of runs;
in `Campaign`, `W` positive; in `Interrupt`, `MaxJobs` positive; in `InOrder`, `N`
positive and `MaxSays` a natural number;
in `WaitReady`, the two assumptions above and all times natural numbers; in
`Rotation`, `MaxRotations` positive. In `Lifecycle`, the config names no node twice
and some control plane, the workers are among its nodes, and `Commands` are commands; in
`Upgrade`, each layout is a sequence of batches, not empty, that covers the nodes, and the
savers are this run and a rival; in
`ClusterDir`, the named paths differ from each other and from the nodes' and the
backups', and every node has a factory and a schematic. The theorems hold for every
such value, all layouts of waves and control planes included. The bounds on runs,
faults, names and seconds are constants too, so no theorem depends on how large they are.

`RolloutProofs`:

* `Typing`. `TypeOK` is inductive but for `upto`, which needs that a batch ends
  within the targets.
* `ControlPlanesOneAtATime`. `OneControlPlaneAway` is not inductive: a machine may go
  down at any time after its command. The strengthening says where each target can
  be: those up to `done` have succeeded, those past `upto` wait (`Progress`), a
  machine that was not sent a command is up, and one that waited and succeeded is
  up (`MachinesKnown`), and a batch that enacts anything holds one control plane at
  most, alone (`ControlPlanesApart`). A pass that does not wait has at most one
  control plane in all.
* `FailureIsTheEnd` and `HintsAreExact` add `StopInv`: once stopped, the hint is what
  `Progress` says is left.
* `AsPlanned`: a roll-out implements `Campaign`, as `RolloutRuns` maps it, and its hint is
  exact. First the geometry of the layout (`WavesLaidOut`, `LastEndIs`, `WaveUnderWay`: a set
  of positions has a least and a greatest, by well-founded induction) and the plan of the
  command (`PlanOfTheRun`); then, step by step, that a batch which ends a wave is `WaveDone`, a
  failed batch or a gate that fails inside a wave `WaveFails`, a soak and gate `Watch` or
  `WatchFails`, the return `Finish`, and all else a stutter. `GateInv` says that
  `actedInWave` is set by every change of the wave; the refinement needs the converse too
  (`WatchInv`), that it is set by nothing else, and that nothing is watched when nothing
  follows.
* `EveryBatchIsGated` and `EveryWaveIsWatched` add `GateInv`, which relates `seen` to
  the changes behind `done`, according to where the pass is: at the loop all is
  looked at, at the gate all has soaked, and `actedInWave` covers every change of
  the wave under way since its start.

`CampaignProofs`:

* `Typing`. A hint is a command only if it selects something: a run stops with work left
  (`SomethingLeft`), and the least of the waves of what is left is one of them
  (`MinIsLeast`, by well-founded induction).
* `NoneForgotten`. `NothingForgotten` speaks of a run that has stopped. `ReachInv` says of a
  run under way that what is wanted, short of `--until` and not finished with, is planned
  and lies past the wave it is at; the two hints, `LeftHint` and `FromHint`, each reach what
  is left. `HintInv`: a command other than the first selects nothing beyond its own
  `--until`, so it is stopped short by one only once.
* `InWaveOrder`. By `ReachInv`, a node wanted and not finished with is of no wave before the
  next one, or lies beyond `--until`, past all of this run's waves.
* `CanaryFirst`. `WatchInv`: while no node has failed, what is unwatched is about to be
  watched, or nothing comes after it in this run or by its hint.

`PassProofs`, of `Interrupt`:

* `Typing`, `FirstSignalNames`. The handler is past `waiting` exactly when there is a first
  signal, and the context is cancelled only by it; so once it is, both ways out find the
  signal noted: `Return`, which asks for it, and the forced exit.
* `ChildrenEnd`. `NoOrphans` speaks of the exit only. `HandlerInv` ties `killing` to how far
  the handler has come, and `ChildInv` says that a child belongs to a goroutine that is
  waiting for it, and that once the drain is over and did not time out none is
  alive and none is being started.
* `SecretsSwept`. `TempInv`: the file a goroutine holds is on the list, or after the sweep
  among those put there too late, and it holds no secret before it is listed.

`PassProofs`, of `InOrder`:

* `OutputTyping`, `ReadInOrder`. `InOrderInv`: `next` is the first node that is not finished;
  what the nodes up to it have said is printed, block by block, and what a later
  one has said is held. `Transcript`'s view is that same text (`ReaderSees`), so that
  `Start` is a stutter, `Say` its `Speak` and `Finish` its `Finish`. The text is a flattening,
  which the library defines by recursion: `Built` shows that the recursive function
  exists, by the least number without one (`LeastThereIs`, from well-founded
  induction), and `FlattenJoined` and `FlattenAlone` are what the steps need of it.
* `AllIsPrinted`: once all are finished nothing is held, since `next` is then past every node.

`WaitReadyProofs`:

* `ReadyMeansBack`. That the node was up at the last answer is not enough: it may
  have been away since the one before. `WindowKept` says that in a window it has been
  up from the start, or went down after it last answered and, if it is up again, is
  so long after that this poll must have found it down. That is where
  `RebootAssumption` is used; `WindowAssumption` gives the reboot still to come.
* `OnlyTheAwayFail`. `AwayKept` carries what the first failed attempt showed over to the
  second, during which node and routes may change; and a success never fails, since
  the limit is then at least the end of the window.
* `WaitIsBounded`. `LateKept`: a window starts by `LastStart` or not at all, because a
  turn that ends past the deadline without one fails.

`RotationProofs`:

* `AlwaysAWayIn`. The talosconfig in place is no help, since render may overwrite
  it; the invariant is that the rotated talosconfig or the bundle holds an accepted
  CA. When the bundle is replaced, it is by what a control plane held, and what a
  control plane holds is accepted (`OwnAccepted`, `ReadAccepted`).
* `NoBundleIsLost`: at the replacement the bundle is among those kept.
* `HintsWork`, `RotationTyping`: `HintInv` says, for each place in a run, which
  talosconfig is accepted; the hint reads one file, and these are the facts that
  make that one clue enough. Typing needs it: the rename is typed only because there
  is a file to rename.
* `DoneIsInLine`. `LineInv`: from the question put to a control plane on, only files change,
  so what was read back is still what it holds, and the talosconfig it was asked through
  is still accepted.

`LifecycleProofs`:

* `Typing` needs `Walk`: what kind of command it is, by how far it has come.
* `AsAsked`. `MaySend`: a run that is about to send a config to a node it found in
  maintenance mode, or told to ask without authenticating, is one whose flags allow it.
* `NoSecondEtcd`. That the control planes had no data was found out one by one and some
  time ago. `Probing`: while all asked so far were new, an etcd there may be lives on one
  not yet asked, since a control plane joins only an etcd that has quorum, and one with
  quorum is served by somebody (`Data`, and a count of its members). `Alone`: from the end
  of the probe on nobody makes one until this run does. `Stage`: that is once, by a
  `--bootstrap` in earnest.
* `TeardownEnds`. `Teardown`: a chain's command and its hint reset no control plane that
  the chain did not set out to wipe (`doomed`); if that was all of them, each command is
  told that it is a teardown, or sees every control plane selected (`Told`); and while a
  worker is left, so is every control plane.
* `GateStays`. `Remembered`: of a node already done, the mode remembered is not maintenance,
  and if none is, the node has booted its config and will not say so when asked (`Known`). It takes
  that only one node is next, since the config names no node twice.

`UpgradeProofs`:

* `Typing`. `UnderWay`: a run has its metrics group and room for its report from its start,
  and batches are left while nodes are worked on.
* `ReportsTrue`. `NodeTrue`: a node's result is there once its goroutine is done with it, and
  is true of what was sent. `UpgradeTrue`: a node without one is in a batch still to go, so
  a run past its last batch may say it succeeded; `K8sTrue` says it of the one call of
  `upgrade-k8s`. `LastTrue`: the file is of the group that wrote it last, so that a report
  that arrives carries forward the last success among those that arrived in a row
  since another group's.
* `SnapshotsFirst`. `InTurn`: once `snapOnce` is done the snapshot was saved or failed, a
  goroutine goes on to send only if saved, and a saved name holds that saver's
  snapshot, as `os.Link` refuses a name that is taken.

`ClusterDirProofs`:

* `Typing` needs `Fit` of each process: a backup has a name by the time it is written, a
  place belongs to its command, no config is written before all are rendered, and a
  renderer's cache holds only what was submitted.
* `SchematicsKnown`. `NamedInv` says it both of what a process finds in the directory and
  of what a power loss would leave there.
* `NoBundleIsLost`. `BundleInv`: each settled bundle either has its backup, and whoever
  is to write that name writes that same bundle, or is in use, and every generate that
  runs will keep it before it replaces it, or fail to read it, whereupon it is not settled
  any more. Bundles are never dirty, so this survives a
  power loss, and the old name of a bundle stops a generate.
* `Atomic` is the refinement of `AtomicFiles`. A step of a command replaces one file by a
  finished one or leaves all of them (`WorksReplace`), which takes that a process about to
  keep a bundle has one in hand (`Fit`). `WholeInv`: what is replaced is whole, in hand and
  on disk, and never dirty, so a writeback leaves all of it, and a power loss
  goes back to it (`StepsReplace`).
* `NothingLeftHalfDone` adds three invariants. For `InPlaceWhole`: a file in place is emptied
  only by who then writes it (`WholeStep`), stays as it is through the steps of others
  (`InPlaceStays`), and is on `cut` if they end before it is full. `HiddenInv`: once a process is
  past the `.gitignore`, it stays talman's, whole or being rewritten or cut short. And `InitInv`: the files an init counts as its own are all that there are of
  it, and are no other init's and not the operator's, which is needed because `undo`
  removes by name.

Model-checked only: liveness (`Ends`, `StopsInTheEnd`, `NothingHeldBack`), which is
beyond the prover. Every invariant, action property and refinement of a passing run is
proved.

## 5. Disagreements found

* `interrupt_secret`: `CreateTemp` says a forced exit must not leave a plaintext copy
  beside a bundle (`internal/interrupt/interrupt.go:175`). Between the end of
  `RunCleanups` and `os.Exit` other goroutines run on, and a file created or
  registered there is left. `SweptClean`, which holds, states what the code does
  guarantee: only files listed after the sweep can be left.
* `campaign_canary`: `README.md:1290` says a run that stops short of later waves soaks
  and gates after the wave it stops at. A run told `--until blue` that fails on a node
  of blue hints at the same command with `-n` for the nodes left. `plan` lays out only
  those, finds no wave after blue, and the resumed run ends without soak or gate and
  without the command that carries on. `CanaryWatched`, which holds, is the promise
  as long as no node has failed.

Smaller ones, met while modelling and stated by no property:

* `README.md:1069` says the wait asks only the node itself, so a cluster in trouble does
  not hold it up. `askNode` asks through the endpoints too, which is what a firewalled
  worker needs, and what such a worker is held up by.
* With `--wait=false --health` the gate asks a node again as soon as its config has
  landed, hears "maintenance" of one that still boots, and stands down for the rest of
  the run, which is what forgetting the old answer was to prevent
  (`internal/cli/apply.go:551`). `GateNotHeldDown` is stated of runs that wait.
* With `--insecure=false --health` a node whose config changes nothing is not waited for
  (`internal/cli/apply.go:534`), and what the gate heard of it while it still booted
  is kept: the gate then stands down for the rest of the run, even if the
  etcd of another control plane is down. `GateNotHeldDown` is stated of runs that ask
  each node which API it answers.
* `ensureGitignore` says a truncated `.gitignore` is rewritten
  (`internal/render/write.go:101`); one truncated to nothing has lost its header and is
  refused as somebody else's. `os.WriteFile` truncates before it writes, so talman itself can
  leave one, when it is stopped while it restores the rule beside secrets; they
  are then committable until the operator removes the file (`Guarded`'s exception).
* A push after a run that planned no node leaves the last run's node series standing,
  though all of `Text`'s comments are about not doing so: `Text` returns before them
  (`internal/metrics/metrics.go:418`). `Record` leaves series of nodes out of `endpoint`.
* `init` undoes nothing when `MkdirAll` fails partway (`internal/cli/init.go:256`).
* `secrets generate --force` keeps no copy of a bundle it cannot read: line 105 of
  `internal/cli/secrets.go` takes every error of the read for there being none, and line 118
  replaces the bundle. Its comment (lines 102-104) and `--force`'s help (line 135) say that the
  old one is kept. `ReadOldBundle` has the step; `BundleKept` is stated of the bundles that
  could be read.
* A node silent during the downgrade check that answers by its turn is taken back
  (`internal/cli/downgrade.go:41` leaves it out on purpose).

## 6. Not modelled, and why

Parsing, defaulting, validating and merging of configuration, patches, templates and
schematics are functions of their input with table tests beside them. Redaction
works on characters. The wording of output, the metrics text format, the pass-through
commands and the read-only reports have no behaviour over time. `Rotation` leaves out
the dry run and the confirmation, which change nothing, and the sops preflight,
whose answer may change before it matters. `Apply` leaves out what is read before the
first node is touched and changes nothing: the Kubernetes downgrade check, rendering and
the choice of what to redact; and `Campaign` the waves of `--only-new-nodes`, which are
the plan's with nodes taken out (`keepNodes`). Two operators with two different
`talman.yaml` for one cluster are not modelled. `Rendering` leaves out nodes that name a
schematic's ID instead of a schematic, and the cache of decrypted schematic files, which
is read and filled under one lock. `Snapshot` leaves out a destination the operator
names. A run that is refused before its first node (a bad push URL or label) is in `Upgrade`
a run killed at once, which leaves no report either. A file written in place is empty until
all of it is there: what a partial write leaves is taken for empty too.

## 7. What could be added

All components with behaviour over time are modelled, and the safety of all of them is
proved. What would come next is composition: a `Rollout` whose `waits` is a `WaitReady` for
each node, in place of the assumption; `Lifecycle` with batches; two terminals in
`Lifecycle`.
