------------------------------ MODULE Campaign ------------------------------
(***************************************************************************)
(* A change carried through the cluster by several runs: the first         *)
(* command, and the ones its hints say to carry on with.  What a command   *)
(* reaches is waveFlags.plan's answer to its flags (internal/cli/          *)
(* rollout.go, over config.Stages), and what the next command is depends   *)
(* on how this one ended.                                                  *)
(*                                                                         *)
(* Rollout has the inside of a run.  Here a wave is one step, and the soak *)
(* and the gate after it another, so that runs can follow one another.     *)
(***************************************************************************)
EXTENDS Naturals, FiniteSetsExt

CONSTANTS Nodes,
          W      \* waves: those of rollout.waves, and the rest as the last

ASSUME WavesAssumption == W \in Nat \ {0}

Waves == 1 .. W

(* A command: the nodes -n and -g select, --wave's waves, --from, --until.  *)
Commands == [nodes : (SUBSET Nodes) \ {{}}, only : SUBSET Waves,
             from : Waves, until : Waves]

VARIABLES
  wave,       \* the wave each node belongs to
  first,      \* the first command of the campaign
  cmd,        \* the command running, or the one to type next
  pc,         \* where that run is
  at,         \* the last wave it took, or 0
  ok,         \* nodes a run of the campaign finished with
  touched,    \* nodes a run of the campaign began on
  changed,    \* nodes the run under way changed
  unwatched,  \* changes that no soak and gate, passed or not, came after
  failed      \* a node has failed in some run of the campaign

vars == <<wave, first, cmd, pc, at, ok, touched, changed, unwatched, failed>>

TypeOK ==
  /\ wave \in [Nodes -> Waves]
  /\ first \in Commands /\ cmd \in Commands
  /\ pc \in {"typed", "wave", "watch", "stopped", "over", "refused"}
  /\ at \in 0 .. W
  /\ ok \subseteq Nodes /\ touched \subseteq Nodes
  /\ changed \subseteq Nodes /\ unwatched \subseteq Nodes
  /\ failed \in BOOLEAN

Init ==
  /\ wave \in [Nodes -> Waves]
  /\ first \in Commands
  /\ cmd = first
  /\ pc = "typed" /\ at = 0
  /\ ok = {} /\ touched = {} /\ changed = {} /\ unwatched = {}
  /\ failed = FALSE

-----------------------------------------------------------------------------
(* The plan.                                                               *)

(* The waves of a command's selection that --wave and --from let through. *)
Selected(c) ==
  {v \in {wave[n] : n \in c.nodes} : (c.only = {} \/ v \in c.only) /\ v >= c.from}

(* The waves the command's run goes through. *)
Kept(c) == {v \in Selected(c) : v <= c.until}

Planned(c) == {n \in c.nodes : wave[n] \in Kept(c)}

(* A mutation of ThenFrom: the next wave of the config, whoever is in it. *)
ThenFromNextIndex(c) == c.until + 1

(* The wave --until stops short of, or 0. *)
ThenFrom(c) ==
  LET beyond == {v \in Selected(c) : v > c.until}
  IN  IF beyond = {} THEN 0 ELSE Min(beyond)

(* A selection that reaches no node is a mistake, not a run. *)
Refused(c) == c.from > c.until \/ Kept(c) = {}

(* A mutation of More: only a --wave run ends at a boundary. *)
MoreForWave(c) == c.only # {} /\ \E n \in c.nodes : wave[n] > Max(Kept(c))

(* Waves come after this run's last, by the operator's choice. *)
More(c) ==
  \/ ThenFrom(c) # 0
  \/ c.only # {} /\ \E n \in c.nodes : wave[n] > Max(Kept(c))

(* The command that carries on with the nodes left, every flag but -n and -g  *)
(* as it was.                                                                 *)
LeftHint(left) == [cmd EXCEPT !.nodes = left]

(* The command that carries on after --until: the selection as it was. *)
FromHint == [cmd EXCEPT !.from = ThenFrom(cmd), !.until = W]

-----------------------------------------------------------------------------
(* A run.                                                                  *)

Ahead == {v \in Kept(cmd) : v > at}

(* A mutation of NextWave: the waves in the wrong order. *)
NextWaveLast == Max(Ahead)

(* Waves go in the config's order. *)
NextWave == Min(Ahead)

Members(v) == {n \in cmd.nodes : wave[n] = v}

(* The operator types the command, the first one or the one hinted at. *)
Type ==
  /\ pc \in {"typed", "stopped"}
  /\ pc' = IF Refused(cmd) THEN "refused" ELSE "wave"
  /\ at' = 0 /\ changed' = {}
  /\ UNCHANGED <<wave, first, cmd, ok, touched, unwatched, failed>>

(***************************************************************************)
(* Every node of the wave succeeds: those that have nothing to do when     *)
(* they are asked are skipped, and the new ones change.  A wave that       *)
(* changed something is watched, unless it is the last and no wave comes   *)
(* after it.                                                               *)
(***************************************************************************)
WaveDone ==
  /\ pc = "wave" /\ Ahead # {}
  /\ LET v == NextWave
     IN  /\ at' = v
         /\ ok' = ok \cup Members(v)
         /\ touched' = touched \cup Members(v)
         /\ \E new \in SUBSET Members(v) :
              /\ changed' = changed \cup new
              /\ unwatched' = unwatched \cup new
              /\ pc' = IF new # {} /\ (More(cmd) \/ Ahead # {v}) THEN "watch" ELSE "wave"
  /\ UNCHANGED <<wave, first, cmd, failed>>

(* A mutation of Remaining: the node that failed is not named. *)
RemainingLaterWaves(v, good) == {n \in Planned(cmd) : wave[n] > v}

(* What is left of the run when only some of the wave succeeded. *)
Remaining(v, good) == {n \in Planned(cmd) : wave[n] >= v} \ good

(* Some of the wave succeeds, new ones among them, and the run stops.      *)
WaveFails ==
  /\ pc = "wave" /\ Ahead # {}
  /\ pc' = "stopped"
  /\ failed' = TRUE
  /\ LET v == NextWave
     IN  /\ at' = v
         /\ touched' = touched \cup Members(v)
         /\ \E good \in (SUBSET Members(v)) \ {Members(v)} :
              /\ ok' = ok \cup good
              /\ cmd' = LeftHint(Remaining(v, good))
              /\ \E new \in SUBSET good :
                   /\ changed' = changed \cup new
                   /\ unwatched' = unwatched \cup new
  /\ UNCHANGED <<wave, first>>

(* The soak, and then the gate, both of which this campaign asks for. *)
Watch ==
  /\ pc = "watch"
  /\ unwatched' = {}
  /\ pc' = "wave"
  /\ UNCHANGED <<wave, first, cmd, at, ok, touched, changed, failed>>

(***************************************************************************)
(* An interrupt ends the soak, or the gate fails: the operator is told, and *)
(* what follows is up to them.                                             *)
(***************************************************************************)
WatchFails ==
  /\ pc = "watch"
  /\ unwatched' = {}
  /\ IF Ahead # {}
       THEN cmd' = LeftHint({n \in Planned(cmd) : wave[n] > at}) /\ pc' = "stopped"
     ELSE IF ThenFrom(cmd) # 0
       THEN cmd' = FromHint /\ pc' = "stopped"
     ELSE UNCHANGED cmd /\ pc' = "over"
  /\ UNCHANGED <<wave, first, at, ok, touched, changed, failed>>

(* The run is over; carryOn names the wave --until stopped before, if any. *)
Finish ==
  /\ pc = "wave" /\ Ahead = {}
  /\ IF ThenFrom(cmd) # 0 THEN cmd' = FromHint /\ pc' = "stopped"
                          ELSE UNCHANGED cmd /\ pc' = "over"
  /\ UNCHANGED <<wave, first, at, ok, touched, changed, unwatched, failed>>

Next == Type \/ WaveDone \/ WaveFails \/ Watch \/ WatchFails \/ Finish

Spec == Init /\ [][Next]_vars

-----------------------------------------------------------------------------
(* What carrying on promises.                                              *)

(* The nodes the campaign was asked to reach in the end. *)
Wanted == {n \in first.nodes : wave[n] \in Selected(first)}

(* No node of a wave is begun on before every node wanted of the waves      *)
(* before it has been finished with, by whichever run.                      *)
WavesInOrder ==
  \A m \in touched, n \in Wanted : wave[n] < wave[m] => n \in ok

(* A hint is a command talman accepts.  A node a stopped run was to reach   *)
(* and no run has finished with is one the hint's run will reach; a         *)
(* campaign whose runs are over has none.                                   *)
NothingForgotten ==
  /\ pc = "stopped" => ~Refused(cmd)
  /\ \A n \in Wanted \ ok : wave[n] <= cmd.until =>
       /\ pc = "stopped" => n \in Planned(cmd)
       /\ pc # "over"

(* The canary: as long as no node failed, no wave begins while a change of  *)
(* an earlier one has gone unwatched -- not even when the run that made it  *)
(* stopped there and another carries on from it.                            *)
CanaryWatched ==
  pc = "wave" /\ Ahead # {} /\ ~failed =>
    \A n \in unwatched : wave[n] >= NextWave

(* "A run that stops short of later waves soaks and gates after the wave it *)
(* stops at" (README.md): one told --until, by the operator or in a hint,   *)
(* is not over while what it changed has gone unwatched.                    *)
StopsShortWatched ==
  pc = "over" /\ cmd.until = first.until /\ ThenFrom(first) # 0 =>
    changed \cap unwatched = {}
=============================================================================
