----------------------------- MODULE RolloutRuns -----------------------------
(***************************************************************************)
(* What goes on inside one run, Rollout, is one run of Campaign: wave by   *)
(* wave, each watched as one step, and stopping with the command that      *)
(* carries on.  A Campaign's run is told what its command selects; here    *)
(* that is read off the flags and the layout of the run.                   *)
(***************************************************************************)
EXTENDS Rollout, FiniteSetsExt

(* The waves are named by their last positions.  One node more, in a wave  *)
(* of its own, stands for all that the run leaves to later ones.           *)
Later == N + 1
All == 1 .. Later

WaveOf(p) == IF p = Later THEN Later ELSE Min({e \in run.ends : p <= e})

(* The end of the last wave among the first d positions, or 0. *)
LastEndBy(d) == Max({0} \cup {e \in run.ends : e <= d})

LastEnd == LastEndBy(done)

(* The command that was typed.  --wave chose the waves of the run, if it   *)
(* left out later ones; --until is the last wave, if it stopped short.     *)
Command1 ==
  [nodes |-> IF More THEN All ELSE Pos,
   only  |-> IF ~run.beyond THEN {} ELSE IF run.until THEN run.ends \cup {Later} ELSE run.ends,
   from  |-> 1,
   until |-> IF run.until THEN N ELSE Later]

(* The run stopped inside a wave: a node failed, or the gate after a batch *)
(* that was not the wave's last.                                           *)
Fell == pc = "stopped" /\ (done < upto \/ done \notin run.ends)

(* The wave it has come to. *)
Reached == IF Fell THEN WaveOf(done + 1) ELSE LastEnd

(* The run watches what its waves change. *)
Watches == ~run.inert /\ (run.soak \/ run.health)

Watching == pc = "soak" \/ (pc = "gate" /\ EndsWave(done))

Finished == IF Fell THEN {p \in Pos : node[p] \in Succeeded} ELSE 1 .. LastEnd

Changed == {p \in Finished : node[p] = "changed" /\ Watches}

(* What was changed and is neither watched nor about to be needs no watch, *)
(* but for what the run was about when it fell.                            *)
Unwatched ==
  {p \in Changed : IF Fell THEN p > LastEnd
                           ELSE WaveOf(p) = LastEnd /\ (Watching \/ (done = N /\ ~More))}

(* Where the run is, as one of several. *)
Place ==
  CASE pc \in {"ready", "refused"} -> "typed"
    [] Watching -> "watch"
    [] pc = "stopped" -> IF hint.left = {} /\ ~hint.from THEN "over" ELSE "stopped"
    [] pc = "returned" -> IF run.until THEN "stopped" ELSE "over"
    [] OTHER -> "wave"

(* The command it leaves, by its hint or by carryOn. *)
Carried ==
  IF pc = "stopped" /\ hint.left # {} THEN [Command1 EXCEPT !.nodes = hint.left]
  ELSE IF (pc = "stopped" /\ hint.from) \/ (pc = "returned" /\ run.until)
    THEN [Command1 EXCEPT !.from = Later, !.until = Later]
  ELSE Command1

OneRun == INSTANCE Campaign WITH
  Nodes <- All, W <- Later, wave <- [p \in All |-> WaveOf(p)],
  first <- Command1, cmd <- Carried, pc <- Place, at <- Reached,
  ok <- Finished, touched <- 1 .. Reached, changed <- Changed,
  unwatched <- Unwatched, failed <- Fell

(* A roll-out goes through its waves as one run of a Campaign, and when it *)
(* stops its hint is what that Campaign carries on with: exactly the       *)
(* targets that have not succeeded, or the wave --until stopped before.    *)
RunsAsPlanned == OneRun!Spec /\ []HintIsWhatIsLeft
=============================================================================
