--------------------------- MODULE CampaignProofs ---------------------------
(***************************************************************************)
(* For any nodes, in any waves, and any command to begin with: runs that   *)
(* follow each other's hints go through the waves in order, forget no node *)
(* and watch the canary.                                                   *)
(***************************************************************************)
EXTENDS Campaign, WellFoundedInduction, TLAPS

USE WavesAssumption

-----------------------------------------------------------------------------
(* Sets of waves, which have a first.                                      *)

(* A set of numbers, however many, has a least one. *)
LEMMA MinIsLeast ==
  ASSUME NEW S, S \subseteq Nat, S # {}
  PROVE  Min(S) \in S /\ \A v \in S : Min(S) <= v
<1> DEFINE Less == OpToRel(<, Nat)
<1>1. \A v, w \in Nat : <<v, w>> \in Less <=> v < w
  BY DEF OpToRel
<1>2. IsWellFoundedOn(Less, Nat)
  BY NatLessThanWellFounded
<1> HIDE DEF Less
<1>3. PICK w \in S : \A v \in S : ~(<<v, w>> \in Less)
  BY <1>2, WFMin, Zenon
<1>4. ASSUME NEW v \in S PROVE w <= v
  <2>1. v \in Nat /\ w \in Nat
    OBVIOUS
  <2>2. ~(v < w)
    BY <1>1, <1>3, <2>1, Zenon
  <2> QED
    BY <2>1, <2>2
<1> QED
  BY <1>4 DEF Min

(* What is left of a command's waves is among them, and so is the next. *)
LEMMA PlanInWaves ==
  ASSUME TypeOK
  PROVE  /\ \A c \in Commands : Selected(c) \subseteq Waves /\ Kept(c) \subseteq Selected(c)
         /\ Ahead # {} => NextWave \in Ahead /\ \A v \in Ahead : NextWave <= v
         /\ \A c \in Commands : ThenFrom(c) # 0 =>
              /\ ThenFrom(c) \in Selected(c) /\ ThenFrom(c) > c.until
              /\ \A v \in Selected(c) : v > c.until => ThenFrom(c) <= v
         /\ \A c \in Commands : ThenFrom(c) = 0 => \A v \in Selected(c) : v <= c.until
<1>1. ASSUME NEW c \in Commands
      PROVE  /\ Selected(c) \subseteq Waves /\ Kept(c) \subseteq Selected(c)
             /\ c.until \in Waves
  BY DEF TypeOK, Commands, Selected, Kept
<1>2. Ahead \subseteq Nat
  BY <1>1 DEF Ahead, Waves, TypeOK
<1>3. Ahead # {} => NextWave \in Ahead /\ \A v \in Ahead : NextWave <= v
  BY <1>2, MinIsLeast DEF NextWave
<1>4. ASSUME NEW c \in Commands
      PROVE  /\ ThenFrom(c) # 0 =>
                  /\ ThenFrom(c) \in Selected(c) /\ ThenFrom(c) > c.until
                  /\ \A v \in Selected(c) : v > c.until => ThenFrom(c) <= v
             /\ ThenFrom(c) = 0 => \A v \in Selected(c) : v <= c.until
  <2> DEFINE beyond == {v \in Selected(c) : v > c.until}
  <2>1. beyond \subseteq Nat /\ 0 \notin beyond
    BY <1>1 DEF Waves
  <2>2. ThenFrom(c) = IF beyond = {} THEN 0 ELSE Min(beyond)
    BY DEF ThenFrom
  <2>3. beyond # {} => Min(beyond) \in beyond /\ \A v \in beyond : Min(beyond) <= v
    BY <2>1, MinIsLeast
  <2>4. beyond = {} => \A v \in Selected(c) : v <= c.until
    BY <1>1 DEF Waves
  <2> QED
    BY <2>1, <2>2, <2>3, <2>4
<1> QED
  BY <1>1, <1>3, <1>4

(* What a command reaches, node by node. *)
LEMMA PlannedNodes ==
  ASSUME TypeOK, NEW c \in Commands, NEW n \in c.nodes
  PROVE  /\ n \in Nodes /\ wave[n] \in Waves
         /\ wave[n] \in Selected(c) <=> (c.only = {} \/ wave[n] \in c.only) /\ wave[n] >= c.from
         /\ wave[n] \in Kept(c) <=> wave[n] \in Selected(c) /\ wave[n] <= c.until
         /\ n \in Planned(c) <=> wave[n] \in Kept(c)
  BY DEF TypeOK, Commands, Selected, Kept, Planned

(* The command that carries on with what is left reaches just that. *)
LEMMA LeftHintReaches ==
  ASSUME TypeOK, NEW left, left # {}, left \subseteq Planned(cmd),
         wave' = wave, cmd' = LeftHint(left)
  PROVE  /\ cmd' \in Commands
         /\ cmd'.nodes = left /\ cmd'.until = cmd.until
         /\ \A n \in left : wave[n] <= cmd.until
         /\ Planned(cmd)' = left
         /\ ~Refused(cmd)'
<1>1. cmd \in Commands /\ left \subseteq cmd.nodes
  BY DEF TypeOK, Planned
<1>2. cmd' \in Commands
  BY <1>1 DEF LeftHint, Commands
<1>3. /\ cmd'.nodes = left /\ cmd'.only = cmd.only
      /\ cmd'.from = cmd.from /\ cmd'.until = cmd.until
  BY <1>1 DEF LeftHint, Commands
<1>4. ASSUME NEW n \in left
      PROVE  /\ wave[n] \in Waves
             /\ cmd.only = {} \/ wave[n] \in cmd.only
             /\ wave[n] >= cmd.from /\ wave[n] <= cmd.until
  BY <1>1, PlannedNodes
<1>5. ASSUME NEW n \in left PROVE wave[n] \in Kept(cmd)'
  BY <1>3, <1>4 DEF Kept, Selected
<1>6. Planned(cmd)' = left
  BY <1>3, <1>5 DEF Planned
<1>7. Kept(cmd)' # {}
  BY <1>5
<1>8. cmd.from <= cmd.until
  BY <1>1, <1>4 DEF Commands, Waves
<1>9. ~Refused(cmd)'
  BY <1>1, <1>3, <1>7, <1>8 DEF Refused, Commands, Waves
<1> QED
  BY <1>2, <1>3, <1>4, <1>6, <1>9

(* The command that carries on after --until reaches all that lay beyond. *)
LEMMA FromHintReaches ==
  ASSUME TypeOK, ThenFrom(cmd) # 0, wave' = wave, cmd' = FromHint
  PROVE  /\ cmd' \in Commands
         /\ cmd'.nodes = cmd.nodes /\ cmd'.until = W
         /\ \A n \in cmd.nodes :
              wave[n] \in Selected(cmd) /\ wave[n] > cmd.until => n \in Planned(cmd)'
         /\ ~Refused(cmd)'
<1>1. cmd \in Commands /\ W \in Waves
  BY DEF TypeOK, Waves
<1>2. /\ ThenFrom(cmd) \in Selected(cmd) /\ ThenFrom(cmd) \in Waves
      /\ \A v \in Selected(cmd) : v > cmd.until => ThenFrom(cmd) <= v
  BY <1>1, PlanInWaves
<1>3. cmd' \in Commands
  BY <1>1, <1>2 DEF FromHint, Commands
<1>4. /\ cmd'.nodes = cmd.nodes /\ cmd'.only = cmd.only
      /\ cmd'.from = ThenFrom(cmd) /\ cmd'.until = W
  BY <1>1 DEF FromHint, Commands
<1>5. ASSUME NEW v \in Selected(cmd), ThenFrom(cmd) <= v PROVE v \in Kept(cmd)'
  <2>1. v \in {wave[n] : n \in cmd.nodes} /\ (cmd.only = {} \/ v \in cmd.only) /\ v \in Waves
    BY <1>1, PlanInWaves DEF Selected
  <2> QED
    BY <1>4, <1>5, <2>1 DEF Kept, Selected, Waves
<1>6. ASSUME NEW n \in cmd.nodes, wave[n] \in Selected(cmd), wave[n] > cmd.until
      PROVE  n \in Planned(cmd)'
  <2>1. wave[n] \in Kept(cmd)'
    BY <1>2, <1>5, <1>6
  <2> QED
    BY <1>4, <2>1 DEF Planned
<1>7. Kept(cmd)' # {}
  BY <1>2, <1>5 DEF Waves
<1>8. ~Refused(cmd)'
  BY <1>2, <1>4, <1>7 DEF Refused, Waves
<1> QED
  BY <1>3, <1>4, <1>6, <1>8

(* What a stopped run leaves is something, and was planned. *)
LEMMA SomethingLeft ==
  ASSUME TypeOK, Ahead # {}
  PROVE  /\ {n \in Planned(cmd) : wave[n] > at} # {}
         /\ \A good \in (SUBSET Members(NextWave)) \ {Members(NextWave)} :
              Remaining(NextWave, good) # {}
<1>1. cmd \in Commands /\ NextWave \in Ahead
  BY PlanInWaves DEF TypeOK
<1>2. ASSUME NEW n \in Members(NextWave)
      PROVE  n \in Planned(cmd) /\ wave[n] > at /\ wave[n] = NextWave /\ wave[n] \in Nat
  BY <1>1, PlannedNodes DEF Members, Ahead, Waves
<1>3. Members(NextWave) # {}
  BY <1>1, PlanInWaves DEF Members, Ahead, Kept, Selected
<1>4. ASSUME NEW good \in (SUBSET Members(NextWave)) \ {Members(NextWave)}
      PROVE  Remaining(NextWave, good) # {}
  <2>1. PICK n \in Members(NextWave) : n \notin good
    BY <1>4
  <2> QED
    BY <1>2, <2>1 DEF Remaining
<1> QED
  BY <1>2, <1>3, <1>4

-----------------------------------------------------------------------------
(* Types.                                                                  *)

LEMMA InitTyped == Init => TypeOK
<1> SUFFICES ASSUME Init PROVE TypeOK
  OBVIOUS
<1>1. 0 \in 0 .. W
  OBVIOUS
<1>2. wave \in [Nodes -> Waves] /\ first \in Commands /\ cmd = first
  BY DEF Init
<1> QED
  BY <1>1, <1>2 DEF Init, TypeOK

LEMMA NextTyped == TypeOK /\ [Next]_vars => TypeOK'
<1> SUFFICES ASSUME TypeOK, [Next]_vars PROVE TypeOK'
  OBVIOUS
<1>1. cmd \in Commands /\ (Ahead # {} => NextWave \in 0 .. W)
  BY PlanInWaves DEF TypeOK, Ahead, Waves
<1>2. \A v : Members(v) \subseteq Nodes
  BY <1>1 DEF Members, Commands
<1>3. ASSUME NEW left, left # {}, left \subseteq Planned(cmd), wave' = wave, cmd' = LeftHint(left)
      PROVE  cmd' \in Commands
  BY <1>3, LeftHintReaches
<1>4. ASSUME ThenFrom(cmd) # 0, wave' = wave, cmd' = FromHint
      PROVE  cmd' \in Commands
  BY <1>4, FromHintReaches
<1>5. CASE Type
  BY <1>5 DEF Type, TypeOK
<1>6. CASE WaveDone
  BY <1>1, <1>2, <1>6 DEF WaveDone, TypeOK
<1>7. CASE WaveFails
  <2>1. PICK good \in (SUBSET Members(NextWave)) \ {Members(NextWave)} :
        \E new \in SUBSET good :
          /\ at' = NextWave
          /\ ok' = ok \cup good
          /\ touched' = touched \cup Members(NextWave)
          /\ changed' = changed \cup new
          /\ unwatched' = unwatched \cup new
          /\ cmd' = LeftHint(Remaining(NextWave, good))
    BY <1>7 DEF WaveFails
  <2>2. UNCHANGED <<wave, first>> /\ failed' = TRUE /\ pc' = "stopped" /\ Ahead # {}
    BY <1>7 DEF WaveFails
  <2>3. Remaining(NextWave, good) # {} /\ Remaining(NextWave, good) \subseteq Planned(cmd)
    BY <2>2, SomethingLeft DEF Remaining
  <2>4. cmd' \in Commands
    BY <1>3, <2>1, <2>2, <2>3
  <2> QED
    BY <1>1, <1>2, <2>1, <2>2, <2>4 DEF TypeOK
<1>8. CASE Watch
  BY <1>8 DEF Watch, TypeOK
<1>9. CASE WatchFails
  <2>1. CASE Ahead # {}
    BY <1>3, <1>9, <2>1, SomethingLeft DEF WatchFails, TypeOK
  <2>2. CASE Ahead = {} /\ ThenFrom(cmd) # 0
    BY <1>4, <1>9, <2>2 DEF WatchFails, TypeOK
  <2>3. CASE Ahead = {} /\ ThenFrom(cmd) = 0
    BY <1>9, <2>3 DEF WatchFails, TypeOK
  <2> QED
    BY <2>1, <2>2, <2>3
<1>10. CASE Finish
  <2>1. CASE ThenFrom(cmd) # 0
    BY <1>4, <1>10, <2>1 DEF Finish, TypeOK
  <2>2. CASE ThenFrom(cmd) = 0
    BY <1>10, <2>2 DEF Finish, TypeOK
  <2> QED
    BY <2>1, <2>2
<1>11. CASE UNCHANGED vars
  BY <1>11 DEF vars, TypeOK
<1> QED
  BY <1>5, <1>6, <1>7, <1>8, <1>9, <1>10, <1>11 DEF Next

(* Type correctness of a campaign: every hint is a command there is, which *)
(* reaches some node from some wave, for a run stops only with work left   *)
(* (waveFlags.leftHint) or before a wave there is (carryOn).               *)
THEOREM Typing == Spec => []TypeOK
  BY InitTyped, NextTyped, PTL DEF Spec

-----------------------------------------------------------------------------
(* No node is forgotten.                                                   *)

(* A command that is not the first selects nothing beyond its --until: so  *)
(* what --until stops short of is stopped short of once.                   *)
HintInv == cmd = first \/ \A n \in cmd.nodes : wave[n] <= cmd.until

(* Short of --until, a node wanted and not yet finished with is still to   *)
(* come: in this run, past the wave it is at, or in the run hinted at.     *)
ReachInv ==
  \A n \in Wanted \ ok : wave[n] <= cmd.until =>
    /\ pc \in {"typed", "wave", "watch", "stopped"} => n \in Planned(cmd)
    /\ pc \in {"wave", "watch"} => wave[n] > at
    /\ pc # "over"

Reaching ==
  /\ TypeOK
  /\ HintInv
  /\ ReachInv
  /\ pc = "stopped" => ~Refused(cmd)

(* Who is wanted is told from the first command and the waves alone. *)
LEMMA WantedNodes ==
  ASSUME TypeOK
  PROVE  /\ Wanted \subseteq Nodes
         /\ wave' = wave /\ first' = first => Wanted' = Wanted
         /\ \A n \in Wanted : n \in first.nodes /\ wave[n] \in Waves /\ wave[n] \in Selected(first)
<1>1. first \in Commands
  BY DEF TypeOK
<1>2. \A n \in Wanted : n \in first.nodes /\ wave[n] \in Selected(first)
  BY DEF Wanted
<1>3. wave' = wave /\ first' = first => Wanted' = Wanted
  BY DEF Wanted, Selected
<1> QED
  BY <1>1, <1>2, <1>3, PlannedNodes

LEMMA InitReaching == Init => Reaching
<1> SUFFICES ASSUME Init PROVE Reaching
  OBVIOUS
<1>1. TypeOK /\ cmd = first /\ pc = "typed"
  BY InitTyped DEF Init
<1>2. ASSUME NEW n \in Wanted, wave[n] <= cmd.until PROVE n \in Planned(cmd)
  BY <1>1, <1>2, WantedNodes, PlannedNodes DEF TypeOK
<1> QED
  BY <1>1, <1>2 DEF Reaching, HintInv, ReachInv

(* A wanted node of the command that a wave leaves unfinished lies beyond  *)
(* that wave, and none does of the wave that has just been finished with.  *)
LEMMA StillAhead ==
  ASSUME Reaching, pc = "wave" \/ pc = "watch",
         NEW n \in Wanted \ ok, wave[n] <= cmd.until
  PROVE  /\ n \in Planned(cmd) /\ n \in cmd.nodes
         /\ wave[n] \in Ahead /\ wave[n] >= NextWave
         /\ n \notin Members(NextWave) => wave[n] > NextWave
<1>1. TypeOK /\ cmd \in Commands /\ n \in Planned(cmd) /\ wave[n] > at
  BY DEF Reaching, ReachInv, TypeOK
<1>2. n \in cmd.nodes /\ wave[n] \in Kept(cmd) /\ wave[n] \in Waves
  BY <1>1, PlannedNodes DEF Planned
<1>3. wave[n] \in Ahead
  BY <1>1, <1>2 DEF Ahead
<1>4. NextWave \in Ahead /\ wave[n] >= NextWave /\ NextWave \in Nat
  BY <1>1, <1>3, PlanInWaves DEF Ahead, Waves
<1>5. n \notin Members(NextWave) => wave[n] # NextWave
  BY <1>2 DEF Members
<1> QED
  BY <1>1, <1>2, <1>3, <1>4, <1>5 DEF Waves

(* Carrying on from --until: whoever is wanted beyond it is reached. *)
LEMMA CarryOnStep ==
  ASSUME Reaching, pc = "wave" \/ pc = "watch", Ahead = {}, ThenFrom(cmd) # 0,
         UNCHANGED <<wave, first, ok>>, cmd' = FromHint, pc' = "stopped", TypeOK'
  PROVE  Reaching'
<1>1. TypeOK /\ cmd \in Commands /\ Wanted' = Wanted
  BY WantedNodes DEF Reaching, TypeOK
<1>2. cmd = first
  <2>1. ThenFrom(cmd) \in Selected(cmd) /\ ThenFrom(cmd) > cmd.until
    BY <1>1, PlanInWaves
  <2>2. PICK m \in cmd.nodes : wave[m] = ThenFrom(cmd)
    BY <2>1 DEF Selected
  <2>3. wave[m] \in Nat /\ cmd.until \in Nat
    BY <1>1, PlannedNodes DEF Commands, Waves
  <2> QED
    BY <2>1, <2>2, <2>3 DEF Reaching, HintInv
<1>3. /\ cmd'.nodes = cmd.nodes /\ cmd'.until = W
      /\ ~Refused(cmd)'
      /\ \A n \in cmd.nodes :
           wave[n] \in Selected(cmd) /\ wave[n] > cmd.until => n \in Planned(cmd)'
  BY <1>1, FromHintReaches
<1>4. ASSUME NEW n \in Wanted \ ok PROVE n \in Planned(cmd)'
  <2>1. ~(wave[n] <= cmd.until)
    BY StillAhead
  <2>2. n \in cmd.nodes /\ wave[n] \in Selected(cmd) /\ wave[n] \in Waves
    BY <1>1, <1>2, WantedNodes
  <2>3. wave[n] > cmd.until
    BY <1>1, <2>1, <2>2 DEF Commands, Waves
  <2> QED
    BY <1>3, <2>2, <2>3
<1>5. \A n \in cmd'.nodes : wave'[n] <= cmd'.until
  BY <1>1, <1>3, PlannedNodes DEF Waves
<1> QED
  BY <1>1, <1>2, <1>3, <1>4, <1>5 DEF Reaching, HintInv, ReachInv

(* Carrying on with what is left: whoever is wanted up to --until is.      *)
LEMMA LeftStep ==
  ASSUME Reaching, NEW left, left # {}, left \subseteq Planned(cmd),
         \A n \in Wanted \ ok' : wave[n] <= cmd.until => n \in left,
         UNCHANGED <<wave, first>>, cmd' = LeftHint(left), pc' = "stopped", TypeOK'
  PROVE  Reaching'
<1>1. TypeOK /\ Wanted' = Wanted
  BY WantedNodes DEF Reaching
<1>2. /\ cmd'.nodes = left /\ cmd'.until = cmd.until
      /\ \A n \in left : wave[n] <= cmd.until
      /\ Planned(cmd)' = left
      /\ ~Refused(cmd)'
  BY <1>1, LeftHintReaches
<1> QED
  BY <1>1, <1>2 DEF Reaching, HintInv, ReachInv

LEMMA NextReaching == Reaching /\ [Next]_vars => Reaching'
<1> SUFFICES ASSUME Reaching, [Next]_vars PROVE Reaching'
  OBVIOUS
<1>1. TypeOK /\ TypeOK' /\ cmd \in Commands
  BY NextTyped DEF Reaching, TypeOK
<1>2. wave' = wave /\ first' = first => Wanted' = Wanted
  BY <1>1, WantedNodes
<1>3. wave' = wave /\ cmd' = cmd => Planned(cmd)' = Planned(cmd) /\ Refused(cmd)' = Refused(cmd)
  BY DEF Planned, Kept, Selected, Refused
<1>4. CASE Type
  <2>1. ASSUME NEW n \in Wanted \ ok, wave[n] <= cmd.until, pc' = "wave"
        PROVE  n \in Planned(cmd) /\ wave[n] > 0
    BY <1>1, <1>4, <2>1, WantedNodes DEF Type, Reaching, ReachInv, Waves
  <2> QED
    BY <1>1, <1>2, <1>3, <1>4, <2>1 DEF Type, Reaching, HintInv, ReachInv
<1>5. CASE WaveDone
  <2>1. /\ UNCHANGED <<wave, first, cmd>> /\ ok' = ok \cup Members(NextWave) /\ at' = NextWave
        /\ pc = "wave" /\ pc' \in {"watch", "wave"}
    BY <1>5 DEF WaveDone
  <2>2. ASSUME NEW n \in Wanted \ ok', wave[n] <= cmd.until
        PROVE  n \in Planned(cmd) /\ wave[n] > NextWave
    BY <2>1, <2>2, StillAhead
  <2> QED
    BY <1>1, <1>2, <1>3, <2>1, <2>2 DEF Reaching, HintInv, ReachInv
<1>6. CASE WaveFails
  <2>1. /\ UNCHANGED <<wave, first>> /\ pc = "wave" /\ pc' = "stopped" /\ Ahead # {}
        /\ \E good \in (SUBSET Members(NextWave)) \ {Members(NextWave)} :
             ok' = ok \cup good /\ cmd' = LeftHint(Remaining(NextWave, good))
    BY <1>6 DEF WaveFails
  <2>2. PICK good \in (SUBSET Members(NextWave)) \ {Members(NextWave)} :
             ok' = ok \cup good /\ cmd' = LeftHint(Remaining(NextWave, good))
    BY <2>1
  <2> DEFINE left == Remaining(NextWave, good)
  <2>3. left # {} /\ left \subseteq Planned(cmd)
    BY <1>1, <2>1, SomethingLeft DEF Remaining
  <2>4. \A n \in Wanted \ ok' : wave[n] <= cmd.until => n \in left
    BY <2>1, <2>2, StillAhead DEF Remaining
  <2> HIDE DEF left
  <2> QED
    BY <1>1, <2>1, <2>2, <2>3, <2>4, LeftStep DEF left
<1>7. CASE Watch
  BY <1>1, <1>2, <1>3, <1>7 DEF Watch, Reaching, HintInv, ReachInv
<1>8. CASE WatchFails
  <2>1. UNCHANGED <<wave, first, ok, at>> /\ pc = "watch"
    BY <1>8 DEF WatchFails
  <2>2. CASE Ahead # {}
    <3> DEFINE left == {n \in Planned(cmd) : wave[n] > at}
    <3>1. left # {} /\ left \subseteq Planned(cmd)
      BY <1>1, <2>2, SomethingLeft
    <3>2. \A n \in Wanted \ ok' : wave[n] <= cmd.until => n \in left
      BY <2>1 DEF Reaching, ReachInv
    <3>3. cmd' = LeftHint(left) /\ pc' = "stopped"
      BY <1>8, <2>2 DEF WatchFails
    <3> HIDE DEF left
    <3> QED
      BY <1>1, <2>1, <3>1, <3>2, <3>3, LeftStep
  <2>3. CASE Ahead = {} /\ ThenFrom(cmd) # 0
    BY <1>1, <1>8, <2>1, <2>3, CarryOnStep DEF WatchFails
  <2>4. CASE Ahead = {} /\ ThenFrom(cmd) = 0
    <3>1. UNCHANGED cmd /\ pc' = "over"
      BY <1>8, <2>4 DEF WatchFails
    <3>2. \A n \in Wanted \ ok : ~(wave[n] <= cmd.until)
      BY <2>1, <2>4, StillAhead
    <3> QED
      BY <1>1, <1>2, <2>1, <3>1, <3>2 DEF Reaching, HintInv, ReachInv
  <2> QED
    BY <2>2, <2>3, <2>4
<1>9. CASE Finish
  <2>1. UNCHANGED <<wave, first, ok, at>> /\ pc = "wave" /\ Ahead = {}
    BY <1>9 DEF Finish
  <2>2. CASE ThenFrom(cmd) # 0
    BY <1>1, <1>9, <2>1, <2>2, CarryOnStep DEF Finish
  <2>3. CASE ThenFrom(cmd) = 0
    <3>1. UNCHANGED cmd /\ pc' = "over"
      BY <1>9, <2>3 DEF Finish
    <3>2. \A n \in Wanted \ ok : ~(wave[n] <= cmd.until)
      BY <2>1, StillAhead
    <3> QED
      BY <1>1, <1>2, <2>1, <3>1, <3>2 DEF Reaching, HintInv, ReachInv
  <2> QED
    BY <2>2, <2>3
<1>10. CASE UNCHANGED vars
  BY <1>1, <1>2, <1>3, <1>10 DEF vars, Reaching, HintInv, ReachInv
<1> QED
  BY <1>4, <1>5, <1>6, <1>7, <1>8, <1>9, <1>10 DEF Next

(* Whoever types the hint of a run that stopped, at a failure, a gate, an  *)
(* interrupted soak or --until, is refused nothing and reaches every node  *)
(* the runs before it left: leftHint and carryOn name them all.            *)
THEOREM NoneForgotten == Spec => []NothingForgotten
<1>1. Reaching => NothingForgotten
  BY DEF Reaching, ReachInv, NothingForgotten
<1> QED
  BY <1>1, InitReaching, NextReaching, PTL DEF Spec

-----------------------------------------------------------------------------
(* Waves in order, across runs.                                            *)

(* No wave is begun on, by this run or one that carries on from another,   *)
(* before every node wanted of the waves before it has been finished with: *)
(* a run goes in the config's order, and the next one starts no later.     *)
THEOREM InWaveOrder == Spec => []WavesInOrder
<1>1. Init => WavesInOrder
  BY DEF Init, WavesInOrder
<1>2. Reaching /\ WavesInOrder /\ [Next]_vars => WavesInOrder'
  <2> SUFFICES ASSUME Reaching, WavesInOrder, [Next]_vars PROVE WavesInOrder'
    OBVIOUS
  <2>1. UNCHANGED <<wave, first>>
    BY DEF Next, Type, WaveDone, WaveFails, Watch, WatchFails, Finish, vars
  <2>2. TypeOK /\ Wanted' = Wanted
    BY <2>1, WantedNodes DEF Reaching
  <2>3. ASSUME UNCHANGED touched, ok \subseteq ok' PROVE WavesInOrder'
    BY <2>1, <2>2, <2>3 DEF WavesInOrder
  <2>4. ASSUME pc = "wave", Ahead # {}, NEW good, ok' = ok \cup good,
               touched' = touched \cup Members(NextWave)
        PROVE  WavesInOrder'
    <3>1. ASSUME NEW m \in Members(NextWave), NEW n \in Wanted \ ok, wave[n] < wave[m]
          PROVE  FALSE
      <4>1. cmd \in Commands /\ NextWave \in Ahead /\ wave[m] = NextWave
        BY <2>2, <2>4, PlanInWaves DEF Members, TypeOK
      <4>2. wave[n] \in Nat /\ NextWave \in Nat /\ cmd.until \in Nat /\ NextWave <= cmd.until
        BY <2>2, <4>1, PlanInWaves, WantedNodes DEF Ahead, Kept, Waves, Commands
      <4>3. wave[n] <= cmd.until /\ ~(wave[n] >= NextWave)
        BY <3>1, <4>1, <4>2
      <4> QED
        BY <2>4, <4>3, StillAhead
    <3> QED
      BY <2>1, <2>2, <2>4, <3>1 DEF WavesInOrder
  <2>5. CASE WaveDone
    BY <2>4, <2>5 DEF WaveDone
  <2>6. CASE WaveFails
    BY <2>4, <2>6 DEF WaveFails
  <2>7. CASE Type \/ Watch \/ WatchFails \/ Finish \/ UNCHANGED vars
    BY <2>3, <2>7 DEF Type, Watch, WatchFails, Finish, vars
  <2> QED
    BY <2>5, <2>6, <2>7 DEF Next
<1> QED
  BY <1>1, <1>2, InitReaching, NextReaching, PTL DEF Spec

-----------------------------------------------------------------------------
(* The canary.                                                             *)

(* As long as no node failed, what has gone unwatched is about to be       *)
(* watched, or nothing comes after it, in this run or by its hint.         *)
WatchInv ==
  ~failed /\ unwatched # {} =>
    \/ pc \in {"watch", "over"}
    \/ pc = "wave" /\ Ahead = {} /\ ThenFrom(cmd) = 0

(* The canary is watched before any wave that follows it, in the run that  *)
(* changed it or in the one that carries on: a run skips the watch after   *)
(* its last wave only if nothing beyond --until is left.                   *)
THEOREM CanaryFirst == Spec => []CanaryWatched
<1>1. Init => WatchInv
  BY DEF Init, WatchInv
<1>2. TypeOK /\ WatchInv /\ [Next]_vars => WatchInv'
  <2> SUFFICES ASSUME TypeOK, WatchInv, [Next]_vars PROVE WatchInv'
    OBVIOUS
  <2>1. CASE WaveDone
    <3>0. PICK new \in SUBSET Members(NextWave) :
            /\ unwatched' = unwatched \cup new
            /\ pc' = IF new # {} /\ (More(cmd) \/ Ahead # {NextWave}) THEN "watch" ELSE "wave"
      BY <2>1 DEF WaveDone
    <3>1. /\ UNCHANGED <<wave, cmd, failed>> /\ pc = "wave" /\ Ahead # {}
          /\ at' = NextWave
      BY <2>1 DEF WaveDone
    <3>2. ASSUME ~failed, unwatched' # {}, pc' # "watch"
          PROVE  Ahead' = {} /\ ThenFrom(cmd)' = 0
      <4>1. new # {}
        BY <3>0, <3>1, <3>2 DEF WatchInv
      <4>2. ~More(cmd) /\ Ahead = {NextWave}
        BY <3>0, <3>1, <3>2, <4>1
      <4>3. cmd \in Commands /\ Ahead \subseteq Waves /\ at \in Nat
        BY PlanInWaves DEF TypeOK, Ahead
      <4>4. Ahead' = {v \in Kept(cmd) : v > NextWave}
        BY <3>1 DEF Ahead, Kept, Selected
      <4>5. \A v \in Kept(cmd) : v > NextWave => v \in Ahead
        BY <4>2, <4>3, PlanInWaves DEF Ahead, Waves
      <4>6. Ahead' = {}
        BY <4>2, <4>3, <4>4, <4>5 DEF Waves
      <4>7. ThenFrom(cmd)' = ThenFrom(cmd)
        BY <3>1 DEF ThenFrom, Selected
      <4> QED
        BY <4>2, <4>6, <4>7 DEF More
    <3> QED
      BY <3>0, <3>1, <3>2 DEF WatchInv
  <2>2. CASE Type
    BY <2>2 DEF Type, WatchInv
  <2>3. CASE WaveFails
    BY <2>3 DEF WaveFails, WatchInv
  <2>4. CASE Watch \/ WatchFails
    BY <2>4 DEF Watch, WatchFails, WatchInv
  <2>5. CASE Finish
    BY <2>5 DEF Finish, WatchInv
  <2>6. CASE UNCHANGED vars
    BY <2>6 DEF vars, WatchInv, Ahead, Kept, ThenFrom, Selected
  <2> QED
    BY <2>1, <2>2, <2>3, <2>4, <2>5, <2>6 DEF Next
<1>3. WatchInv => CanaryWatched
  BY DEF WatchInv, CanaryWatched
<1> QED
  BY <1>1, <1>2, <1>3, InitTyped, NextTyped, PTL DEF Spec
=============================================================================
