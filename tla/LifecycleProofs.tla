-------------------------- MODULE LifecycleProofs --------------------------
(***************************************************************************)
(* For any nodes, commands and bounds: Lifecycle keeps its types, splits   *)
(* no cluster, hands no config to a node it was not asked to onboard,      *)
(* keeps the gate up, and carries a teardown through.                      *)
(***************************************************************************)
EXTENDS Lifecycle, FiniteSetTheorems, TLAPS

-----------------------------------------------------------------------------
(* Type correctness.                                                       *)

(* What is known of a command by how far it has come. *)
Walk ==
  /\ pc = "idle" => cmd = NoCommand /\ probe = NotProbed /\ modes = NotAsked
  /\ pc \in ApplyPcs => cmd.kind = "apply"
  /\ pc \in ResetPcs => cmd.kind = "reset"
  /\ pc \in ApplyPcs /\ Boot /\ (pc = "probe" => probe # NotProbed) => cmd.on = Nodes
  /\ pc = "gate" => todo # {}
  /\ todo \subseteq cmd.on

-----------------------------------------------------------------------------
(* The machines.                                                           *)

LEMMA ModeType == ASSUME NEW n PROVE ModeOf(n) \in Modes
  BY DEF ModeOf, Modes

LEMMA ConfiguredTypes ==
  ASSUME MachinesTypeOK, NEW n \in Nodes, Configured(n), faults' \in 0 .. MaxFaults
  PROVE  MachinesTypeOK'
<1>1. up' \subseteq Nodes
  BY DEF MachinesTypeOK, Configured
<1>2. /\ set' \subseteq Nodes
      /\ booting' \subseteq set'
      /\ joined' \subseteq set' \ booting'
      /\ drift' \subseteq Nodes
  BY DEF MachinesTypeOK, Configured
<1>3. serving' \subseteq CPs \cap up' \cap joined'
  BY DEF MachinesTypeOK, Configured
<1> QED
  BY <1>1, <1>2, <1>3 DEF MachinesTypeOK, Configured

LEMMA BootstrappedTypes ==
  ASSUME MachinesTypeOK, NEW c \in CPs, Bootstrapped(c), faults' \in 0 .. MaxFaults
  PROVE  MachinesTypeOK'
<1>1. born + 1 \in 1 .. MaxEtcds
  BY ConfigAssumption DEF MachinesTypeOK, Bootstrapped
<1>2. PICK k \in 1 .. MaxEtcds : k = born + 1
  BY <1>1
<1>3. /\ born' = k
      /\ etcd' = [etcd EXCEPT ![c] = k]
      /\ member' = [member EXCEPT ![k] = {c}]
  BY <1>2 DEF Bootstrapped
<1>4. k \in 0 .. MaxEtcds
  BY ConfigAssumption
<1> QED
  BY <1>3, <1>4 DEF MachinesTypeOK, Bootstrapped

LEMMA WipedTypes ==
  ASSUME MachinesTypeOK, NEW n \in Nodes, NEW b \in BOOLEAN, Wiped(n, b), faults' \in 0 .. MaxFaults
  PROVE  MachinesTypeOK'
<1>1. 0 \in 0 .. MaxEtcds
  BY ConfigAssumption
<1>2. etcd' \in [CPs -> 0 .. MaxEtcds]
  BY <1>1 DEF MachinesTypeOK, Wiped
<1>3. member' \in [1 .. MaxEtcds -> SUBSET CPs]
  BY DEF MachinesTypeOK, Wiped
<1> QED
  BY <1>2, <1>3 DEF MachinesTypeOK, Wiped

(* What the machines do by themselves. *)
LEMMA MachineStepTypes ==
  ASSUME MachinesTypeOK, MachineStep
  PROVE  MachinesTypeOK'
<1>1. ASSUME NEW n \in Nodes, GoesDown(n) PROVE MachinesTypeOK'
  <2>1. faults + 1 \in 0 .. MaxFaults
    BY <1>1, ConfigAssumption DEF MachinesTypeOK, GoesDown, Fault
  <2>2. faults' \in 0 .. MaxFaults
    BY <1>1, <2>1 DEF GoesDown, Fault
  <2> QED
    BY <1>1, <2>2 DEF MachinesTypeOK, GoesDown
<1>2. ASSUME NEW n \in Nodes, Recovers(n) PROVE MachinesTypeOK'
  BY <1>2 DEF MachinesTypeOK, Recovers, ComesUp, BootsConfig, Joins
<1>3. ASSUME NEW c \in CPs, StartsEtcd(c) PROVE MachinesTypeOK'
  BY <1>3 DEF MachinesTypeOK, StartsEtcd
<1>4. ASSUME NEW c \in CPs, NEW k \in 1 .. MaxEtcds, JoinsEtcd(c, k) PROVE MachinesTypeOK'
  <2>1. k \in 0 .. MaxEtcds
    BY ConfigAssumption
  <2> QED
    BY <1>4, <2>1 DEF MachinesTypeOK, JoinsEtcd
<1> QED
  BY <1>1, <1>2, <1>3, <1>4 DEF MachineStep, RunsEtcd

LEMMA FaultTypes ==
  ASSUME MachinesTypeOK, Fault \/ UNCHANGED faults
  PROVE  faults' \in 0 .. MaxFaults
<1>1. CASE Fault
  <2>1. faults + 1 \in 0 .. MaxFaults
    BY <1>1, ConfigAssumption DEF MachinesTypeOK, Fault
  <2> QED
    BY <1>1, <2>1 DEF Fault
<1>2. CASE UNCHANGED faults
  BY <1>2 DEF MachinesTypeOK
<1> QED
  BY <1>1, <1>2

LEMMA MachinesStay == ASSUME MachinesTypeOK, UNCHANGED machines PROVE MachinesTypeOK'
  BY DEF MachinesTypeOK, machines

-----------------------------------------------------------------------------
(* The command.                                                            *)

LEMMA NodesThere == Nodes # {} /\ Nodes \in SUBSET Nodes /\ CPs \subseteq Nodes
  BY ConfigAssumption DEF CPs

(* What a command may end with. *)
Hintable(h) == h \in Command \cup {NoCommand} /\ (h # NoCommand => h.on # {})

LEMMA NothingHinted == Hintable(NoCommand)
  BY DEF Hintable

LEMMA EndsTypes ==
  ASSUME RunTypeOK, NEW h, Hintable(h), Ends(h)
  PROVE  RunTypeOK' /\ Walk'
<1>1. RunTypeOK'
  BY DEF RunTypeOK, Ends, Hintable, NotProbed, NotAsked, NoTurn
<1>2. pc' = "idle" /\ cmd' = NoCommand /\ probe' = NotProbed /\ modes' = NotAsked /\ todo' = {}
  BY DEF Ends
<1> QED
  BY <1>1, <1>2 DEF Walk, ApplyPcs, ResetPcs

LEMMA Running ==
  ASSUME RunTypeOK, Walk, pc # "idle"
  PROVE  cmd \in Command
  BY DEF RunTypeOK, Walk, NoCommand, ApplyPcs, ResetPcs

LEMMA Applying ==
  ASSUME RunTypeOK, Walk, pc \in ApplyPcs
  PROVE  cmd \in Command /\ cmd.kind = "apply" /\ pc # "idle"
  BY Running DEF ApplyPcs, Walk

(* Stopped at a node, it says to go on with that node at the least. *)
LEMMA HintTypes ==
  ASSUME RunTypeOK, Walk, pc \in ApplyPcs \ {"probe"}, todo # {}
  PROVE  Hintable(Hint)
<1>1. cmd \in Command
  BY Applying
<1>2. Left \subseteq Nodes /\ Left # {}
  BY DEF Left, RunTypeOK
<1>3. CASE ~Boot
  <2>1. Hint = [cmd EXCEPT !.on = Left]
    BY <1>3 DEF Hint
  <2> QED
    BY <1>1, <1>2, <2>1 DEF Hintable, Command
<1>4. CASE Boot /\ ~built
  <2>1. Hint = [cmd EXCEPT !.flags = cmd.flags \ {"yes"}]
    BY <1>1, <1>4 DEF Hint, Command
  <2>2. cmd.on # {}
    BY <1>4, NodesThere DEF Walk
  <2> QED
    BY <1>1, <2>1, <2>2 DEF Hintable, Command
<1>5. CASE Boot /\ built
  <2>1. Hint = [cmd EXCEPT !.on = Left,
                  !.flags = (cmd.flags \ {"bootstrap", "yes"}) \cup {"onboard-new-nodes"}]
    BY <1>1, <1>5 DEF Hint, Command
  <2>2. (cmd.flags \ {"bootstrap", "yes"}) \cup {"onboard-new-nodes"} \subseteq Flags
    BY <1>1 DEF Command, Flags
  <2> QED
    BY <1>1, <1>2, <2>1, <2>2 DEF Hintable, Command
<1> QED
  BY <1>3, <1>4, <1>5

(* The ways a step goes on with the same command. *)
LEMMA WalkOn ==
  ASSUME Walk, pc \in ApplyPcs, pc' \in ApplyPcs, UNCHANGED cmd,
         pc # "probe" \/ (Boot => cmd.on = Nodes), pc' = "gate" => todo' # {},
         todo' \subseteq todo \/ todo' \subseteq cmd.on
  PROVE  Walk'
<1>1. pc' # "idle" /\ pc' \notin ResetPcs
  BY DEF ApplyPcs, ResetPcs
<1> QED
  BY <1>1 DEF Walk, Boot, Has

LEMMA GoesTypes ==
  ASSUME RunTypeOK, NEW q \in ApplyPcs, NEW mds \in [Nodes -> {"unasked"} \cup Modes], Goes(q, mds)
  PROVE  RunTypeOK'
  BY DEF RunTypeOK, Goes

LEMMA TakesTypes ==
  ASSUME RunTypeOK, NEW t \in [insecure : BOOLEAN, new : BOOLEAN, same : BOOLEAN],
         NEW mds \in [Nodes -> {"unasked"} \cup Modes], Takes(t, mds)
  PROVE  RunTypeOK' /\ pc' = "first"
  BY DEF RunTypeOK, Takes, ApplyPcs

LEMMA AdvancesTypes ==
  ASSUME RunTypeOK, NEW n \in todo, NEW q \in ApplyPcs, NEW b \in BOOLEAN,
         NEW mds \in [Nodes -> {"unasked"} \cup Modes], Advances(n, q, mds, b)
  PROVE  RunTypeOK' /\ todo' # {} /\ pc' = q
  BY DEF RunTypeOK, Advances, NoTurn

LEMMA RememberTypes ==
  ASSUME RunTypeOK, NEW n \in Nodes, NEW m \in {"unasked"} \cup Modes
  PROVE  Remember(n, m) \in [Nodes -> {"unasked"} \cup Modes]
  BY DEF RunTypeOK, Remember

LEMMA NodeDoneTypes ==
  ASSUME RunTypeOK, Walk, pc \in ApplyPcs \ {"probe"}, NEW n \in todo, NEW b,
         NEW mds \in [Nodes -> {"unasked"} \cup Modes], NodeDone(n, b, mds)
  PROVE  RunTypeOK' /\ Walk'
<1> DEFINE q == IF Has("health") /\ b /\ ~Inert THEN "gate" ELSE "turn"
<1>1. CASE Advances(n, q, mds, built)
  <2>1. q \in ApplyPcs /\ built \in BOOLEAN
    BY DEF ApplyPcs, RunTypeOK
  <2>2. RunTypeOK' /\ todo' # {} /\ pc' = q
    BY <1>1, <2>1, AdvancesTypes
  <2>3. UNCHANGED cmd /\ todo' \subseteq todo
    BY <1>1 DEF Advances
  <2> QED
    BY <2>1, <2>2, <2>3, WalkOn
<1>2. CASE Finishes(n)
  BY <1>2, EndsTypes, NothingHinted DEF Finishes
<1> QED
  BY <1>1, <1>2 DEF NodeDone

-----------------------------------------------------------------------------
(* Type correctness.                                                       *)

(* A step of a command that is about no node yet. *)
LEMMA BeforeNodes ==
  ASSUME RunTypeOK, Walk,
         \/ RefuseFlags \/ Check \/ Confirm \/ RefuseNewNodes \/ StartBootstrap \/ OnboardOnly \/ StartAll
         \/ \E c \in CPs : Probe(c)
  PROVE  RunTypeOK' /\ Walk'
<1> USE NodesThere
<1>0. cmd \in Command /\ pc \in ApplyPcs
  BY Running DEF RefuseFlags, Check, Confirm, RefuseNewNodes, StartBootstrap, OnboardOnly, StartAll, Probe, ApplyPcs
<1>1. CASE RefuseFlags
  BY <1>1, EndsTypes, NothingHinted DEF RefuseFlags, Stops
<1>2. CASE Check
  <2> DEFINE h == [kind |-> "apply", on |-> Nodes, flags |-> {"bootstrap"}]
  <2>1. Hintable(h)
    BY DEF Hintable, Command, Flags
  <2>2. "unasked" \notin Range(probe) /\ probe \in [CPs -> {"unasked", "unknown", "stopped"} \cup Modes]
    BY <1>2 DEF Check, Answers, RunTypeOK
  <2>3. probe # NotProbed
    BY <2>2, ConfigAssumption DEF Range, NotProbed
  <2>4. ASSUME GoesTo("screen") \/ GoesTo("confirm"), UNCHANGED machines
        PROVE  RunTypeOK' /\ Walk'
    <3>1. RunTypeOK' /\ pc' \in ApplyPcs /\ pc' # "gate" /\ UNCHANGED <<cmd, todo>>
      BY <2>4 DEF GoesTo, RunTypeOK, ApplyPcs
    <3> QED
      BY <1>0, <2>3, <3>1, WalkOn DEF Walk
  <2>5. CASE Stops(NoCommand) \/ Stops(h)
    BY <2>1, <2>5, EndsTypes, NothingHinted DEF Stops
  <2> QED
    BY <1>2, <2>4, <2>5 DEF Check
<1>3. CASE Confirm
  <2>1. CASE Stops(NoCommand)
    BY <2>1, EndsTypes, NothingHinted DEF Stops
  <2>2. CASE asked' = TRUE /\ pc' = "screen" /\ UNCHANGED <<cmd, probe, modes, todo, turn, built, hint, doomed, typed>>
    <3>1. RunTypeOK' /\ pc' \in ApplyPcs /\ pc' # "gate" /\ pc # "probe"
      BY <1>3, <2>2 DEF RunTypeOK, ApplyPcs, Confirm
    <3> QED
      BY <1>0, <2>2, <3>1, WalkOn
  <2> QED
    BY <1>3, <2>1, <2>2 DEF Confirm
<1>4. CASE RefuseNewNodes
  <2> DEFINE h == [kind |-> "apply", on |-> NewNodes, flags |-> {"onboard-new-nodes"}]
  <2>1. Hintable(h)
    BY <1>0, <1>4 DEF RefuseNewNodes, RefusesNew, NewNodes, Hintable, Command, Flags
  <2> QED
    BY <1>4, <2>1, EndsTypes DEF RefuseNewNodes, Stops
<1>5. ASSUME NEW S, S \subseteq cmd.on, Starts(S), pc = "screen"
      PROVE  RunTypeOK' /\ Walk'
  <2>1. RunTypeOK' /\ pc' \in ApplyPcs /\ pc' # "gate" /\ UNCHANGED cmd /\ todo' = S
    BY <1>0, <1>5 DEF Starts, RunTypeOK, ApplyPcs, Command
  <2> QED
    BY <1>0, <1>5, <2>1, WalkOn
<1>6. CASE Stops(NoCommand)
  BY <1>6, EndsTypes, NothingHinted DEF Stops
<1>7. pc = "screen" /\ Boot => cmd.on = Nodes
  BY <1>0 DEF Walk
<1>8. CASE StartBootstrap \/ OnboardOnly \/ StartAll
  BY <1>5, <1>6, <1>7, <1>8 DEF StartBootstrap, OnboardOnly, StartAll, StartsOn
<1>9. ASSUME NEW c \in CPs, Probe(c)
      PROVE  RunTypeOK' /\ Walk'
  <2>1. PICK a \in {"unasked", "unknown", "stopped"} \cup Modes : probe' = [probe EXCEPT ![c] = a]
    BY <1>9, ModeType DEF Probe, EtcdOf, Modes
  <2>2. pc' = "probe" /\ UNCHANGED <<cmd, todo>> /\ (Boot => cmd.on = Nodes)
    BY <1>9 DEF Probe, BootstrapFlagsAllowed
  <2>3. RunTypeOK'
    BY <1>9, <2>1 DEF Probe, RunTypeOK
  <2> QED
    BY <1>0, <2>2, <2>3, WalkOn DEF ApplyPcs
<1> QED
  BY <1>1, <1>2, <1>3, <1>4, <1>8, <1>9

(* A step at the node whose turn it is. *)
LEMMA AtNode ==
  ASSUME RunTypeOK, Walk, MachinesTypeOK, Gate \/ \E n \in todo : OneNode(n)
  PROVE  RunTypeOK' /\ Walk'
<1>0. pc \in ApplyPcs \ {"probe"}
  BY DEF Gate, OneNode, Turn, Await, First, Show, Send, Wait, Bootstrap, WaitForEtcd, ApplyPcs
<1>1. cmd \in Command /\ todo \subseteq Nodes /\ modes \in [Nodes -> {"unasked"} \cup Modes]
  BY <1>0, Applying DEF RunTypeOK
<1>2. ASSUME todo # {}, Ends(Hint)
      PROVE  RunTypeOK' /\ Walk'
  BY <1>0, <1>2, HintTypes, EndsTypes
<1>3. ASSUME NEW q \in ApplyPcs \ {"gate"}, NEW mds \in [Nodes -> {"unasked"} \cup Modes], Goes(q, mds)
      PROVE  RunTypeOK' /\ Walk'
  <2>1. RunTypeOK' /\ pc' = q /\ UNCHANGED <<cmd, todo>>
    BY <1>3, GoesTypes DEF Goes
  <2> QED
    BY <1>0, <2>1, WalkOn
<1>4. ASSUME NEW t \in [insecure : BOOLEAN, new : BOOLEAN, same : BOOLEAN],
             NEW mds \in [Nodes -> {"unasked"} \cup Modes], Takes(t, mds)
      PROVE  RunTypeOK' /\ Walk'
  <2>1. RunTypeOK' /\ pc' = "first" /\ UNCHANGED <<cmd, todo>>
    BY <1>4, TakesTypes DEF Takes
  <2> QED
    BY <1>0, <2>1, WalkOn DEF ApplyPcs
<1>5. CASE Gate
  <2>1. todo # {}
    BY <1>5 DEF Gate, Walk
  <2> DEFINE known == [n \in Nodes |-> IF modes[n] = "unasked" THEN ModeOf(n) ELSE modes[n]]
  <2>2. known \in [Nodes -> {"unasked"} \cup Modes]
    BY <1>1, ModeType
  <2>3. Goes("turn", known) \/ Ends(Hint)
    BY <1>5 DEF Gate
  <2> QED
    BY <1>2, <1>3, <2>1, <2>2, <2>3 DEF ApplyPcs
<1>6. ASSUME NEW n \in todo, OneNode(n)
      PROVE  RunTypeOK' /\ Walk'
  <2>0. n \in Nodes /\ todo # {}
    BY <1>1
  <2>1. \A m \in {"unasked"} \cup Modes : Remember(n, m) \in [Nodes -> {"unasked"} \cup Modes]
    BY <2>0, RememberTypes
  <2>2. CASE Turn(n)
    <3>1. ModeOf(n) \in {"unasked"} \cup Modes
      BY ModeType
    <3>2. \A b \in BOOLEAN : [insecure |-> b, new |-> b, same |-> FALSE] \in [insecure : BOOLEAN, new : BOOLEAN, same : BOOLEAN]
      OBVIOUS
    <3>3. NoTurn \in [insecure : BOOLEAN, new : BOOLEAN, same : BOOLEAN]
      BY DEF NoTurn
    <3>4. Has("insecure") \in BOOLEAN
      BY DEF Has
    <3>5. \/ Takes([insecure |-> Has("insecure"), new |-> Has("insecure"), same |-> FALSE], modes)
          \/ Takes([insecure |-> TRUE, new |-> TRUE, same |-> FALSE], Remember(n, ModeOf(n)))
          \/ Takes(NoTurn, Remember(n, ModeOf(n)))
          \/ NodeDone(n, TRUE, Remember(n, ModeOf(n)))
          \/ Ends(Hint)
          \/ Goes("await", Remember(n, ModeOf(n)))
      BY <2>2 DEF Turn
    <3>6. (RunTypeOK' /\ Walk') \/ NodeDone(n, TRUE, Remember(n, ModeOf(n)))
      BY <1>1, <1>2, <1>3, <1>4, <2>0, <2>1, <3>1, <3>2, <3>3, <3>4, <3>5 DEF ApplyPcs
    <3> QED
      BY <1>0, <2>1, <3>1, <3>6, NodeDoneTypes
  <2>3. CASE Await(n)
    <3>1. NoTurn \in [insecure : BOOLEAN, new : BOOLEAN, same : BOOLEAN]
      BY DEF NoTurn
    <3> QED
      BY <1>2, <1>4, <2>0, <2>1, <2>3, <3>1 DEF Await, Modes
  <2>4. CASE First(n)
    <3>1. CASE Ends(Hint)
      BY <1>2, <2>0, <3>1
    <3>2. CASE ~Ends(Hint)
      <4>1. PICK b \in BOOLEAN : turn' = [turn EXCEPT !.same = b]
        BY <2>4, <3>2 DEF First
      <4>2. turn' \in [insecure : BOOLEAN, new : BOOLEAN, same : BOOLEAN]
        BY <4>1 DEF RunTypeOK
      <4>3. pc' = "send" /\ UNCHANGED <<cmd, probe, modes, todo, built, asked, hint, doomed, typed>>
        BY <2>4, <3>2 DEF First
      <4>4. RunTypeOK' /\ pc' \in ApplyPcs
        BY <4>2, <4>3 DEF RunTypeOK, ApplyPcs
      <4> QED
        BY <1>0, <4>3, <4>4, WalkOn
    <3> QED
      BY <3>1, <3>2
  <2>5. CASE Show(n)
    BY <1>0, <1>1, <1>2, <2>0, <2>5, NodeDoneTypes DEF Show
  <2>6. ASSUME NEW q \in ApplyPcs \ {"gate"}, GoesTo(q)
        PROVE  RunTypeOK' /\ Walk'
    BY <1>1, <1>3, <2>6 DEF GoesTo, Goes
  <2>7. CASE Send(n)
    BY <1>2, <2>0, <2>6, <2>7 DEF Send, Fails, Stops, ApplyPcs
  <2>8. CASE Wait(n)
    <3>1. \/ Goes("bootstrap", modes) \/ Goes("bootstrap", Seen(n))
          \/ Ends(Hint)
          \/ \E b \in BOOLEAN : \E mds \in {modes, Seen(n), Remember(n, "unasked")} : NodeDone(n, b, mds)
      <4>1. turn.same \in BOOLEAN
        BY DEF RunTypeOK
      <4> QED
        BY <2>8, <4>1 DEF Wait
    <3>2. \A mds \in {modes, Seen(n), Remember(n, "unasked")} : mds \in [Nodes -> {"unasked"} \cup Modes]
      BY <1>1, <2>1 DEF Seen, Modes
    <3>3. CASE \E b \in BOOLEAN : \E mds \in {modes, Seen(n), Remember(n, "unasked")} : NodeDone(n, b, mds)
      BY <1>0, <3>2, <3>3, NodeDoneTypes
    <3> QED
      BY <1>2, <1>3, <2>0, <3>1, <3>2, <3>3 DEF ApplyPcs
  <2>9. CASE n \in CPs /\ Bootstrap(n)
    BY <1>2, <2>0, <2>6, <2>9 DEF Bootstrap, Fails, Stops, ApplyPcs
  <2>10. CASE n \in CPs /\ WaitForEtcd(n)
    <3>1. CASE Advances(n, "turn", modes, TRUE)
      <4>1. RunTypeOK' /\ pc' = "turn" /\ UNCHANGED cmd /\ todo' \subseteq todo
        BY <1>1, <3>1, AdvancesTypes DEF ApplyPcs, Advances
      <4> QED
        BY <1>0, <4>1, WalkOn DEF ApplyPcs
    <3>2. CASE Finishes(n)
      BY <3>2, EndsTypes, NothingHinted DEF Finishes
    <3> DEFINE h == [cmd EXCEPT !.flags = (cmd.flags \ {"bootstrap", "yes"}) \cup {"onboard-new-nodes"}]
    <3>3. CASE Ends(h)
      <4>1. Hintable(h)
        <5>1. (cmd.flags \ {"bootstrap", "yes"}) \cup {"onboard-new-nodes"} \subseteq Flags
          BY <1>1 DEF Command, Flags
        <5>2. cmd.on # {}
          BY <1>6 DEF Walk
        <5> QED
          BY <1>1, <5>1, <5>2 DEF Hintable, Command
      <4> QED
        BY <3>3, <4>1, EndsTypes
    <3> QED
      BY <1>1, <2>10, <3>1, <3>2, <3>3 DEF WaitForEtcd, Command
  <2> QED
    BY <1>6, <2>2, <2>3, <2>4, <2>5, <2>7, <2>8, <2>9, <2>10 DEF OneNode
<1> QED
  BY <1>5, <1>6

(* The operator types a command, or kills the one that runs. *)
LEMMA AtTerminal ==
  ASSUME RunTypeOK, Walk, Terminal
  PROVE  RunTypeOK' /\ Walk'
<1>1. CASE Killed
  BY <1>1, EndsTypes, NothingHinted DEF Killed
<1>2. ASSUME NEW c \in Commands \cup {hint}, Type(c)
      PROVE  RunTypeOK' /\ Walk'
  <2>1. c \in Command
    BY <1>2, CommandsAssumption DEF Type, RunTypeOK
  <2>2. c.kind \in {"apply", "reset"} /\ c.on \subseteq Nodes
    BY <2>1 DEF Command
  <2>3. /\ pc = "idle" /\ cmd' = c /\ hint' = NoCommand
        /\ pc' = IF c.kind = "apply" THEN "probe" ELSE "order"
        /\ doomed' = (IF c = hint THEN doomed ELSE {}) \cup (IF c.kind = "reset" THEN c.on \cap CPs ELSE {})
        /\ UNCHANGED <<machines, probe, modes, todo, turn, built, asked>>
    BY <1>2 DEF Type
  <2>4. typed' \in 0 .. MaxCommands
    <3>1. typed + 1 \in 0 .. MaxCommands
      BY <1>2, CommandsAssumption DEF Type, RunTypeOK
    <3> QED
      BY <1>2, <3>1 DEF Type
  <2>5. doomed' \subseteq CPs
    BY <2>3 DEF RunTypeOK
  <2>6. RunTypeOK'
    BY <2>1, <2>3, <2>4, <2>5 DEF RunTypeOK, ApplyPcs, ResetPcs
  <2>7. todo = {} /\ probe = NotProbed
    BY <2>3 DEF Walk, NoCommand
  <2> QED
    BY <2>2, <2>3, <2>6, <2>7 DEF Walk, ApplyPcs, ResetPcs
<1> QED
  BY <1>1, <1>2 DEF Terminal

(* A step of a reset. *)
LEMMA InReset ==
  ASSUME RunTypeOK, Walk, ResetStep
  PROVE  RunTypeOK' /\ Walk'
<1>0. cmd \in Command /\ cmd.kind = "reset" /\ pc \in ResetPcs
  BY Running DEF ResetStep, Order, Agree, WipeOne, WipeFails, Walk, ResetPcs
<1>1. ASSUME pc' \in ResetPcs, UNCHANGED cmd, todo' \subseteq cmd.on
      PROVE  Walk'
  <2>1. pc' # "idle" /\ pc' \notin ApplyPcs
    BY <1>1 DEF ResetPcs, ApplyPcs
  <2> QED
    BY <1>0, <1>1, <2>1 DEF Walk, ApplyPcs, ResetPcs
<1>2. CASE Order
  <2>1. pc' \in ResetPcs /\ UNCHANGED cmd /\ todo' = cmd.on
    BY <1>2 DEF Order, ResetPcs
  <2>2. RunTypeOK'
    BY <1>0, <1>2, <2>1 DEF Order, RunTypeOK, Command
  <2> QED
    BY <1>1, <2>1, <2>2
<1>3. CASE Agree
  <2>1. CASE GoesTo("reset")
    <3>1. pc' \in ResetPcs /\ UNCHANGED cmd /\ todo' \subseteq cmd.on
      BY <2>1 DEF GoesTo, ResetPcs, Walk
    <3>2. RunTypeOK'
      BY <2>1, <3>1 DEF GoesTo, RunTypeOK
    <3> QED
      BY <1>1, <3>1, <3>2
  <2>2. CASE Ends(NoCommand)
    BY <2>2, EndsTypes, NothingHinted
  <2> QED
    BY <1>3, <2>1, <2>2 DEF Agree
<1>4. ASSUME NEW n \in todo, WipeOne(n) \/ WipeFails(n)
      PROVE  RunTypeOK' /\ Walk'
  <2>1. Hintable(ResetHint)
    <3>1. HintFlags(todo) \subseteq Flags
      BY <1>0 DEF HintFlags, Command, Flags
    <3> QED
      BY <1>0, <3>1 DEF ResetHint, Hintable, Command, RunTypeOK
  <2>2. CASE todo' = todo \ {n} /\ UNCHANGED <<faults, cmd, pc, probe, modes, turn, built, asked, hint, doomed, typed>>
    <3>1. RunTypeOK'
      BY <2>2 DEF RunTypeOK
    <3>2. pc' \in ResetPcs /\ UNCHANGED cmd /\ todo' \subseteq cmd.on
      BY <1>0, <2>2 DEF Walk
    <3> QED
      BY <1>1, <3>1, <3>2
  <2>3. CASE Ends(NoCommand) \/ Ends(ResetHint)
    BY <2>1, <2>3, EndsTypes, NothingHinted
  <2> QED
    BY <1>4, <2>2, <2>3 DEF WipeOne, WipeFails
<1> QED
  BY <1>2, <1>3, <1>4 DEF ResetStep

(* What a command does to the machines. *)
LEMMA MachinesKeep ==
  ASSUME MachinesTypeOK, RunTypeOK, Next
  PROVE  MachinesTypeOK'
<1>0. todo \subseteq Nodes
  BY DEF RunTypeOK
<1>1. CASE UNCHANGED machines
  BY <1>1, MachinesStay
<1>2. CASE MachineStep
  BY <1>2, MachineStepTypes
<1>3. ASSUME NEW c \in CPs, Probe(c)
      PROVE  MachinesTypeOK'
  <2>1. Fault \/ UNCHANGED faults
    BY <1>3 DEF Probe, machines
  <2>2. faults' \in 0 .. MaxFaults
    BY <2>1, FaultTypes
  <2>3. UNCHANGED <<up, set, booting, joined, drift, etcd, serving, member, born>>
    BY <1>3 DEF Probe, machines
  <2> QED
    BY <2>2, <2>3 DEF MachinesTypeOK
<1>4. ASSUME NEW n \in todo, Send(n)
      PROVE  MachinesTypeOK'
  <2>1. UNCHANGED machines \/ (Configured(n) /\ (Fault \/ UNCHANGED faults))
    BY <1>4 DEF Send, Fails, Stops
  <2> QED
    BY <1>0, <1>1, <2>1, ConfiguredTypes, FaultTypes
<1>5. ASSUME NEW c \in CPs, Bootstrap(c)
      PROVE  MachinesTypeOK'
  <2>1. \/ UNCHANGED machines
        \/ Bootstrapped(c) /\ (Fault \/ UNCHANGED faults)
        \/ NotBootstrapped(c) /\ UNCHANGED faults
    BY <1>5 DEF Bootstrap, Fails, Stops
  <2>2. CASE NotBootstrapped(c) /\ UNCHANGED faults
    BY <2>2 DEF MachinesTypeOK, NotBootstrapped
  <2> QED
    BY <1>1, <2>1, <2>2, BootstrappedTypes, FaultTypes
<1>6. ASSUME NEW n \in todo, WipeOne(n)
      PROVE  MachinesTypeOK'
  <2>1. Wiped(n, NodeGraceful(n)) /\ (Fault \/ UNCHANGED faults)
    BY <1>6 DEF WipeOne
  <2>2. NodeGraceful(n) \in BOOLEAN
    BY DEF NodeGraceful, Graceful, Has
  <2> QED
    BY <1>0, <2>1, <2>2, WipedTypes, FaultTypes
<1>7. CASE Terminal
  BY <1>1, <1>7 DEF Terminal, Killed, Type
<1>8. CASE ApplyStep
  <2>1. CASE RefuseFlags \/ Check \/ Confirm \/ Gate \/ RefuseNewNodes \/ StartBootstrap \/ OnboardOnly \/ StartAll
    BY <1>1, <2>1 DEF RefuseFlags, Check, Confirm, Gate, RefuseNewNodes, StartBootstrap, OnboardOnly, StartAll, StartsOn, Starts, Stops
  <2>2. ASSUME NEW n \in todo, OneNode(n)
        PROVE  MachinesTypeOK'
    BY <1>1, <1>4, <1>5, <2>2 DEF OneNode, Turn, Await, First, Show, Wait, WaitForEtcd
  <2> QED
    BY <1>3, <1>8, <2>1, <2>2 DEF ApplyStep
<1>9. CASE ResetStep
  BY <1>1, <1>6, <1>9 DEF ResetStep, Order, Agree, WipeFails
<1> QED
  BY <1>2, <1>7, <1>8, <1>9 DEF Next

(* At the start. *)
LEMMA InitTypes == Init => TypeOK /\ Walk
<1> SUFFICES ASSUME Init PROVE TypeOK /\ Walk
  OBVIOUS
<1>1. 0 \in 0 .. MaxEtcds /\ 1 \in 0 .. MaxEtcds /\ 0 \in 0 .. MaxFaults /\ 0 \in 0 .. MaxCommands
  BY ConfigAssumption, CommandsAssumption
<1>2. CPs \subseteq Nodes
  BY NodesThere
<1>3. etcd \in [CPs -> 0 .. MaxEtcds] /\ member \in [1 .. MaxEtcds -> SUBSET CPs]
  BY <1>1 DEF Init, MachinesInit, AllFresh, AllBuilt
<1>4. MachinesTypeOK
  BY <1>1, <1>2, <1>3 DEF Init, MachinesInit, AllFresh, AllBuilt, MachinesTypeOK
<1>5. RunTypeOK
  BY <1>1 DEF Init, RunInit, RunTypeOK, NoTurn, NotProbed, NotAsked
<1>6. Walk
  BY DEF Init, RunInit, Walk, ApplyPcs, ResetPcs
<1> QED
  BY <1>4, <1>5, <1>6 DEF TypeOK

LEMMA NextTypes == TypeOK /\ Walk /\ [Next]_vars => TypeOK' /\ Walk'
<1> SUFFICES ASSUME TypeOK, Walk, [Next]_vars PROVE TypeOK' /\ Walk'
  OBVIOUS
<1>0. MachinesTypeOK /\ RunTypeOK
  BY DEF TypeOK
<1>1. ASSUME UNCHANGED run PROVE RunTypeOK' /\ Walk'
  <2>1. RunTypeOK'
    BY <1>0, <1>1 DEF run, RunTypeOK
  <2>2. Walk'
    BY <1>1 DEF run, Walk, Boot, Has
  <2> QED
    BY <2>1, <2>2
<1>2. CASE UNCHANGED vars
  BY <1>0, <1>1, <1>2, MachinesStay DEF vars, TypeOK
<1>3. CASE Next
  <2>1. MachinesTypeOK'
    BY <1>0, <1>3, MachinesKeep
  <2>2. CASE ApplyStep
    <3>1. \/ \/ RefuseFlags \/ Check \/ Confirm \/ RefuseNewNodes \/ StartBootstrap \/ OnboardOnly \/ StartAll
             \/ \E c \in CPs : Probe(c)
          \/ Gate \/ \E n \in todo : OneNode(n)
      BY <2>2 DEF ApplyStep
    <3>2. RunTypeOK' /\ Walk'
      BY <1>0, <3>1, BeforeNodes, AtNode
    <3> QED
      BY <2>1, <3>2 DEF TypeOK
  <2> QED
    BY <1>0, <1>1, <1>3, <2>1, <2>2, AtTerminal, InReset DEF Next, TypeOK
<1> QED
  BY <1>2, <1>3

(* What talman knows and what the machines are stay of their types, and    *)
(* the command hinted at, by apply or reset, always names some node.       *)
THEOREM Typing == Spec => []TypeOK
<1>1. TypeOK /\ Walk => TypeOK
  OBVIOUS
<1> QED
  BY <1>1, InitTypes, NextTypes, PTL DEF Spec

-----------------------------------------------------------------------------
(* Only as asked.                                                          *)

(* A node is asked over the maintenance service only by a run that may. *)
MaySend ==
  pc \in {"first", "send"} /\ turn.insecure => Has("insecure") \/ Onboards \/ Dry

(* Only a node's own steps lead to the places that are about one node. *)
LEMMA Elsewhere ==
  ASSUME \/ RefuseFlags \/ Check \/ Confirm \/ RefuseNewNodes \/ StartBootstrap \/ OnboardOnly \/ StartAll
         \/ \E c \in CPs : Probe(c)
         \/ Gate \/ Terminal \/ ResetStep
  PROVE  pc' \notin {"await", "first", "send", "wait", "bootstrap", "etcd"}
<1>1. CASE RefuseFlags \/ Check \/ Confirm \/ RefuseNewNodes
  BY <1>1 DEF RefuseFlags, Check, Confirm, RefuseNewNodes, Stops, Ends, GoesTo
<1>2. CASE StartBootstrap \/ OnboardOnly \/ StartAll
  BY <1>2 DEF StartBootstrap, OnboardOnly, StartAll, StartsOn, Starts, Stops, Ends
<1>3. CASE \E c \in CPs : Probe(c)
  BY <1>3 DEF Probe
<1>4. CASE Gate \/ Terminal
  BY <1>4 DEF Gate, Goes, Ends, Terminal, Killed, Type
<1>5. CASE ResetStep
  BY <1>5 DEF ResetStep, Order, Agree, WipeOne, WipeFails, GoesTo, Ends
<1> QED
  BY <1>1, <1>2, <1>3, <1>4, <1>5

(* A node is done with and the next one's turn, or the gate, comes. *)
LEMMA NodeDoneGoes ==
  ASSUME NEW n, NEW b, NEW mds, NodeDone(n, b, mds)
  PROVE  \/ pc' = "idle"
         \/ /\ pc' \in {"turn", "gate"} /\ todo' = todo \ {n} /\ modes' = mds
            /\ pc' = "gate" => ~Inert
            /\ UNCHANGED <<cmd, probe, built, asked>>
  BY DEF NodeDone, Advances, Finishes, Ends

LEMMA MaySendKept ==
  ASSUME TypeOK, Walk, MaySend, [Next]_vars
  PROVE  MaySend'
<1>1. CASE UNCHANGED run
  BY <1>1 DEF run, MaySend, Has, Onboards, Boot, Dry
<1>2. ASSUME NEW n \in todo, OneNode(n)
      PROVE  MaySend'
  <2>1. CASE Turn(n)
    <3>1. CASE pc' = "first"
      <4>1. UNCHANGED cmd
        BY <2>1, <3>1 DEF Turn, Takes, Goes, Ends, NodeDone, Advances, Finishes
      <4>2. \/ turn' = [insecure |-> Has("insecure"), new |-> Has("insecure"), same |-> FALSE]
            \/ Onboards \/ Dry
            \/ turn' = NoTurn
        BY <2>1, <3>1 DEF Turn, Takes, Goes, Ends, NodeDone, Advances, Finishes, MayConfigure
      <4>3. turn'.insecure => Has("insecure") \/ Onboards \/ Dry
        BY <4>2 DEF NoTurn
      <4> QED
        BY <4>1, <4>3 DEF MaySend, Has, Onboards, Boot, Dry
    <3>2. CASE pc' # "first"
      BY <2>1, <3>2 DEF Turn, Takes, Goes, Ends, NodeDone, Advances, Finishes, MaySend
    <3> QED
      BY <3>1, <3>2
  <2>2. CASE Await(n)
    BY <2>2 DEF Await, Takes, Ends, NoTurn, MaySend
  <2>3. CASE First(n)
    <3>1. pc' = "idle" \/ (UNCHANGED cmd /\ turn'.insecure = turn.insecure)
      BY <2>3 DEF First, Ends, TypeOK, RunTypeOK
    <3> QED
      BY <2>3, <3>1 DEF MaySend, First, Has, Onboards, Boot, Dry
  <2>4. CASE Show(n) \/ Send(n) \/ Wait(n) \/ Bootstrap(n) \/ WaitForEtcd(n)
    <3>1. pc' \notin {"first", "send"}
      BY <2>4 DEF Show, Send, Wait, Bootstrap, WaitForEtcd, NodeDone, Advances, Finishes, Fails, Stops, Ends, GoesTo, Goes
    <3> QED
      BY <3>1 DEF MaySend
  <2> QED
    BY <1>2, <2>1, <2>2, <2>3, <2>4 DEF OneNode
<1>3. CASE pc' \notin {"first", "send"}
  BY <1>3 DEF MaySend
<1> QED
  BY <1>1, <1>2, <1>3, Elsewhere DEF Next, ApplyStep, vars

(* A machine gets its first config from a config sent to it. *)
LEMMA SetGrows ==
  ASSUME [Next]_vars, NEW m \in set' \ set
  PROVE  m \in todo /\ pc = "send" /\ ~Inert /\ Accepts(m, turn.insecure)
<1>1. ASSUME NEW n \in todo, Send(n)
      PROVE  m = n /\ pc = "send" /\ ~Inert /\ Accepts(n, turn.insecure)
  BY <1>1 DEF Send, Fails, Stops, Configured, machines
<1>2. ASSUME NEW c \in CPs, Bootstrap(c)
      PROVE  UNCHANGED set
  BY <1>2 DEF Bootstrap, Bootstrapped, NotBootstrapped, Fails, Stops, machines
<1>3. ASSUME NEW n \in todo, WipeOne(n)
      PROVE  set' \subseteq set
  BY <1>3 DEF WipeOne, Wiped
<1>4. CASE UNCHANGED set
  BY <1>4
<1>5. CASE ApplyStep
  <2>1. CASE RefuseFlags \/ Check \/ Confirm \/ Gate \/ RefuseNewNodes \/ StartBootstrap \/ OnboardOnly \/ StartAll
    BY <1>4, <2>1 DEF RefuseFlags, Check, Confirm, Gate, RefuseNewNodes, StartBootstrap, OnboardOnly, StartAll, StartsOn, Starts, Stops, machines
  <2>2. CASE \E c \in CPs : Probe(c)
    BY <1>4, <2>2 DEF Probe, machines
  <2>3. ASSUME NEW n \in todo, OneNode(n)
        PROVE  m \in todo /\ pc = "send" /\ ~Inert /\ Accepts(m, turn.insecure)
    BY <1>1, <1>2, <1>4, <2>3 DEF OneNode, Turn, Await, First, Show, Wait, WaitForEtcd, machines
  <2> QED
    BY <1>5, <2>1, <2>2, <2>3 DEF ApplyStep
<1>6. CASE ResetStep
  BY <1>3, <1>4, <1>6 DEF ResetStep, Order, Agree, WipeFails, machines
<1>7. CASE Terminal \/ MachineStep \/ UNCHANGED vars
  BY <1>4, <1>7 DEF Terminal, Killed, Type, MachineStep, GoesDown, Recovers, ComesUp, BootsConfig, Joins, RunsEtcd, StartsEtcd, JoinsEtcd, machines, vars
<1> QED
  BY <1>5, <1>6, <1>7 DEF Next

(* newApplyCmd and applyOne send a config over the maintenance service,    *)
(* which authenticates nothing, only to nodes the command selects and only *)
(* when it said so, however the node's answers change in between.          *)
THEOREM AsAsked == Spec => OnlyAsAsked
<1>1. Init => MaySend
  BY DEF Init, RunInit, MaySend
<1>2. ASSUME TypeOK, Walk, MaySend, [Next]_vars
      PROVE  [\A n \in set' \ set :
                /\ n \in cmd.on
                /\ cmd.flags \cap {"onboard-new-nodes", "only-new-nodes", "bootstrap", "insecure"} # {}
                /\ "dry-run" \notin cmd.flags]_vars
  <2> SUFFICES ASSUME NEW n \in set' \ set
               PROVE  /\ n \in cmd.on
                      /\ cmd.flags \cap {"onboard-new-nodes", "only-new-nodes", "bootstrap", "insecure"} # {}
                      /\ "dry-run" \notin cmd.flags
    OBVIOUS
  <2>1. n \in todo /\ pc = "send" /\ ~Inert /\ Accepts(n, turn.insecure)
    BY <1>2, SetGrows
  <2>2. n \notin joined
    BY <1>2 DEF TypeOK, MachinesTypeOK
  <2>3. ModeOf(n) # "running"
    BY <2>2 DEF ModeOf
  <2>4. turn.insecure
    BY <2>1, <2>3 DEF Accepts
  <2>5. Has("insecure") \/ Onboards
    BY <1>2, <2>1, <2>4 DEF MaySend, Inert
  <2> QED
    BY <1>2, <2>1, <2>5 DEF Walk, Has, Onboards, Boot, Inert, Dry
<1> QED
  BY <1>1, <1>2, InitTypes, NextTypes, MaySendKept, PTL DEF Spec, OnlyAsAsked

-----------------------------------------------------------------------------
(* No cluster is split.                                                    *)

(* Only a configured machine that has booted holds etcd's data, and only   *)
(* where there is data does etcd run.                                      *)
Data ==
  /\ \A c \in CPs : etcd[c] # 0 => c \in set \ booting
  /\ \A c \in serving : etcd[c] # 0

(* While every control plane asked is new, an etcd there may be lives on   *)
(* one yet to be asked: none can be joined but through it.                 *)
Probing ==
  /\ pc = "probe"
  /\ \A c \in CPs : probe[c] \in {"unasked", "maintenance"}
  /\ \E c \in CPs : etcd[c] # 0
  => \E c \in CPs : probe[c] = "unasked" /\ etcd[c] # 0

(* A build that found none, and asked nobody, has found none since.        *)
Alone ==
  /\ pc \in {"screen", "turn", "await", "first", "send", "wait", "gate", "bootstrap"}
  /\ Boot /\ ~Dry /\ ~asked /\ ~built
  => \A c \in CPs : etcd[c] = 0

(* etcd is bootstrapped by a build, in earnest and once. *)
Stage ==
  /\ pc \in {"wait", "bootstrap", "etcd"} => ~Inert
  /\ pc = "bootstrap" => Boot /\ ~built

LEMMA NodesFinite == IsFiniteSet(Nodes) /\ IsFiniteSet(CPs)
<1>1. IsFiniteSet(DOMAIN Config)
  BY ConfigAssumption, FS_Interval
<1>2. Config \in Surjection(DOMAIN Config, Nodes)
  BY ConfigAssumption DEF Surjection, Nodes, Range
<1>3. IsFiniteSet(Nodes)
  BY <1>1, <1>2, FS_Surjection
<1>4. CPs \in SUBSET Nodes
  BY NodesThere
<1> QED
  BY <1>3, <1>4, FS_Subset

(* An etcd with a quorum is served by somebody. *)
LEMMA QuorumServes ==
  ASSUME MachinesTypeOK, NEW k \in 1 .. MaxEtcds, HasQuorum(k)
  PROVE  \E c \in serving : etcd[c] = k
<1> DEFINE S == {c \in member[k] \cap serving : etcd[c] = k}
<1>1. member[k] \in SUBSET CPs
  BY DEF MachinesTypeOK
<1>2. IsFiniteSet(member[k])
  BY <1>1, NodesFinite, FS_Subset
<1>3. Cardinality(member[k]) \in Nat
  BY <1>2, FS_CardinalityType
<1>4. CASE S = {}
  <2>1. Cardinality(S) = 0
    BY <1>4, FS_EmptySet
  <2>2. 2 * Cardinality(S) > Cardinality(member[k])
    BY DEF HasQuorum
  <2> QED
    BY <1>3, <2>1, <2>2
<1> QED
  BY <1>4

(* What a machine does to etcd by itself. *)
LEMMA MachineStepEtcd ==
  ASSUME MachinesTypeOK, Data, MachineStep
  PROVE  /\ Data'
         /\ UNCHANGED etcd \/ \E c \in CPs : etcd[c] # 0
         /\ \A c \in CPs : etcd[c] # 0 => etcd'[c] # 0
<1>1. ASSUME NEW n \in Nodes, GoesDown(n) \/ Recovers(n)
      PROVE  Data' /\ UNCHANGED etcd
  BY <1>1 DEF MachinesTypeOK, Data, GoesDown, Recovers, ComesUp, BootsConfig, Joins
<1>2. ASSUME NEW c \in CPs, StartsEtcd(c)
      PROVE  Data' /\ UNCHANGED etcd
  BY <1>2 DEF MachinesTypeOK, Data, StartsEtcd
<1>3. ASSUME NEW c \in CPs, NEW k \in 1 .. MaxEtcds, JoinsEtcd(c, k)
      PROVE  Data' /\ (\E d \in CPs : etcd[d] # 0) /\ \A d \in CPs : etcd[d] # 0 => etcd'[d] # 0
  <2>1. k # 0 /\ etcd' = [etcd EXCEPT ![c] = k] /\ c \in joined
        /\ UNCHANGED <<set, booting, joined, serving>> /\ HasQuorum(k)
    BY <1>3 DEF JoinsEtcd
  <2>2. \E d \in serving : etcd[d] = k
    BY <2>1, QuorumServes
  <2>3. \E d \in CPs : etcd[d] # 0
    BY <2>1, <2>2 DEF MachinesTypeOK
  <2>4. \A d \in CPs : etcd[d] # 0 => etcd'[d] # 0
    BY <2>1 DEF MachinesTypeOK
  <2>5. Data'
    BY <2>1 DEF Data, MachinesTypeOK
  <2> QED
    BY <2>3, <2>4, <2>5
<1> QED
  BY <1>1, <1>2, <1>3 DEF MachineStep, RunsEtcd

(* What a command does to etcd. *)
LEMMA CommandEtcd ==
  ASSUME TypeOK, Data, Next
  PROVE  /\ Data'
         /\ \/ UNCHANGED <<etcd, born>>
            \/ MachineStep /\ UNCHANGED <<run, born>>
            \/ pc' \in {"idle", "reset"} /\ UNCHANGED born
            \/ pc = "bootstrap" /\ pc' \in {"idle", "etcd"}
<1>0. MachinesTypeOK /\ RunTypeOK /\ todo \subseteq Nodes
  BY DEF TypeOK, RunTypeOK
<1>1. CASE UNCHANGED <<set, booting, etcd, serving, born>>
  BY <1>1 DEF Data
<1>2. CASE MachineStep /\ UNCHANGED run
  <2>1. UNCHANGED born
    BY <1>2 DEF MachineStep, GoesDown, Recovers, ComesUp, BootsConfig, Joins, RunsEtcd, StartsEtcd, JoinsEtcd
  <2> QED
    BY <1>0, <1>2, <2>1, MachineStepEtcd
<1>3. ASSUME NEW n \in todo, Send(n), ~UNCHANGED machines
      PROVE  Data' /\ UNCHANGED <<etcd, born>>
  BY <1>0, <1>3 DEF Send, Fails, Stops, Configured, Data, MachinesTypeOK
<1>4. ASSUME NEW c \in CPs, Bootstrap(c), ~UNCHANGED machines
      PROVE  Data' /\ pc = "bootstrap" /\ pc' \in {"idle", "etcd"}
  <2>1. pc = "bootstrap" /\ pc' \in {"idle", "etcd"}
    BY <1>4 DEF Bootstrap, GoesTo, Ends, Fails, Stops
  <2>2. CASE NotBootstrapped(c)
    BY <1>0, <2>1, <2>2 DEF NotBootstrapped, Data, MachinesTypeOK
  <2>3. CASE Bootstrapped(c) /\ ModeOf(c) = "running"
    <3>1. c \in joined
      BY <2>3 DEF ModeOf
    <3>2. PICK k \in Nat : k = born + 1
      BY <1>0 DEF MachinesTypeOK
    <3>3. etcd' = [etcd EXCEPT ![c] = k] /\ k # 0 /\ UNCHANGED <<set, booting, serving>>
      BY <1>0, <2>3, <3>2 DEF Bootstrapped, MachinesTypeOK
    <3>4. Data'
      BY <1>0, <3>1, <3>3 DEF Data, MachinesTypeOK
    <3> QED
      BY <2>1, <3>4
  <2> QED
    BY <1>4, <2>2, <2>3 DEF Bootstrap, Fails, Stops
<1>5. ASSUME NEW n \in todo, WipeOne(n)
      PROVE  Data' /\ pc' \in {"idle", "reset"} /\ UNCHANGED born
  <2>1. pc' \in {"idle", "reset"}
    BY <1>5 DEF WipeOne, Ends
  <2> QED
    BY <1>0, <1>5, <2>1 DEF WipeOne, Wiped, Data, MachinesTypeOK
<1>6. CASE UNCHANGED machines
  BY <1>1, <1>6 DEF machines
<1>7. CASE ApplyStep
  <2>1. CASE RefuseFlags \/ Check \/ Confirm \/ Gate \/ RefuseNewNodes \/ StartBootstrap \/ OnboardOnly \/ StartAll
    BY <1>6, <2>1 DEF RefuseFlags, Check, Confirm, Gate, RefuseNewNodes, StartBootstrap, OnboardOnly, StartAll, StartsOn, Starts, Stops
  <2>2. CASE \E c \in CPs : Probe(c)
    BY <1>1, <2>2 DEF Probe, machines
  <2>3. ASSUME NEW n \in todo, OneNode(n)
        PROVE  UNCHANGED machines \/ Send(n) \/ (n \in CPs /\ Bootstrap(n))
    BY <2>3 DEF OneNode, Turn, Await, First, Show, Wait, WaitForEtcd
  <2> QED
    BY <1>3, <1>4, <1>6, <1>7, <2>1, <2>2, <2>3 DEF ApplyStep
<1>8. CASE ResetStep
  BY <1>5, <1>6, <1>8 DEF ResetStep, Order, Agree, WipeFails
<1>9. CASE Terminal
  BY <1>6, <1>9 DEF Terminal, Killed, Type
<1> QED
  BY <1>2, <1>7, <1>8, <1>9 DEF Next

(* Where a command is about the node whose turn it is. *)
NodePcs == {"turn", "await", "first", "send", "wait", "gate", "bootstrap", "etcd"}

(* One node's steps: the command goes on as it is, or ends. *)
LEMMA NodeSteps ==
  ASSUME Gate \/ \E n \in todo : OneNode(n)
  PROVE  \/ pc' = "idle"
         \/ /\ pc \in NodePcs /\ pc' \in NodePcs
            /\ UNCHANGED <<cmd, probe, asked>>
            /\ UNCHANGED built \/ built'
            /\ pc' = "wait" => ~Inert
            /\ pc' = "bootstrap" => pc = "wait" /\ Boot /\ ~built /\ UNCHANGED built
            /\ pc' = "etcd" => pc = "bootstrap"
            /\ pc = "etcd" => built'
<1>1. CASE Gate
  BY <1>1 DEF Gate, Goes, Ends, NodePcs
<1>2. ASSUME NEW n \in todo, Turn(n) \/ Await(n) \/ First(n)
      PROVE  \/ pc' = "idle"
             \/ /\ pc \in {"turn", "await", "first"} /\ pc' \in {"turn", "gate", "await", "first", "send"}
                /\ UNCHANGED <<cmd, probe, asked, built>>
  BY <1>2, NodeDoneGoes DEF Turn, Await, First, Takes, Goes, Ends
<1>3. ASSUME NEW n \in todo, Show(n) \/ Send(n)
      PROVE  \/ pc' = "idle"
             \/ /\ pc = "send" /\ pc' \in {"turn", "gate", "wait"}
                /\ UNCHANGED <<cmd, probe, asked, built>>
                /\ pc' = "wait" => ~Inert
  BY <1>3, NodeDoneGoes DEF Show, Send, Fails, Stops, GoesTo, Ends
<1>4. ASSUME NEW n \in todo, Wait(n)
      PROVE  \/ pc' = "idle"
             \/ /\ pc = "wait" /\ pc' \in {"turn", "gate", "bootstrap"}
                /\ UNCHANGED <<cmd, probe, asked, built>>
                /\ pc' = "bootstrap" => Boot /\ ~built
  <2>1. CASE \E b, mds : NodeDone(n, b, mds)
    BY <1>4, <2>1, NodeDoneGoes DEF Wait
  <2>2. CASE Ends(Hint)
    BY <2>2 DEF Ends
  <2>3. CASE \E mds : Boot /\ ~built /\ Goes("bootstrap", mds)
    BY <1>4, <2>3 DEF Wait, Goes
  <2> QED
    BY <1>4, <2>1, <2>2, <2>3 DEF Wait
<1>5. ASSUME NEW c \in CPs, Bootstrap(c)
      PROVE  pc' = "idle" \/ (pc = "bootstrap" /\ pc' = "etcd" /\ UNCHANGED <<cmd, probe, asked, built>>)
  BY <1>5 DEF Bootstrap, Fails, Stops, GoesTo, Ends
<1>6. ASSUME NEW c \in CPs, WaitForEtcd(c)
      PROVE  pc' = "idle" \/ (pc = "etcd" /\ pc' = "turn" /\ UNCHANGED <<cmd, probe, asked>> /\ built')
  BY <1>6 DEF WaitForEtcd, Advances, Finishes, Ends
<1> QED
  BY <1>1, <1>2, <1>3, <1>4, <1>5, <1>6 DEF OneNode, NodePcs

LEMMA AloneKept ==
  ASSUME TypeOK, Walk, Data, Probing, Alone, Stage, [Next]_vars
  PROVE  Data' /\ Probing' /\ Alone' /\ Stage'
<1>0. MachinesTypeOK /\ probe \in [CPs -> {"unasked", "unknown", "stopped"} \cup Modes]
  BY DEF TypeOK, RunTypeOK
<1>1. CASE UNCHANGED vars
  BY <1>1 DEF vars, machines, run, Data, Probing, Alone, Stage, Boot, Dry, Inert, Staged, Has
<1>2. CASE MachineStep /\ UNCHANGED run
  <2>1. /\ Data'
        /\ UNCHANGED etcd \/ \E c \in CPs : etcd[c] # 0
        /\ \A c \in CPs : etcd[c] # 0 => etcd'[c] # 0
    BY <1>0, <1>2, MachineStepEtcd
  <2>2. UNCHANGED <<pc, cmd, probe, asked, built>>
    BY <1>2 DEF run
  <2>3. Probing'
    BY <2>1, <2>2 DEF Probing
  <2>4. Alone' /\ Stage'
    BY <2>1, <2>2 DEF Alone, Stage, Boot, Dry, Inert, Staged, Has
  <2> QED
    BY <2>1, <2>3, <2>4
<1>3. CASE Next /\ ~(MachineStep /\ UNCHANGED run)
  <2>1. /\ Data'
        /\ \/ UNCHANGED etcd
           \/ pc' \in {"idle", "reset"}
           \/ pc = "bootstrap" /\ pc' \in {"idle", "etcd"}
    BY <1>3, CommandEtcd
  <2>2. CASE pc' \in {"idle", "reset", "agree"}
    BY <2>1, <2>2 DEF Probing, Alone, Stage
  <2>3. CASE Gate \/ \E n \in todo : OneNode(n)
    <3>1. CASE pc' = "idle"
      BY <2>2, <3>1
    <3>2. CASE pc' # "idle"
      <4>1. /\ pc \in NodePcs /\ pc' \in NodePcs
            /\ UNCHANGED <<cmd, asked>>
            /\ UNCHANGED built \/ built'
            /\ pc' = "wait" => ~Inert
            /\ pc' = "bootstrap" => pc = "wait" /\ Boot /\ ~built /\ UNCHANGED built
            /\ pc' = "etcd" => pc = "bootstrap"
            /\ pc = "etcd" => built'
        BY <2>3, <3>2, NodeSteps
      <4>2. (Boot <=> Boot') /\ (Dry <=> Dry') /\ (Inert <=> Inert')
        BY <4>1 DEF Boot, Dry, Inert, Staged, Has
      <4>3. Probing'
        BY <4>1 DEF Probing, NodePcs
      <4>4. Stage'
        BY <4>1, <4>2 DEF Stage
      <4>5. Alone'
        BY <2>1, <4>1, <4>2 DEF Alone, NodePcs
      <4> QED
        BY <2>1, <4>3, <4>4, <4>5
    <3> QED
      BY <3>1, <3>2
  <2>4. ASSUME NEW c \in CPs, Probe(c)
        PROVE  Probing' /\ Alone' /\ Stage'
    <3>1. pc = "probe" /\ pc' = "probe" /\ UNCHANGED <<etcd, cmd, asked, built>>
      BY <2>4 DEF Probe, machines
    <3>2. PICK a : probe' = [probe EXCEPT ![c] = a] /\ (a = "maintenance" => ModeOf(c) = "maintenance") /\ a # "unasked"
      BY <2>4, ModeType DEF Probe, EtcdOf, Modes
    <3>3. ModeOf(c) = "maintenance" => etcd[c] = 0
      BY DEF ModeOf, Data
    <3>4. Probing'
      <4> SUFFICES ASSUME \A d \in CPs : probe'[d] \in {"unasked", "maintenance"}, \E d \in CPs : etcd[d] # 0
                   PROVE  \E d \in CPs : probe'[d] = "unasked" /\ etcd[d] # 0
        BY <3>1 DEF Probing
      <4>1. a = "maintenance" /\ etcd[c] = 0 /\ probe[c] = "unasked"
        BY <1>0, <2>4, <3>2, <3>3 DEF Probe
      <4>2. \A d \in CPs : probe[d] \in {"unasked", "maintenance"}
        BY <1>0, <3>2, <4>1
      <4>3. PICK d \in CPs : probe[d] = "unasked" /\ etcd[d] # 0
        BY <3>1, <4>2 DEF Probing
      <4>4. d # c /\ probe'[d] = "unasked"
        BY <1>0, <3>2, <4>1, <4>3
      <4> QED
        BY <4>3, <4>4
    <3> QED
      BY <3>1, <3>4 DEF Alone, Stage
  <2>5. CASE Check
    <3>1. CASE pc' = "idle"
      BY <2>2, <3>1
    <3>2. CASE pc' # "idle"
      <4>1. /\ pc = "probe" /\ "unasked" \notin Answers
            /\ pc' \in {"screen", "confirm"} /\ UNCHANGED <<cmd, asked, built, etcd>>
            /\ Boot => Bootstrappable /\ (pc' = "screen" => Dry \/ "stopped" \notin Answers)
        BY <2>5, <3>2 DEF Check, Stops, Ends, GoesTo, machines
      <4>2. \A c \in CPs : probe[c] \in Answers
        BY <1>0 DEF Answers, Range
      <4>3. Boot /\ ~Dry /\ pc' = "screen" => \A c \in CPs : probe[c] = "maintenance"
        BY <1>0, <4>1, <4>2 DEF Bootstrappable, Modes
      <4>4. Boot /\ ~Dry /\ pc' = "screen" => \A c \in CPs : etcd[c] = 0
        BY <4>1, <4>3 DEF Probing
      <4>5. Alone'
        BY <4>1, <4>4 DEF Alone, Boot, Dry, Has
      <4> QED
        BY <2>1, <4>1, <4>5 DEF Probing, Stage
    <3> QED
      BY <3>1, <3>2
  <2>6. CASE Confirm
    <3>1. pc' = "idle" \/ (pc' = "screen" /\ asked')
      BY <2>6 DEF Confirm, Stops, Ends
    <3> QED
      BY <2>1, <2>2, <3>1 DEF Probing, Alone, Stage
  <2>7. CASE RefuseFlags \/ RefuseNewNodes
    <3>1. pc' = "idle"
      BY <2>7 DEF RefuseFlags, RefuseNewNodes, Stops, Ends
    <3> QED
      BY <2>2, <3>1
  <2>8. CASE StartBootstrap \/ OnboardOnly \/ StartAll
    <3>1. pc' = "idle" \/ (pc = "screen" /\ pc' = "turn" /\ UNCHANGED <<cmd, asked, built, etcd>>)
      BY <2>8 DEF StartBootstrap, OnboardOnly, StartAll, StartsOn, Starts, Stops, Ends, machines
    <3> QED
      BY <2>1, <2>2, <3>1 DEF Probing, Alone, Stage, Boot, Dry, Has
  <2>9. CASE Terminal
    <3>1. CASE Killed
      BY <2>2, <3>1 DEF Killed, Ends
    <3>2. ASSUME NEW c \in Commands \cup {hint}, Type(c)
          PROVE  Probing' /\ Alone' /\ Stage'
      <4>1. pc' \in {"probe", "order"} /\ UNCHANGED <<probe, etcd>> /\ probe = NotProbed
        BY <3>2 DEF Type, machines, Walk
      <4>2. \A d \in CPs : probe[d] = "unasked"
        BY <4>1 DEF NotProbed
      <4> QED
        BY <4>1, <4>2 DEF Probing, Alone, Stage
    <3> QED
      BY <2>1, <2>9, <3>1, <3>2 DEF Terminal
  <2>10. CASE ResetStep
    <3>1. pc' \in {"idle", "reset", "agree"}
      BY <2>10 DEF ResetStep, Order, Agree, WipeOne, WipeFails, GoesTo, Ends
    <3> QED
      BY <2>2, <3>1
  <2> QED
    BY <1>3, <2>1, <2>3, <2>4, <2>5, <2>6, <2>7, <2>8, <2>9, <2>10 DEF Next, ApplyStep
<1> QED
  BY <1>1, <1>2, <1>3

(* checkBootstrappable asks every control plane before the first is        *)
(* configured, and bootstrapFirst runs much later: whatever the machines   *)
(* did in between, the etcd it makes is the only one, unless the operator  *)
(* was asked and said so.                                                  *)
THEOREM NoSecondEtcd == Spec => BootstrapsAlone
<1>1. Init => Data /\ Probing /\ Alone /\ Stage
  <2> SUFFICES ASSUME Init PROVE Data /\ Probing /\ Alone /\ Stage
    OBVIOUS
  <2>1. Data
    BY NodesThere DEF Init, MachinesInit, AllFresh, AllBuilt, Data
  <2> QED
    BY <2>1 DEF Init, RunInit, Probing, Alone, Stage
<1>2. ASSUME TypeOK, Walk, Data, Alone, Stage, [Next]_vars
      PROVE  [born' # born => asked \/ \A c \in CPs : etcd[c] = 0]_vars
  <2>1. CASE Next
    <3>1. CASE pc' \in {"idle", "etcd"} /\ pc = "bootstrap"
      BY <1>2, <3>1 DEF Alone, Stage, Inert
    <3> QED
      BY <1>2, <2>1, <3>1, CommandEtcd
  <2> QED
    BY <1>2, <2>1
<1> QED
  BY <1>1, <1>2, InitTypes, NextTypes, AloneKept, PTL DEF Spec, BootstrapsAlone

-----------------------------------------------------------------------------
(* A teardown gets through.                                                *)

(* A command that resets these nodes is told it is a teardown, or sees it. *)
Told(on, flags) == "graceful" \notin flags => "graceful=false" \in flags \/ CPs \subseteq on

(* The chain of resets set out to wipe what any of them wipes, and a chain *)
(* that set out to wipe every control plane has not forgotten it; workers  *)
(* go first, so while one is left every control plane is.                  *)
Teardown ==
  /\ pc \in ResetPcs => cmd.on \cap CPs \subseteq doomed
  /\ pc \in ResetPcs /\ doomed = CPs => Told(cmd.on, cmd.flags)
  /\ hint.kind = "reset" => hint.on \cap CPs \subseteq doomed
  /\ hint.kind = "reset" /\ doomed = CPs => Told(hint.on, hint.flags)
  /\ pc = "reset" /\ todo \cap Workers # {} => cmd.on \cap CPs \subseteq todo
  /\ pc = "agree" => todo = cmd.on

LEMMA ApplyHintsApply ==
  ASSUME RunTypeOK, Walk, pc \in ApplyPcs
  PROVE  /\ Hint.kind = "apply"
         /\ \A f : [cmd EXCEPT !.flags = f].kind = "apply"
<1>1. cmd \in Command /\ cmd.kind = "apply"
  BY Applying
<1>2. CASE ~Boot
  BY <1>1, <1>2 DEF Hint, Command
<1>3. CASE Boot /\ ~built
  BY <1>1, <1>3 DEF Hint, Command
<1>4. CASE Boot /\ built
  BY <1>1, <1>4 DEF Hint, Command
<1> QED
  BY <1>1, <1>2, <1>3, <1>4 DEF Command

(* An apply says nothing of resets. *)
LEMMA ApplyNoReset ==
  ASSUME RunTypeOK, Walk, Teardown, ApplyStep
  PROVE  Teardown'
<1>0. pc \in ApplyPcs
  BY DEF ApplyStep, RefuseFlags, Check, Confirm, Gate, RefuseNewNodes, StartBootstrap, OnboardOnly, StartAll, Probe,
         OneNode, Turn, Await, First, Show, Send, Wait, Bootstrap, WaitForEtcd, ApplyPcs
<1>1. ASSUME NEW h, h.kind # "reset", Ends(h)
      PROVE  Teardown'
  BY <1>1 DEF Ends, Teardown, ResetPcs
<1>2. NoCommand.kind # "reset" /\ Hint.kind # "reset"
  BY <1>0, ApplyHintsApply DEF NoCommand
<1>3. ASSUME pc' \in ApplyPcs, UNCHANGED <<hint, doomed>>
      PROVE  Teardown'
  <2>1. pc' \notin ResetPcs
    BY <1>3 DEF ApplyPcs, ResetPcs
  <2> QED
    BY <1>3, <2>1 DEF Teardown, ResetPcs
<1>4. CASE RefuseFlags \/ Check \/ Confirm \/ RefuseNewNodes
  <2>1. \A S, F : [kind |-> "apply", on |-> S, flags |-> F].kind # "reset"
    OBVIOUS
  <2> QED
    BY <1>1, <1>2, <1>3, <1>4, <2>1 DEF RefuseFlags, Check, Confirm, RefuseNewNodes, Stops, GoesTo, ApplyPcs
<1>5. CASE StartBootstrap \/ OnboardOnly \/ StartAll
  BY <1>1, <1>2, <1>3, <1>5 DEF StartBootstrap, OnboardOnly, StartAll, StartsOn, Starts, Stops, ApplyPcs
<1>6. CASE \E c \in CPs : Probe(c)
  BY <1>0, <1>3, <1>6 DEF Probe
<1>7. CASE Gate
  BY <1>1, <1>2, <1>3, <1>7 DEF Gate, Goes, ApplyPcs
<1>8. ASSUME NEW n, NEW b, NEW mds, NodeDone(n, b, mds)
      PROVE  Teardown'
  BY <1>1, <1>2, <1>3, <1>8 DEF NodeDone, Advances, Finishes, ApplyPcs
<1>9. ASSUME NEW n \in todo, OneNode(n)
      PROVE  Teardown'
  <2>1. CASE Turn(n) \/ Await(n) \/ First(n)
    BY <1>1, <1>2, <1>3, <1>8, <2>1 DEF Turn, Await, First, Takes, Goes, ApplyPcs
  <2>2. CASE Show(n) \/ Send(n) \/ Wait(n)
    BY <1>1, <1>2, <1>3, <1>8, <2>2 DEF Show, Send, Wait, Fails, Stops, GoesTo, Goes, ApplyPcs
  <2>3. CASE Bootstrap(n)
    BY <1>1, <1>2, <1>3, <2>3 DEF Bootstrap, Fails, Stops, GoesTo, ApplyPcs
  <2>4. CASE WaitForEtcd(n)
    BY <1>0, <1>1, <1>2, <1>3, <2>4, ApplyHintsApply DEF WaitForEtcd, Advances, Finishes, ApplyPcs
  <2> QED
    BY <1>9, <2>1, <2>2, <2>3, <2>4 DEF OneNode
<1> QED
  BY <1>4, <1>5, <1>6, <1>7, <1>9 DEF ApplyStep

LEMMA TeardownKept ==
  ASSUME TypeOK, Walk, Teardown, [Next]_vars
  PROVE  Teardown'
<1>0. RunTypeOK
  BY DEF TypeOK
<1>1. CASE UNCHANGED run
  BY <1>1 DEF run, Teardown
<1>2. CASE Killed
  BY <1>2 DEF Killed, Ends, NoCommand, Teardown, ResetPcs
<1>3. ASSUME NEW c \in Commands \cup {hint}, Type(c)
      PROVE  Teardown'
  <2>1. /\ cmd' = c /\ hint' = NoCommand /\ pc' = IF c.kind = "apply" THEN "probe" ELSE "order"
        /\ doomed' = (IF c = hint THEN doomed ELSE {}) \cup (IF c.kind = "reset" THEN c.on \cap CPs ELSE {})
        /\ c # NoCommand
    BY <1>3 DEF Type
  <2>2. c \in Command
    BY <1>0, <2>1, CommandsAssumption DEF RunTypeOK
  <2>3. CASE c.kind = "apply"
    BY <2>1, <2>3 DEF Teardown, NoCommand, ResetPcs
  <2>4. CASE c.kind = "reset" /\ c = hint
    <3>1. doomed' = doomed /\ c.on \cap CPs \subseteq doomed /\ (doomed = CPs => Told(c.on, c.flags))
      BY <2>1, <2>4 DEF Teardown
    <3> QED
      BY <2>1, <2>4, <3>1 DEF Teardown, NoCommand, Told
  <2>5. CASE c.kind = "reset" /\ c # hint
    <3>1. doomed' = c.on \cap CPs
      BY <2>1, <2>5
    <3> QED
      BY <2>1, <2>5, <3>1 DEF Teardown, NoCommand, Told
  <2> QED
    BY <2>2, <2>3, <2>4, <2>5 DEF Command
<1>4. CASE Order
  BY <1>4 DEF Order, Teardown, ResetPcs
<1>5. CASE Agree
  BY <1>5 DEF Agree, GoesTo, Ends, NoCommand, Teardown, ResetPcs
<1>6. ASSUME NEW n \in todo, IsNext(n), WipeOne(n) \/ WipeFails(n)
      PROVE  Teardown'
  <2>1. cmd \in Command /\ cmd.kind = "reset" /\ pc = "reset" /\ todo \subseteq cmd.on
    BY <1>0, <1>6, Running DEF WipeOne, WipeFails, Walk, ResetPcs
  <2>2. ResetHint.kind = "reset" /\ ResetHint.on = todo /\ ResetHint.flags = HintFlags(todo)
    BY <2>1 DEF ResetHint, Command
  <2>3. todo \cap CPs \subseteq doomed
    BY <2>1 DEF Teardown, ResetPcs
  <2>4. ASSUME doomed = CPs
        PROVE  Told(todo, HintFlags(todo))
    <3>1. Told(cmd.on, cmd.flags)
      BY <2>1, <2>4 DEF Teardown, ResetPcs
    <3> SUFFICES ASSUME "graceful" \notin cmd.flags, "graceful=false" \notin cmd.flags
                 PROVE  "graceful=false" \in HintFlags(todo) \/ CPs \subseteq todo
      BY DEF Told, HintFlags
    <3>2. CPs \subseteq cmd.on
      BY <3>1 DEF Told
    <3>3. Destroying
      BY <3>2 DEF Destroying, Graceful, Has
    <3>4. CASE todo \subseteq CPs
      BY <3>3, <3>4 DEF HintFlags
    <3>5. CASE ~(todo \subseteq CPs)
      <4>1. todo \cap Workers # {}
        BY <1>0, <3>5 DEF RunTypeOK, CPs
      <4> QED
        BY <2>1, <3>2, <4>1 DEF Teardown
    <3> QED
      BY <3>4, <3>5
  <2>5. CASE Ends(ResetHint)
    BY <2>2, <2>3, <2>4, <2>5 DEF Ends, Teardown, ResetPcs
  <2>6. CASE Ends(NoCommand)
    BY <2>6 DEF Ends, NoCommand, Teardown, ResetPcs
  <2>7. CASE todo' = todo \ {n} /\ UNCHANGED <<cmd, pc, hint, doomed>>
    <3>1. todo' \cap Workers # {} => cmd.on \cap CPs \subseteq todo'
      <4> SUFFICES ASSUME todo' \cap Workers # {} PROVE cmd.on \cap CPs \subseteq todo'
        OBVIOUS
      <4>1. n \in Workers
        BY <1>6, <2>1, <2>7 DEF IsNext, Early
      <4>2. cmd.on \cap CPs \subseteq todo
        BY <2>1, <2>7 DEF Teardown
      <4> QED
        BY <2>7, <4>1, <4>2 DEF CPs
    <3> QED
      BY <2>1, <2>7, <3>1 DEF Teardown, ResetPcs
  <2> QED
    BY <1>6, <2>5, <2>6, <2>7 DEF WipeOne, WipeFails
<1> QED
  BY <1>0, <1>1, <1>2, <1>3, <1>4, <1>5, <1>6, ApplyNoReset DEF Next, Terminal, ResetStep, vars

(* A reset that fails on the way hints at itself for the nodes left; told  *)
(* it carries on a teardown, or seeing that it is one, it never asks a     *)
(* control plane to leave an etcd that cannot let it go.                   *)
THEOREM TeardownEnds == Spec => []TeardownGetsThrough
<1>1. Init => Teardown
  BY DEF Init, RunInit, NoCommand, Teardown, ResetPcs
<1>2. TypeOK /\ Teardown => TeardownGetsThrough
  <2> SUFFICES ASSUME Teardown, pc = "reset", doomed = CPs, ~Has("graceful"), NEW n \in CPs
               PROVE  ~NodeGraceful(n)
    BY DEF TeardownGetsThrough
  <2>1. "graceful=false" \in cmd.flags \/ CPs \subseteq cmd.on
    BY DEF Teardown, ResetPcs, Told, Has
  <2>2. n \notin Workers
    BY DEF CPs
  <2> QED
    BY <2>1, <2>2 DEF NodeGraceful, Destroying, Graceful, Has
<1> QED
  BY <1>1, <1>2, InitTypes, NextTypes, TeardownKept, PTL DEF Spec

-----------------------------------------------------------------------------
(* The gate is not held down.                                              *)

(* A run that waits for its nodes, and asks each which API it answers. *)
Watches == cmd.flags \cap {"wait=false", "insecure=false"} = {}

(* n, done with, is not taken for new, nor will be. *)
Known(n) == modes[n] # "maintenance" /\ (modes[n] = "unasked" => n \in set \ booting)

(* The node whose turn it is was seen running. *)
TurnRuns == \A n \in todo : IsNext(n) => modes[n] = "running"

Remembered ==
  /\ pc \in {"probe", "check", "confirm", "screen"} => modes = NotAsked
  /\ pc = "gate" => ~Inert
  /\ ~(turn.same /\ turn.new)
  /\ Watches /\ pc \in {"first", "send", "wait"} /\ ~turn.new => TurnRuns
  /\ Watches /\ pc \in {"bootstrap", "etcd"} => TurnRuns
  /\ Watches /\ ~Inert /\ pc \in NodePcs => \A n \in cmd.on \ todo : Known(n)

(* talman.yaml lists no node twice, so one node at a time has its turn. *)
LEMMA NextUnique ==
  ASSUME NEW n, NEW m, IsNext(n), IsNext(m)
  PROVE  n = m
<1> SUFFICES ASSUME n # m PROVE FALSE
  OBVIOUS
<1>1. Before(n, m) /\ Before(m, n)
  BY DEF IsNext
<1>2. PICK i, j \in DOMAIN Config : i < j /\ Config[i] = n /\ Config[j] = m
  BY <1>1 DEF Before
<1>3. PICK k, l \in DOMAIN Config : k < l /\ Config[k] = m /\ Config[l] = n
  BY <1>1 DEF Before
<1>4. k = j /\ l = i
  BY <1>2, <1>3, ConfigAssumption DEF IsInjective
<1>5. i \in Int /\ j \in Int
  BY ConfigAssumption
<1> QED
  BY <1>2, <1>3, <1>4, <1>5

(* A configured machine that has booted stays one while an apply runs. *)
LEMMA StaysBooted ==
  ASSUME TypeOK, Next, pc # "reset"
  PROVE  set \ booting \subseteq set' \ booting'
<1>1. ASSUME NEW n \in todo, Send(n)
      PROVE  set \ booting \subseteq set' \ booting'
  BY <1>1 DEF Send, Fails, Stops, Configured, machines
<1>2. ASSUME NEW c \in CPs, Bootstrap(c)
      PROVE  UNCHANGED <<set, booting>>
  BY <1>2 DEF Bootstrap, Bootstrapped, NotBootstrapped, Fails, Stops, machines
<1>3. CASE UNCHANGED <<set, booting>>
  BY <1>3
<1>4. CASE ApplyStep
  <2>1. CASE RefuseFlags \/ Check \/ Confirm \/ Gate \/ RefuseNewNodes \/ StartBootstrap \/ OnboardOnly \/ StartAll
    BY <1>3, <2>1 DEF RefuseFlags, Check, Confirm, Gate, RefuseNewNodes, StartBootstrap, OnboardOnly, StartAll, StartsOn, Starts, Stops, machines
  <2>2. CASE \E c \in CPs : Probe(c)
    BY <1>3, <2>2 DEF Probe, machines
  <2>3. ASSUME NEW n \in todo, OneNode(n)
        PROVE  set \ booting \subseteq set' \ booting'
    BY <1>1, <1>2, <1>3, <2>3 DEF OneNode, Turn, Await, First, Show, Wait, WaitForEtcd, machines
  <2> QED
    BY <1>4, <2>1, <2>2, <2>3 DEF ApplyStep
<1>5. CASE ResetStep
  BY <1>3, <1>5 DEF ResetStep, Order, Agree, WipeOne, WipeFails, machines
<1>6. CASE Terminal \/ MachineStep
  BY <1>3, <1>6 DEF Terminal, Killed, Type, MachineStep, GoesDown, Recovers, ComesUp, BootsConfig, Joins, RunsEtcd, StartsEtcd, JoinsEtcd, machines
<1> QED
  BY <1>4, <1>5, <1>6 DEF Next

(* One node's steps keep what is remembered. *)
LEMMA NodeRemembers ==
  ASSUME TypeOK, Walk, Stage, Remembered, set \ booting \subseteq set' \ booting',
         Gate \/ \E n \in todo : IsNext(n) /\ OneNode(n), pc' # "idle"
  PROVE  Remembered'
<1>0. /\ pc \in NodePcs /\ pc' \in NodePcs /\ UNCHANGED cmd
      /\ modes \in [Nodes -> {"unasked"} \cup Modes] /\ todo \subseteq Nodes /\ cmd.on \subseteq Nodes
      /\ turn \in [insecure : BOOLEAN, new : BOOLEAN, same : BOOLEAN]
  <2>1. pc \in NodePcs /\ pc' \in NodePcs /\ UNCHANGED cmd
    BY NodeSteps
  <2> QED
    BY <2>1, Running DEF TypeOK, RunTypeOK, NodePcs, Command
<1>1. (Watches <=> Watches') /\ (Inert <=> Inert')
  BY <1>0 DEF Watches, Inert, Dry, Staged, Has
<1>2. ASSUME UNCHANGED todo
      PROVE  \A n : IsNext(n) <=> IsNext(n)'
  BY <1>0, <1>2 DEF IsNext, Early, Has
<1>3. ASSUME Watches, ~Inert, NEW m \in cmd.on \ todo, modes'[m] = modes[m]
      PROVE  Known(m)'
  BY <1>0, <1>3 DEF Remembered, Known
<1>4. pc' \notin {"probe", "check", "confirm", "screen"}
  BY <1>0 DEF NodePcs
<1>5. CASE Gate
  <2> DEFINE known == [n \in Nodes |-> IF modes[n] = "unasked" THEN ModeOf(n) ELSE modes[n]]
  <2>1. pc = "gate" /\ pc' = "turn" /\ modes' = known /\ UNCHANGED <<todo, turn>>
    BY <1>5 DEF Gate, Goes, Ends
  <2>2. ASSUME Watches, ~Inert, NEW m \in cmd.on \ todo
        PROVE  Known(m)'
    <3>1. Known(m)
      BY <1>0, <2>2 DEF Remembered
    <3>2. modes'[m] # "maintenance" /\ modes'[m] # "unasked"
      BY <1>0, <2>1, <2>2, <3>1, ModeType DEF Known, ModeOf, Modes
    <3> QED
      BY <3>2 DEF Known
  <2> QED
    BY <1>0, <1>1, <1>4, <2>1, <2>2 DEF Remembered
<1>6. ASSUME NEW n \in todo, IsNext(n), OneNode(n)
      PROVE  Remembered'
  <2>0. n \in Nodes /\ \A m \in todo : IsNext(m) => m = n
    BY <1>0, <1>6, NextUnique
  <2>1. \A m \in cmd.on \ todo : \A a : Remember(n, a)[m] = modes[m]
    BY <1>0, <1>6 DEF Remember
  <2>2. \A a : Remember(n, a)[n] = a
    BY <1>0, <2>0 DEF Remember
  <2>3. ASSUME UNCHANGED todo, pc' \notin {"turn", "gate"}, NEW a, modes' = modes \/ modes' = Remember(n, a),
               ~(turn'.same /\ turn'.new),
               Watches /\ pc' \in {"first", "send", "wait"} /\ ~turn'.new => modes'[n] = "running",
               Watches /\ pc' \in {"bootstrap", "etcd"} => modes'[n] = "running"
        PROVE  Remembered'
    <3>1. Watches /\ ~Inert => \A m \in cmd.on \ todo : Known(m)'
      BY <1>3, <2>1, <2>3
    <3>2. modes'[n] = "running" => TurnRuns'
      BY <1>2, <2>0, <2>3 DEF TurnRuns
    <3> QED
      BY <1>0, <1>1, <1>4, <2>3, <3>1, <3>2 DEF Remembered
  <2>4. ASSUME pc' \in {"turn", "gate"}, todo' = todo \ {n}, turn' = NoTurn, pc' = "gate" => ~Inert,
               Inert \/ ~Watches \/ (modes'[n] = "running" /\ \A m \in cmd.on \ todo : modes'[m] = modes[m])
        PROVE  Remembered'
    <3>1. ASSUME Watches, ~Inert, NEW m \in cmd.on \ todo'
          PROVE  Known(m)'
      <4>1. CASE m = n
        BY <2>4, <3>1, <4>1 DEF Known
      <4>2. CASE m # n
        BY <1>3, <2>4, <3>1, <4>2
      <4> QED
        BY <4>1, <4>2
    <3> QED
      BY <1>0, <1>1, <1>4, <2>4, <3>1 DEF Remembered, NoTurn
  <2>5. ASSUME NEW b, NEW mds, NodeDone(n, b, mds)
        PROVE  /\ pc' \in {"turn", "gate"} /\ todo' = todo \ {n} /\ turn' = NoTurn /\ modes' = mds
               /\ pc' = "gate" => ~Inert
    BY <2>5 DEF NodeDone, Advances, Finishes, Ends
  <2>6. CASE Turn(n)
    <3>1. CASE Forced /\ Takes([insecure |-> Has("insecure"), new |-> Has("insecure"), same |-> FALSE], modes)
      <4>1. Watches => Has("insecure")
        BY <3>1 DEF Watches, Forced, Has
      <4> QED
        BY <2>3, <3>1, <4>1 DEF Takes
    <3>2. CASE Takes([insecure |-> TRUE, new |-> TRUE, same |-> FALSE], Remember(n, ModeOf(n)))
      BY <2>3, <3>2 DEF Takes
    <3>3. CASE ModeOf(n) = "running" /\ Takes(NoTurn, Remember(n, ModeOf(n)))
      BY <2>2, <2>3, <3>3 DEF Takes, NoTurn
    <3>4. CASE Dry /\ NodeDone(n, TRUE, Remember(n, ModeOf(n)))
      BY <2>4, <2>5, <3>4 DEF Inert
    <3>5. CASE Goes("await", Remember(n, ModeOf(n)))
      BY <2>3, <3>5 DEF Goes, Remembered
    <3> QED
      BY <2>6, <3>1, <3>2, <3>3, <3>4, <3>5 DEF Turn, Ends
  <2>7. CASE Await(n)
    BY <2>2, <2>3, <2>7 DEF Await, Takes, Ends, NoTurn
  <2>8. CASE First(n)
    <3>1. PICK s \in BOOLEAN : turn' = [turn EXCEPT !.same = s] /\ (s => ~turn.new)
      BY <2>8 DEF First, Ends
    <3>2. turn'.new = turn.new /\ turn'.same = s
      BY <1>0, <3>1
    <3>3. pc = "first" /\ pc' = "send" /\ UNCHANGED <<todo, modes>>
      BY <2>8 DEF First, Ends
    <3>4. Watches /\ ~turn.new => modes[n] = "running"
      BY <1>6, <3>3 DEF Remembered, TurnRuns
    <3> QED
      BY <2>3, <3>1, <3>2, <3>3, <3>4
  <2>9. CASE Show(n)
    BY <2>4, <2>5, <2>9 DEF Show, Ends
  <2>10. CASE Send(n)
    <3>1. pc = "send" /\ pc' = "wait" /\ UNCHANGED <<todo, modes, turn>>
      BY <2>10 DEF Send, GoesTo, Ends, Fails, Stops
    <3>2. Watches /\ ~turn.new => modes[n] = "running"
      BY <1>6, <3>1 DEF Remembered, TurnRuns
    <3> QED
      BY <2>3, <3>1, <3>2 DEF Remembered
  <2>11. CASE Wait(n)
    <3>1. pc = "wait" /\ (turn.same /\ Watches => modes[n] = "running")
      BY <1>6, <2>11 DEF Wait, Remembered, TurnRuns
    <3>2. Seen(n)[n] = "running" /\ \A m \in cmd.on \ todo : Seen(n)[m] = modes[m]
      BY <2>1, <2>2 DEF Seen
    <3>3. CASE \E b : NodeDone(n, b, modes) /\ turn.same
      BY <2>4, <2>5, <3>1, <3>3
    <3>4. CASE \E b : NodeDone(n, b, Seen(n))
      BY <2>4, <2>5, <3>2, <3>4
    <3>5. CASE ~Waits /\ \E b, mds : NodeDone(n, b, mds)
      BY <2>4, <2>5, <3>5 DEF Waits, Watches, Has
    <3>6. CASE Goes("bootstrap", modes) /\ turn.same
      BY <2>3, <3>1, <3>6 DEF Goes, Remembered
    <3>7. CASE Goes("bootstrap", Seen(n))
      BY <2>3, <3>2, <3>7 DEF Goes, Remembered, Seen
    <3> QED
      BY <2>11, <3>3, <3>4, <3>5, <3>6, <3>7 DEF Wait, Ends
  <2>12. CASE Bootstrap(n)
    <3>1. pc = "bootstrap" /\ pc' = "etcd" /\ UNCHANGED <<todo, modes, turn>>
      BY <2>12 DEF Bootstrap, GoesTo, Ends, Fails, Stops
    <3>2. Watches => modes[n] = "running"
      BY <1>6, <3>1 DEF Remembered, TurnRuns
    <3> QED
      BY <2>3, <3>1, <3>2 DEF Remembered
  <2>13. CASE WaitForEtcd(n)
    <3>1. pc = "etcd" /\ pc' = "turn" /\ todo' = todo \ {n} /\ turn' = NoTurn /\ UNCHANGED modes
      BY <2>13 DEF WaitForEtcd, Advances, Finishes, Ends
    <3>2. Watches => modes[n] = "running"
      BY <1>6, <3>1 DEF Remembered, TurnRuns
    <3> QED
      BY <2>4, <3>1, <3>2
  <2> QED
    BY <1>6, <2>6, <2>7, <2>8, <2>9, <2>10, <2>11, <2>12, <2>13 DEF OneNode
<1> QED
  BY <1>5, <1>6

LEMMA RememberedKept ==
  ASSUME TypeOK, Walk, Stage, Remembered, [Next]_vars
  PROVE  Remembered'
<1>0. /\ MachinesTypeOK /\ RunTypeOK
      /\ pc # "idle" => cmd.on \subseteq Nodes
  BY Running DEF TypeOK, Command
<1>1. CASE pc' \in {"idle"} \cup ResetPcs /\ turn' \in {turn, NoTurn}
  BY <1>1 DEF Remembered, ResetPcs, NodePcs, NoTurn
<1>2. CASE pc = "reset" \/ UNCHANGED vars
  <2>1. CASE UNCHANGED vars
    BY <2>1 DEF vars, machines, run, Remembered, Known, TurnRuns, Watches, Inert, Dry, Staged, Has, IsNext, Early
  <2>2. CASE pc = "reset" /\ Next /\ ~UNCHANGED run
    <3>1. pc' \in {"idle"} \cup ResetPcs /\ turn' \in {turn, NoTurn}
      BY <2>2 DEF Next, ApplyStep, RefuseFlags, Check, Confirm, Gate, RefuseNewNodes, StartBootstrap, OnboardOnly, StartAll, Probe,
         OneNode, Turn, Await, First, Show, Send, Wait, Bootstrap, WaitForEtcd, Terminal, Killed, Type,
         ResetStep, Order, Agree, WipeOne, WipeFails, Ends, ResetPcs
    <3> QED
      BY <1>1, <3>1
  <2>3. CASE pc = "reset" /\ UNCHANGED run
    BY <1>1, <2>3 DEF run, ResetPcs
  <2> QED
    BY <1>2, <2>1, <2>2, <2>3
<1>3. CASE pc # "reset" /\ Next
  <2>1. set \ booting \subseteq set' \ booting'
    BY <1>3, StaysBooted
  <2>2. CASE MachineStep /\ UNCHANGED run
    BY <2>1, <2>2 DEF run, Remembered, Known, TurnRuns, Watches, Inert, Dry, Staged, Has, IsNext, Early
  <2>3. CASE Gate \/ \E n \in todo : IsNext(n) /\ OneNode(n)
    <3>1. CASE pc' = "idle"
      <4>1. turn' = NoTurn
        <5>1. CASE Ends(Hint) \/ Ends(NoCommand)
          BY <5>1 DEF Ends
        <5> QED
          BY <2>3, <3>1, <5>1 DEF Gate, Goes, OneNode, Turn, Await, First, Show, Send, Wait, Bootstrap, WaitForEtcd,
             NodeDone, Advances, Finishes, Takes, Fails, Stops, GoesTo, Ends
      <4> QED
        BY <1>1, <3>1, <4>1
    <3> QED
      BY <2>1, <2>3, <3>1, NodeRemembers
  <2>4. ASSUME pc \in {"probe", "check", "confirm", "screen"}, pc' \in {"probe", "check", "confirm", "screen"}, UNCHANGED <<modes, turn>>
        PROVE  Remembered'
    BY <2>4 DEF Remembered, NodePcs
  <2>5. CASE RefuseFlags \/ Check \/ Confirm \/ RefuseNewNodes \/ \E c \in CPs : Probe(c)
    <3>1. (pc' = "idle" /\ turn' = NoTurn)
          \/ (/\ pc \in {"probe", "check", "confirm", "screen"} /\ pc' \in {"probe", "check", "confirm", "screen"}
              /\ UNCHANGED <<modes, turn>>)
      BY <2>5 DEF RefuseFlags, Check, Confirm, RefuseNewNodes, Probe, GoesTo, Stops, Ends
    <3> QED
      BY <1>1, <2>4, <3>1
  <2>6. CASE StartBootstrap \/ OnboardOnly \/ StartAll
    <3>1. CASE Stops(NoCommand)
      BY <1>1, <3>1 DEF Stops, Ends
    <3>2. CASE ~Stops(NoCommand)
      <4>1. PICK S : /\ pc = "screen" /\ Starts(S)
                     /\ \A n \in cmd.on \ S : ModeOf(n) = "running"
        <5>1. Boot /\ pc = "screen" => cmd.on = Nodes
          BY DEF Walk, ApplyPcs
        <5>2. ASSUME NEW n, ModeOf(n) # "unreachable", ModeOf(n) # "maintenance"
              PROVE  ModeOf(n) = "running"
          BY <5>2, ModeType DEF Modes
        <5>3. CASE StartBootstrap
          BY <3>2, <5>1, <5>3 DEF StartBootstrap
        <5>4. CASE OnboardOnly
          BY <3>2, <5>2, <5>4 DEF OnboardOnly, StartsOn
        <5>5. CASE StartAll
          BY <3>2, <5>5 DEF StartAll, StartsOn
        <5> QED
          BY <2>6, <5>3, <5>4, <5>5
      <4>2. /\ pc' = "turn" /\ todo' = S /\ modes = NotAsked
            /\ UNCHANGED <<machines, cmd, modes, turn>>
        BY <4>1 DEF Starts, Remembered
      <4>3. ASSUME NEW n \in cmd'.on \ todo'
            PROVE  Known(n)'
        <5>1. n \in joined /\ n \in Nodes
          BY <1>0, <4>1, <4>2, <4>3 DEF ModeOf
        <5>2. n \in set' \ booting'
          BY <1>0, <4>2, <5>1 DEF machines, MachinesTypeOK
        <5>3. modes'[n] = "unasked"
          BY <4>2, <5>1 DEF NotAsked
        <5> QED
          BY <5>2, <5>3 DEF Known
      <4> QED
        BY <4>2, <4>3 DEF Remembered
    <3> QED
      BY <3>1, <3>2
  <2>7. CASE Terminal
    <3>1. CASE Killed
      BY <1>1, <3>1 DEF Killed, Ends
    <3>2. CASE \E c \in Commands \cup {hint} : Type(c)
      <4>1. pc' \in {"probe", "order"} /\ modes' = NotAsked /\ UNCHANGED turn
        BY <3>2 DEF Type, Walk
      <4> QED
        BY <4>1 DEF Remembered, NodePcs
    <3> QED
      BY <2>7, <3>1, <3>2 DEF Terminal
  <2>8. CASE ResetStep
    <3>1. pc' \in {"idle"} \cup ResetPcs /\ turn' \in {turn, NoTurn}
      BY <2>8 DEF ResetStep, Order, Agree, WipeOne, WipeFails, GoesTo, Ends, ResetPcs
    <3> QED
      BY <1>1, <3>1
  <2> QED
    BY <1>3, <2>2, <2>3, <2>5, <2>6, <2>7, <2>8 DEF Next, ApplyStep
<1> QED
  BY <1>2, <1>3

(* notInCluster carries answers from turn to turn; applyOne overwrites or  *)
(* forgets a node's once its config is in, so when the gate stands down    *)
(* over a cluster that is not whole, there is a node still to onboard, or  *)
(* one this run is not about.                                              *)
THEOREM GateStays == Spec => GateNotHeldDown
<1>1. Init => Stage /\ Remembered
  BY DEF Init, RunInit, Stage, Remembered, NoTurn, NodePcs
<1>2. Init => Data /\ Probing /\ Alone
  <2> SUFFICES ASSUME Init PROVE Data /\ Probing /\ Alone
    OBVIOUS
  <2>1. Data
    BY NodesThere DEF Init, MachinesInit, AllFresh, AllBuilt, Data
  <2> QED
    BY <2>1 DEF Init, RunInit, Probing, Alone
<1>3. ASSUME TypeOK, Walk, Remembered, [Next]_vars
      PROVE  [pc = "gate" /\ pc' = "turn" /\ ~Healthy /\ cmd.flags \cap {"wait=false", "insecure=false"} = {} =>
                \E n \in Nodes : modes'[n] = "maintenance" /\ n \in (Nodes \ cmd.on) \cup todo]_vars
  <2> SUFFICES ASSUME pc = "gate", pc' = "turn", ~Healthy, Watches
               PROVE  \E n \in Nodes : modes'[n] = "maintenance" /\ n \in (Nodes \ cmd.on) \cup todo
    BY DEF Watches
  <2> DEFINE known == [n \in Nodes |-> IF modes[n] = "unasked" THEN ModeOf(n) ELSE modes[n]]
  <2>1. Next /\ ~UNCHANGED pc
    BY <1>3 DEF vars, run
  <2>2. Gate
    <3>1. ASSUME NEW n \in todo PROVE ~OneNode(n)
      BY DEF OneNode, Turn, Await, First, Show, Send, Wait, Bootstrap, WaitForEtcd
    <3>2. ~ResetStep
      BY DEF ResetStep, Order, Agree, WipeOne, WipeFails
    <3>3. ~Terminal
      BY DEF Terminal, Killed, Ends, Type
    <3>4. ~(MachineStep /\ UNCHANGED run)
      BY <2>1 DEF run
    <3> QED
      BY <2>1, <3>1, <3>2, <3>3, <3>4 DEF Next, ApplyStep, RefuseFlags, Check, Confirm, RefuseNewNodes, StartBootstrap, OnboardOnly, StartAll, Probe
  <2>3. modes' = known /\ \E n \in Nodes : known[n] = "maintenance"
    BY <2>2 DEF Gate, Goes, Ends
  <2>4. PICK n \in Nodes : known[n] = "maintenance"
    BY <2>3
  <2>5. CASE n \in cmd.on \ todo
    <3>1. Known(n)
      BY <1>3, <2>5 DEF Remembered, NodePcs
    <3> QED
      BY <2>4, <3>1 DEF Known, ModeOf
  <2> QED
    BY <2>3, <2>4, <2>5
<1> QED
  BY <1>1, <1>2, <1>3, InitTypes, NextTypes, AloneKept, RememberedKept, PTL DEF Spec, GateNotHeldDown
=============================================================================
