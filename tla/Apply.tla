------------------------------- MODULE Apply -------------------------------
(***************************************************************************)
(* `talman apply`, `apply --bootstrap` included, one node at a time: the   *)
(* control planes are probed, new nodes screened, and each node asked      *)
(* which API it answers, perhaps asked what would change, sent its config  *)
(* and waited for, with the health gate in between.  A bootstrap does the  *)
(* first control plane, then etcd on it, then the rest.  Batches, waves    *)
(* and the soak are Rollout's; rendering comes before any of this.         *)
(***************************************************************************)
EXTENDS Operator

Boot == Has("bootstrap")
Dry == Has("dry-run")
Staged == Has("staged")
Waits == ~Has("wait=false")
Inert == Dry \/ Staged
Forced == Has("insecure") \/ Has("insecure=false")
Onboards == Boot \/ Has("onboard-new-nodes") \/ Has("only-new-nodes")

(* A mutation of Left: the node that failed is taken for done. *)
LeftPast == {m \in todo : ~IsNext(m)}

(* The nodes still to do, the one that failed among them. *)
Left == todo

(* --bootstrap builds the whole cluster, asking and waiting for each node. *)
BootstrapFlagsAllowed ==
  /\ cmd.on = Nodes
  /\ cmd.flags \cap {"insecure", "insecure=false", "wait=false", "staged", "only-new-nodes"} = {}

(* What the run says to go on with when it stops here: until etcd is       *)
(* bootstrapped, the run again; after, an apply that onboards the rest.    *)
Hint ==
  CASE ~Boot -> [cmd EXCEPT !.on = Left]
    [] Boot /\ ~built -> [cmd EXCEPT !.flags = @ \ {"yes"}]
    [] Boot /\ built -> [cmd EXCEPT !.on = Left,
                           !.flags = (@ \ {"bootstrap", "yes"}) \cup {"onboard-new-nodes"}]

Stops(h) == Ends(h) /\ UNCHANGED machines

RefuseFlags ==
  /\ pc = "probe"
  /\ Boot /\ ~BootstrapFlagsAllowed
  /\ Stops(NoCommand)

(* Every control plane is asked what it is, all at once; whether one runs  *)
(* etcd may stay unknown.                                                  *)
Probe(c) ==
  /\ pc = "probe"
  /\ Boot => BootstrapFlagsAllowed
  /\ probe[c] = "unasked"
  /\ LET answers(a) == probe' = [probe EXCEPT ![c] = a]
     IN \/ ModeOf(c) # "running" /\ answers(ModeOf(c)) /\ UNCHANGED machines
        \/ ModeOf(c) = "running" /\ answers(EtcdOf(c)) /\ UNCHANGED machines
        \/ /\ ModeOf(c) = "running" /\ answers("unknown")
           /\ Fault
           /\ UNCHANGED <<up, set, booting, joined, drift, etcd, serving, member, born>>
  /\ UNCHANGED <<cmd, pc, modes, todo, turn, built, asked, hint, doomed, typed>>

Answers == Range(probe)
AllNew == Answers = {"maintenance"}

(* A mutation of Bootstrappable: a control plane that is down is passed over. *)
BootstrappableDown == Answers \cap {"unknown", "running"} = {}

(* Every control plane answered, and none runs etcd. *)
Bootstrappable == Answers \cap {"unreachable", "unknown", "running"} = {}

(* There is a cluster to configure or, for --bootstrap, none to split.     *)
Check ==
  /\ pc = "probe"
  /\ "unasked" \notin Answers
  /\ \/ Boot /\ ~Bootstrappable /\ Stops(NoCommand)
     \/ /\ Boot /\ Bootstrappable
        /\ GoesTo(IF Dry \/ "stopped" \notin Answers THEN "screen" ELSE "confirm")
        /\ UNCHANGED machines
     \/ /\ ~Boot /\ AllNew /\ ~Dry
        /\ Stops([kind |-> "apply", on |-> Nodes, flags |-> {"bootstrap"}])
     \/ /\ ~Boot /\ (AllNew => Dry)
        /\ GoesTo("screen")
        /\ UNCHANGED machines

(* Control planes are configured but run no etcd: --yes, or the cluster's  *)
(* name, says it was never bootstrapped.                                   *)
Confirm ==
  /\ pc = "confirm"
  /\ \/ /\ asked' = TRUE
        /\ pc' = "screen"
        /\ UNCHANGED <<machines, cmd, probe, modes, todo, turn, built, hint, doomed, typed>>
     \/ ~Has("yes") /\ Stops(NoCommand)

New(n) == IF n \in CPs THEN probe[n] = "maintenance" ELSE ModeOf(n) = "maintenance"

(* A pass that does not wait is refused where it reaches two control planes. *)
RefusesNotToWait(S) == ~Waits /\ ~Inert /\ Cardinality(S \cap CPs) > 1

Starts(S) ==
  /\ todo' = S
  /\ pc' = "turn"
  /\ UNCHANGED <<machines, cmd, probe, modes, turn, built, asked, hint, doomed, typed>>

StartsOn(S) ==
  \/ (S = {} \/ RefusesNotToWait(S)) /\ Stops(NoCommand)
  \/ S # {} /\ ~RefusesNotToWait(S) /\ Starts(S)

(* New nodes found before anything is sent, by a run that was not asked to *)
(* configure any.                                                          *)
NewNodes == {n \in cmd.on : New(n)}
RefusesNew == ~Onboards /\ ~Forced /\ ~Dry /\ NewNodes # {}

RefuseNewNodes ==
  /\ pc = "screen"
  /\ RefusesNew
  /\ Stops([kind |-> "apply", on |-> NewNodes, flags |-> {"onboard-new-nodes"}])

(* A bootstrap takes every node; a dry one only plans, unless it is to show *)
(* what would change.                                                      *)
StartBootstrap ==
  /\ pc = "screen"
  /\ Boot
  /\ \/ Dry /\ ~Has("diff") /\ Stops(NoCommand)
     \/ (Dry => Has("diff")) /\ Starts(Nodes)

(* The new nodes are all the run is for, if every node says what it is.    *)
OnboardOnly ==
  /\ pc = "screen"
  /\ Has("only-new-nodes")
  /\ \/ /\ \E n \in cmd.on : ModeOf(n) = "unreachable"
        /\ Stops(NoCommand)
     \/ /\ \A n \in cmd.on : ModeOf(n) # "unreachable"
        /\ StartsOn({n \in cmd.on : ModeOf(n) = "maintenance"})

StartAll ==
  /\ pc = "screen"
  /\ ~Boot /\ ~Has("only-new-nodes") /\ ~RefusesNew
  /\ StartsOn(cmd.on)

-----------------------------------------------------------------------------
(* One node.                                                               *)

Fails == Stops(Hint)

(* What is remembered of n's API. *)
Remember(n, m) == [modes EXCEPT ![n] = m]

Goes(q, mds) ==
  /\ pc' = q
  /\ modes' = mds
  /\ UNCHANGED <<cmd, probe, todo, turn, built, asked, hint, doomed, typed>>

(* n is done with, the others to come. *)
Advances(n, q, mds, b) ==
  /\ todo # {n}
  /\ todo' = todo \ {n}
  /\ turn' = NoTurn
  /\ pc' = q
  /\ modes' = mds
  /\ built' = b
  /\ UNCHANGED <<cmd, probe, asked, hint, doomed, typed>>

Finishes(n) == todo = {n} /\ Ends(NoCommand)

(* A node is done with; the gate looks before the next if this one acted.  *)
NodeDone(n, acted, mds) ==
  \/ Advances(n, IF Has("health") /\ acted /\ ~Inert THEN "gate" ELSE "turn", mds, built)
  \/ Finishes(n)

Takes(t, mds) ==
  /\ turn' = t
  /\ pc' = "first"
  /\ modes' = mds
  /\ UNCHANGED <<cmd, probe, todo, built, asked, hint, doomed, typed>>

(* A mutation of MayConfigure: a new node is configured because it is there. *)
MayConfigureAny(m) == m \in Modes

(* A node answering this may be gone on with: a new one only when asked.   *)
MayConfigure(m) == m = "maintenance" => Onboards \/ Dry

(* Which API does it answer?  --insecure says, and asks nothing.           *)
Turn(n) ==
  /\ pc = "turn"
  /\ LET m == ModeOf(n)
         known == Remember(n, m)
     IN \/ /\ Forced
           /\ Takes([insecure |-> Has("insecure"), new |-> Has("insecure"), same |-> FALSE], modes)
        \/ ~Forced /\ ~MayConfigure(m) /\ Ends(Hint)
        \/ ~Forced /\ m = "maintenance" /\ MayConfigure(m)
           /\ Takes([insecure |-> TRUE, new |-> TRUE, same |-> FALSE], known)
        \/ ~Forced /\ m = "running" /\ MayConfigure(m) /\ Takes(NoTurn, known)
        \/ ~Forced /\ m = "unreachable" /\ Boot /\ Dry /\ NodeDone(n, TRUE, known)
        \/ ~Forced /\ m = "unreachable" /\ ~(Boot /\ Dry) /\ ~built /\ Ends(Hint)
        \/ ~Forced /\ m = "unreachable" /\ built /\ Goes("await", known)
  /\ UNCHANGED machines

(* A quiet node is given the cluster this run made to join.                *)
Await(n) ==
  /\ pc = "await"
  /\ \/ ModeOf(n) = "running" /\ Takes(NoTurn, Remember(n, "running"))
     \/ Ends(Hint)
  /\ UNCHANGED machines

AsksFirst == ~Dry /\ (Has("diff") \/ Has("health") \/ (Waits /\ ~Staged))

(* What would change?  A new node is not asked: all of it.                 *)
First(n) ==
  /\ pc = "first"
  /\ LET answers == AsksFirst /\ ~turn.new /\ Accepts(n, turn.insecure)
         silent == AsksFirst /\ ~turn.new /\ ~Accepts(n, turn.insecure)
     IN \/ silent /\ Has("diff") /\ Ends(Hint)
        \/ /\ silent => ~Has("diff")
           /\ turn' = [turn EXCEPT !.same = answers /\ n \notin drift]
           /\ pc' = "send"
           /\ UNCHANGED <<cmd, probe, modes, todo, built, asked, hint, doomed, typed>>
  /\ UNCHANGED machines

(* The config goes out, or is only asked about; a staged one lands later.  *)
Show(n) ==
  /\ pc = "send"
  /\ Inert
  /\ \/ /\ (turn.new /\ Dry) \/ Accepts(n, turn.insecure)
        /\ NodeDone(n, ~turn.same, modes)
     \/ /\ ~(turn.new /\ Dry) /\ ~Accepts(n, turn.insecure)
        /\ Ends(Hint)
  /\ UNCHANGED machines

Send(n) ==
  /\ pc = "send"
  /\ ~Inert
  /\ \/ ~Accepts(n, turn.insecure) /\ Fails
     \/ Accepts(n, turn.insecure) /\ Configured(n) /\ GoesTo("wait") /\ UNCHANGED faults
     \/ Accepts(n, turn.insecure) /\ Configured(n) /\ Ends(Hint) /\ Fault

(* A mutation of Seen: what the node was before its config is remembered. *)
SeenBefore(n) == modes

(* Seen back on the secure API, it is in the cluster whatever it was.      *)
Seen(n) == Remember(n, "running")

(* It comes back, or the run gives up on it; one the config changes        *)
(* nothing on goes nowhere, and one not waited for is asked again.  The    *)
(* first control plane of a build is bootstrapped next.                    *)
Wait(n) ==
  /\ pc = "wait"
  /\ LET done(acted, mds) ==
           IF Boot /\ ~built THEN Goes("bootstrap", mds) ELSE NodeDone(n, acted, mds)
     IN \/ Waits /\ turn.same /\ done(FALSE, modes)
        \/ Waits /\ ~turn.same /\ ModeOf(n) = "running" /\ done(TRUE, Seen(n))
        \/ Waits /\ ~turn.same /\ Ends(Hint)
        \/ ~Waits /\ NodeDone(n, ~turn.same, Remember(n, "unasked"))
  /\ UNCHANGED machines

(* The gate stands down while a node is new, asking those not asked yet;   *)
(* otherwise the cluster has to be whole.                                  *)
Gate ==
  /\ pc = "gate"
  /\ LET known == [n \in Nodes |-> IF modes[n] = "unasked" THEN ModeOf(n) ELSE modes[n]]
         new == {n \in Nodes : known[n] = "maintenance"}
     IN \/ (new # {} \/ Healthy) /\ Goes("turn", known)
        \/ new = {} /\ ~Healthy /\ Ends(Hint)
  /\ UNCHANGED machines

(* etcd is bootstrapped on the first control plane; the reply may be lost, *)
(* and one that has data already refuses.                                  *)
Bootstrap(c) ==
  /\ pc = "bootstrap"
  /\ LET runs == ModeOf(c) = "running"
     IN \/ runs /\ etcd[c] = 0 /\ Bootstrapped(c) /\ GoesTo("etcd") /\ UNCHANGED faults
        \/ runs /\ etcd[c] = 0 /\ Bootstrapped(c) /\ Ends(Hint) /\ Fault
        \/ runs /\ etcd[c] # 0 /\ NotBootstrapped(c) /\ Ends(Hint) /\ UNCHANGED faults
        \/ ~runs /\ Fails

(* It starts in a while, or the run gives up: not to bootstrap again.      *)
WaitForEtcd(c) ==
  /\ pc = "etcd"
  /\ \/ c \in serving /\ Advances(c, "turn", modes, TRUE)
     \/ c \in serving /\ Finishes(c)
     \/ Ends([cmd EXCEPT !.flags = (@ \ {"bootstrap", "yes"}) \cup {"onboard-new-nodes"}])
  /\ UNCHANGED machines

OneNode(n) ==
  \/ Turn(n) \/ Await(n) \/ First(n) \/ Show(n) \/ Send(n) \/ Wait(n)
  \/ n \in CPs /\ (Bootstrap(n) \/ WaitForEtcd(n))

ApplyStep ==
  \/ RefuseFlags \/ Check \/ Confirm \/ Gate
  \/ RefuseNewNodes \/ StartBootstrap \/ OnboardOnly \/ StartAll
  \/ \E c \in CPs : Probe(c)
  \/ \E n \in todo : IsNext(n) /\ OneNode(n)
=============================================================================
