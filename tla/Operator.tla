------------------------------ MODULE Operator ------------------------------
(***************************************************************************)
(* One operator at one terminal: the command that runs, how far it has     *)
(* come, and the command its last words say to go on with.  Apply and      *)
(* Reset are what the command does.                                        *)
(***************************************************************************)
EXTENDS Machines

CONSTANTS
  Commands,     \* what the operator may type, hints aside
  MaxCommands   \* how many commands are typed

Flags == {"bootstrap", "onboard-new-nodes", "only-new-nodes", "dry-run", "diff", "insecure",
          "insecure=false", "wait=false", "staged", "health", "yes", "graceful", "graceful=false"}

Command == [kind : {"apply", "reset"}, on : SUBSET Nodes, flags : SUBSET Flags]

ASSUME CommandsAssumption ==
  /\ Commands \subseteq Command
  /\ MaxCommands \in Nat

NoCommand == [kind |-> "none", on |-> {}, flags |-> {}]

VARIABLES
  cmd,       \* the command that runs
  pc,        \* what it does next, "idle" between commands
  probe,     \* what each control plane answered at the start
  modes,     \* the API each node is remembered to answer on
  todo,      \* the nodes it has yet to finish
  turn,      \* how the node whose turn it is answered
  built,     \* this run has bootstrapped etcd
  asked,     \* the operator said configured control planes may be bootstrapped
  hint,      \* the command it says to go on with
  doomed,    \* the control planes a chain of resets set out to wipe
  typed      \* commands typed so far

run == <<cmd, pc, probe, modes, todo, turn, built, asked, hint, doomed, typed>>
vars == <<machines, run>>

Has(f) == f \in cmd.flags

Modes == {"maintenance", "running", "unreachable"}
NoTurn == [insecure |-> FALSE, new |-> FALSE, same |-> FALSE]
NotProbed == [c \in CPs |-> "unasked"]
NotAsked == [n \in Nodes |-> "unasked"]

(* talman.yaml lists n before m. *)
Before(n, m) == \E i, j \in DOMAIN Config : i < j /\ Config[i] = n /\ Config[j] = m

FirstCP == CHOOSE c \in CPs : \A d \in CPs \ {c} : Before(c, d)

(* The nodes that go before the rest: of a reset the workers, as a graceful *)
(* one needs a control plane still serving, and of a bootstrap the control *)
(* plane that etcd starts on.                                              *)
Early ==
  {n \in todo : \/ cmd.kind = "reset" /\ n \in Workers
                \/ cmd.kind = "apply" /\ Has("bootstrap") /\ ~Has("dry-run") /\ n = FirstCP}

(* It is n's turn: otherwise nodes go as talman.yaml orders them. *)
IsNext(n) ==
  /\ n \in todo
  /\ IF Early = {} THEN \A m \in todo \ {n} : Before(n, m)
                   ELSE n \in Early /\ \A m \in Early \ {n} : Before(n, m)

ApplyPcs == {"probe", "check", "confirm", "screen", "turn", "await", "first", "send",
             "wait", "gate", "bootstrap", "etcd"}
ResetPcs == {"order", "agree", "reset"}

RunTypeOK ==
  /\ cmd \in Command \cup {NoCommand}
  /\ pc \in {"idle"} \cup ApplyPcs \cup ResetPcs
  /\ probe \in [CPs -> {"unasked", "unknown", "stopped"} \cup Modes]
  /\ modes \in [Nodes -> {"unasked"} \cup Modes]
  /\ todo \subseteq Nodes
  /\ turn \in [insecure : BOOLEAN, new : BOOLEAN, same : BOOLEAN]
  /\ built \in BOOLEAN
  /\ asked \in BOOLEAN
  /\ hint \in Command \cup {NoCommand}
  /\ hint # NoCommand => hint.on # {}
  /\ doomed \subseteq CPs
  /\ typed \in 0 .. MaxCommands

RunInit ==
  /\ cmd = NoCommand
  /\ pc = "idle"
  /\ probe = NotProbed
  /\ modes = NotAsked
  /\ todo = {}
  /\ turn = NoTurn
  /\ built = FALSE
  /\ asked = FALSE
  /\ hint = NoCommand
  /\ doomed = {}
  /\ typed = 0

(* The operator types a command: one of their own, or the one last hinted. *)
Type(c) ==
  /\ pc = "idle"
  /\ typed < MaxCommands
  /\ c \in (Commands \cup {hint}) \ {NoCommand}
  /\ typed' = typed + 1
  /\ cmd' = c
  /\ pc' = IF c.kind = "apply" THEN "probe" ELSE "order"
  /\ hint' = NoCommand
  /\ doomed' = (IF c = hint THEN doomed ELSE {}) \cup (IF c.kind = "reset" THEN c.on \cap CPs ELSE {})
  /\ UNCHANGED <<machines, probe, modes, todo, turn, built, asked>>

(* The command ends, and takes what it knew with it but for the hint h.    *)
Ends(h) ==
  /\ cmd' = NoCommand
  /\ pc' = "idle"
  /\ hint' = h
  /\ probe' = NotProbed
  /\ modes' = NotAsked
  /\ todo' = {}
  /\ turn' = NoTurn
  /\ built' = FALSE
  /\ asked' = FALSE
  /\ UNCHANGED <<doomed, typed>>

(* It is killed, and says nothing. *)
Killed ==
  /\ pc # "idle"
  /\ Ends(NoCommand)
  /\ UNCHANGED machines

GoesTo(q) ==
  /\ pc' = q
  /\ UNCHANGED <<cmd, probe, modes, todo, turn, built, asked, hint, doomed, typed>>
=============================================================================
