------------------------------ MODULE Commands ------------------------------
(***************************************************************************)
(* talman commands at work in one cluster directory, each a process that   *)
(* may fail at any of its steps or be killed between two.                  *)
(***************************************************************************)
EXTENDS Disk

CONSTANTS
  Procs,        \* the processes there can be at once
  FactoryOf,    \* the Image Factory each node's installer comes from
  SchematicOf   \* and its schematic

ASSUME CommandsAssumption == DOMAIN FactoryOf = Nodes /\ DOMAIN SchematicOf = Nodes

VARIABLES
  proc,       \* each process: its command and where that is
  count,      \* how many commands were run
  clock,      \* the second it is
  registered, \* the schematics each factory was sent
  theirs,     \* history: the paths the operator wrote
  settled,    \* history: the bundles a generate found in place, none other running, and could read
  cut         \* history: the files whose writing in place was cut short

world == <<count, clock, registered, theirs, settled, cut>>
vars == <<diskVars, proc, world>>

Schematics == {<<FactoryOf[n], SchematicOf[n]>> : n \in Nodes}
Keys == Schematics

InPlace == {ConfigFile, SopsFile, Ignore}  \* opened and written, not replaced

Over == {"idle", "done", "failed"}
Places == Over \cup
  {"start", "read", "name", "keep", "replace",                       \* generate
   "mkdir", "create", "body", "load", "sops", "sopsbody", "undo", "rmdir",  \* init
   "open", "nodes", "write", "pointing", "bare", "pointed",          \* render
   "prepare", "unignored", "ignoring"}                               \* prepareOutput

Process ==
  [cmd : {"none", "generate", "init", "render", "reach"}, at : Places,
   serial : 0 .. MaxCommands,
   flag : BOOLEAN,                                   \* --force, --age, --submit
   held : 0 .. MaxCommands,                          \* the bundle it has opened
   old : Content, name : 0 .. MaxSeconds,            \* the bundle it is to keep, and where
   made : SUBSET {Dir, ConfigFile, SopsFile},        \* init's created and written
   next : 0 .. Len(Order),                           \* results written so far
   node : [Nodes -> {"todo", "asked", "done"}],      \* how far rendering each is
   cache : SUBSET Keys,                              \* schematicIDs
   then : Places]                                    \* where prepareOutput returns to

Idle ==
  [cmd |-> "none", at |-> "idle", serial |-> 0, flag |-> FALSE, held |-> 0, old |-> NoFile,
   name |-> 0, made |-> {}, next |-> 0, node |-> [n \in Nodes |-> "todo"], cache |-> {},
   then |-> "idle"]

CommandsTypeOK ==
  /\ proc \in [Procs -> Process]
  /\ count \in 0 .. MaxCommands /\ clock \in Backups
  /\ registered \subseteq Schematics
  /\ theirs \subseteq {ConfigFile, SopsFile, Ignore}
  /\ settled \subseteq 0 .. MaxCommands
  /\ cut \subseteq InPlace

At(p, cmd, at) == proc[p].cmd = cmd /\ proc[p].at = at
Runs(p, cmd) == proc[p].cmd = cmd /\ proc[p].at \notin Over
Become(p, r) == proc' = [proc EXCEPT ![p] = r]
Go(p, at) == Become(p, [proc[p] EXCEPT !.at = at])
Ended(p, how) == Become(p, [Idle EXCEPT !.cmd = proc[p].cmd, !.at = how, !.serial = proc[p].serial])

(* Off to prepareOutput, and to at from there. *)
Prepare(p, r, at) == Become(p, [r EXCEPT !.at = "prepare", !.then = at])

(* p has opened q and neither filled it nor taken it away.                 *)
Writing(p, q) ==
  \/ proc[p].at = "ignoring" /\ q = Ignore
  \/ proc[p].at = "body" /\ q = ConfigFile
  \/ proc[p].at = "sopsbody" /\ q = SopsFile
  \/ proc[p].at = "undo" /\ q \in proc[p].made

CutShort(p) == cut' = cut \cup {q \in InPlace : Writing(p, q) /\ seen[q].kind = "empty"}

(* MkdirAll and ensureGitignore's read: one that ignores everything is left *)
(* as it is, one of somebody else's is refused, and any other rewritten.   *)
PrepareOutput(p) ==
  /\ proc[p].at = "prepare"
  /\ CASE seen[Ignore].kind = "rule" -> Go(p, proc[p].then)
       [] seen[Ignore].kind \in {"operator", "empty"} -> Ended(p, "failed")
       [] OTHER -> Go(p, "unignored")
  /\ UNCHANGED <<diskVars, world>>

(* os.WriteFile: cut to nothing, then written. *)
WriteIgnore(p) ==
  /\ \/ proc[p].at = "unignored" /\ Truncate(Ignore) /\ Go(p, "ignoring") /\ UNCHANGED cut
     \/ /\ proc[p].at = "ignoring"
        /\ Fill(Ignore, File("rule", 0)) /\ Go(p, proc[p].then)
        /\ cut' = cut \ {Ignore}
  /\ UNCHANGED <<count, clock, registered, theirs, settled>>

(* Any step may fail; what init does about it is its own. *)
Fail(p) ==
  /\ proc[p].at \notin Over /\ proc[p].cmd # "init"
  /\ Ended(p, "failed") /\ CutShort(p)
  /\ UNCHANGED <<diskVars, count, clock, registered, theirs, settled>>

Kill(p) ==
  /\ proc[p].at \notin Over
  /\ Become(p, Idle) /\ CutShort(p)
  /\ UNCHANGED <<diskVars, count, clock, registered, theirs, settled>>

(* Every process dies with the machine, and the last writes with it.       *)
PowerLoss ==
  /\ kept # seen \/ \E p \in Procs : proc[p].at \notin Over
  /\ LosePower
  /\ proc' = [p \in Procs |-> Idle]
  /\ theirs' = {q \in theirs : kept[q].kind = "operator"}
  /\ cut' = {q \in InPlace : kept[q].kind = "empty"}
  /\ UNCHANGED <<count, clock, registered, settled>>
=============================================================================
