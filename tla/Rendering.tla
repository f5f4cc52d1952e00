----------------------------- MODULE Rendering ------------------------------
(***************************************************************************)
(* `talman render` (cli/render.go, render/render.go, render/write.go): the *)
(* bundle is opened once, the nodes are rendered in parallel over a shared *)
(* cache of schematics, and only then is anything written.  A command that *)
(* only reaches the cluster makes a missing talosconfig the same way.      *)
(***************************************************************************)
EXTENDS Commands

(* ensureTalosconfig: only a missing one is made. *)
EnsureTalosconfig(p) ==
  /\ At(p, "reach", "start")
  /\ IF Exists(Talosconfig) THEN Ended(p, "done") ELSE Go(p, "open")
  /\ UNCHANGED <<diskVars, world>>

(* Open: without a bundle there is nothing to render from. *)
Open(p) ==
  /\ At(p, "render", "start") \/ At(p, "reach", "open")
  /\ LET opened == [proc[p] EXCEPT !.held = seen[Bundle].of]
     IN IF ~Exists(Bundle) THEN Ended(p, "failed")
        ELSE IF proc[p].cmd = "reach" THEN Prepare(p, opened, "pointing")
        ELSE Become(p, [opened EXCEPT !.at = "nodes"])
  /\ UNCHANGED <<diskVars, world>>

(* A mutation of Key: by the schematic alone, wherever it is sent. *)
KeySchematic(n) == CHOOSE k \in Keys : k[2] = SchematicOf[n]

(* A mutation of Key: the one that does without a factory, as offline. *)
KeyOffline(n) == <<"", SchematicOf[n]>>

(* By the factory as well: each has to be told what it is to build.        *)
Key(n) == <<FactoryOf[n], SchematicOf[n]>>

(* schematicID: the lock covers the cache, not the submission below it, so *)
(* two nodes may submit the same schematic.  Without --submit the ID is    *)
(* computed.                                                               *)
LookUp(p, n) ==
  /\ proc[p].node[n] = "todo"
  /\ Become(p, [proc[p] EXCEPT !.node[n] =
                  IF proc[p].flag /\ Key(n) \notin proc[p].cache THEN "asked" ELSE "done"])
  /\ UNCHANGED registered

Submit(p, n) ==
  /\ proc[p].node[n] = "asked"
  /\ registered' = registered \cup {<<FactoryOf[n], SchematicOf[n]>>}
  /\ Become(p, [proc[p] EXCEPT !.node[n] = "done", !.cache = @ \cup {Key(n)}])

(* Node: its schematic, then its patches and its config, in memory.        *)
RenderNode(p) ==
  /\ At(p, "render", "nodes")
  /\ \E n \in Nodes : LookUp(p, n) \/ Submit(p, n)
  /\ UNCHANGED <<diskVars, count, clock, theirs, settled, cut>>

(* eachNode: no error and every result, or nothing is written; and nothing *)
(* is for --stdout and --dry-run.                                          *)
Rendered(p) ==
  /\ At(p, "render", "nodes")
  /\ \A n \in Nodes : proc[p].node[n] = "done"
  /\ Prepare(p, proc[p], "write") \/ Ended(p, "done")
  /\ UNCHANGED <<diskVars, world>>

(* WriteAll: the results in order, and then, unless told not to, the       *)
(* talosconfig.                                                            *)
WriteConfig(p) ==
  /\ At(p, "render", "write")
  /\ IF proc[p].next < Len(Order)
       THEN /\ Rename(Order[proc[p].next + 1],
                      File(IF proc[p].flag THEN "submitted" ELSE "config", proc[p].held))
            /\ Become(p, [proc[p] EXCEPT !.next = @ + 1])
       ELSE /\ Ended(p, "done") \/ Prepare(p, proc[p], "pointing")
            /\ UNCHANGED diskVars
  /\ UNCHANGED world

(* WriteTalosconfig: generated with no endpoints, and pointed at the       *)
(* cluster, in the workspace; then it replaces the one in use.             *)
WriteTalosconfig(p) ==
  \/ /\ proc[p].at = "pointing" /\ Go(p, "bare")
     /\ UNCHANGED <<diskVars, world>>
  \/ /\ proc[p].at = "bare" /\ Go(p, "pointed")
     /\ UNCHANGED <<diskVars, world>>
  \/ /\ proc[p].at = "pointed"
     /\ Rename(Talosconfig, File("talosconfig", proc[p].held))
     /\ Ended(p, "done")
     /\ UNCHANGED world

RenderStep(p) ==
  EnsureTalosconfig(p) \/ Open(p) \/ RenderNode(p) \/ Rendered(p) \/ WriteConfig(p) \/ WriteTalosconfig(p)
=============================================================================
