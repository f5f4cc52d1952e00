-------------------------- MODULE ClusterDirProofs --------------------------
(***************************************************************************)
(* For any nodes, processes and bounds, ClusterDir keeps its types, loses  *)
(* no bundle that was in place and could be read, renders no schematic its *)
(* factory does not have, and leaves no file half done but one written in  *)
(* place whose writing was cut short.                                      *)
(***************************************************************************)
EXTENDS ClusterDir, TLAPS

-----------------------------------------------------------------------------
(* Type correctness.                                                       *)

LEMMA PathsApart ==
  /\ Dir # ConfigFile /\ Dir # SopsFile /\ Dir # Bundle /\ Dir # Legacy /\ Dir # Ignore /\ Dir # Talosconfig
  /\ ConfigFile # SopsFile /\ ConfigFile # Bundle /\ ConfigFile # Legacy /\ ConfigFile # Ignore /\ ConfigFile # Talosconfig
  /\ SopsFile # Bundle /\ SopsFile # Legacy /\ SopsFile # Ignore /\ SopsFile # Talosconfig
  /\ Bundle # Legacy /\ Bundle # Ignore /\ Bundle # Talosconfig
  /\ Legacy # Ignore /\ Legacy # Talosconfig
  /\ Ignore # Talosconfig
<1> DEFINE s == <<Dir, ConfigFile, SopsFile, Bundle, Legacy, Ignore, Talosconfig>>
<1>1. \A i, j \in 1 .. 7 : s[i] = s[j] => i = j
  BY DiskAssumption DEF IsInjective
<1> QED
  BY <1>1

LEMMA SetsApart ==
  /\ {Dir, ConfigFile, SopsFile, Bundle, Legacy, Ignore, Talosconfig} \cap (Nodes \cup Backups) = {}
  /\ Nodes \cap Backups = {}
  BY DiskAssumption DEF Nodes, Backups

LEMMA PathsThere ==
  /\ {Dir, ConfigFile, SopsFile, Bundle, Legacy, Ignore, Talosconfig} \subseteq Paths
  /\ Nodes \subseteq Paths /\ Backups \subseteq Paths
  BY DEF Paths

LEMMA NodeInOrder == \A i \in 0 .. Len(Order) : i < Len(Order) => Order[i + 1] \in Nodes
<1>1. Len(Order) \in Nat /\ DOMAIN Order = 1 .. Len(Order)
  BY DiskAssumption
<1>2. \A i \in 0 .. Len(Order) : i < Len(Order) => i + 1 \in 1 .. Len(Order)
  BY <1>1
<1> QED
  BY <1>1, <1>2 DEF Nodes, Range

LEMMA Contents ==
  /\ \A k \in Kinds, i \in 0 .. MaxCommands : File(k, i) \in Content
  /\ NoFile \in Content /\ Empty \in Content
  BY DiskAssumption DEF File, Content, NoFile, Empty, Kinds

LEMMA IdleTypes == Idle \in Process
  BY DiskAssumption, Contents DEF Idle, Process, Places, Over

(* What holds of a process by itself: where it can be, that a backup has a *)
(* name by the time it is written and a bundle to hold, that nothing is    *)
(* written before every node is rendered, and what it takes for known.                   *)
Preparing == {"prepare", "unignored", "ignoring"}
ScaffoldPlaces == Over \cup {"start", "mkdir", "create", "body", "load", "sops", "sopsbody", "undo", "rmdir"}
GeneratePlaces == Over \cup {"start", "read", "name", "keep", "replace"}

Writes(r) == r.at = "write" \/ (r.at \in Preparing /\ r.then = "write")
Keeps(r) == r.at \in {"name", "keep"} \/ (r.at \in Preparing /\ r.then = "name")

Fit(r, reg) ==
  /\ r \in Process
  /\ r.then \in {"idle", "name", "write", "pointing"}
  /\ r.cmd = "generate" => r.at \in GeneratePlaces \/ (r.at \in Preparing /\ r.then = "name")
  /\ r.cmd = "init" => r.at \in ScaffoldPlaces
  /\ r.at = "keep" => r.name \in Backups
  /\ Keeps(r) => r.old # NoFile
  /\ Writes(r) => \A n \in Nodes : r.node[n] = "done"
  /\ r.cache \subseteq reg
  /\ \A n \in Nodes : r.node[n] = "done" /\ r.flag => Key(n) \in reg

AllFit == proc \in [Procs -> Process] /\ \A p \in Procs : Fit(proc[p], registered)

LEMMA IdleIsFit == ASSUME NEW reg PROVE Fit(Idle, reg)
<1>1. /\ Idle.at = "idle" /\ Idle.then = "idle" /\ Idle.cmd = "none" /\ Idle.cache = {} /\ Idle.flag = FALSE
  BY DEF Idle
<1> QED
  BY <1>1, IdleTypes DEF Fit, Over, Writes, Keeps, Preparing, GeneratePlaces, ScaffoldPlaces

LEMMA EndedIsFit ==
  ASSUME NEW cmd \in {"none", "generate", "init", "render", "reach"}, NEW at \in Over,
         NEW s \in 0 .. MaxCommands, NEW reg
  PROVE  Fit([Idle EXCEPT !.cmd = cmd, !.at = at, !.serial = s], reg)
<1> DEFINE r == [Idle EXCEPT !.cmd = cmd, !.at = at, !.serial = s]
<1>3. r \in Process
  BY IdleTypes DEF Process, Places
<1>4. r.at = at /\ r.then = "idle" /\ r.cmd = cmd /\ r.cache = {} /\ ~r.flag
  BY DEF Idle
<1> HIDE DEF r
<1>5. Fit(r, reg)
  BY <1>3, <1>4 DEF Fit, Over, Writes, Keeps, Preparing, GeneratePlaces, ScaffoldPlaces
<1> QED
  BY <1>5 DEF r

LEMMA BecomeFit ==
  ASSUME AllFit, NEW p \in Procs, NEW r, Become(p, r), Fit(r, registered'), registered \subseteq registered'
  PROVE  AllFit'
  BY DEF AllFit, Become, Fit

LEMMA GoFit ==
  ASSUME AllFit, NEW p \in Procs, NEW at \in Places \ (Preparing \cup {"name", "keep", "write"}), Go(p, at),
         proc[p].cmd = "generate" => at \in GeneratePlaces, proc[p].cmd = "init" => at \in ScaffoldPlaces,
         UNCHANGED registered
  PROVE  AllFit'
<1> DEFINE r == [proc[p] EXCEPT !.at = at]
<1>1. proc[p] \in Process /\ proc[p].then \in Places
  BY DEF AllFit, Process
<1>2. /\ r \in Process /\ r.at = at /\ r.then = proc[p].then /\ r.cmd = proc[p].cmd /\ r.flag = proc[p].flag
      /\ r.node = proc[p].node /\ r.cache = proc[p].cache
  BY <1>1 DEF Process
<1>3. Become(p, r)
  BY DEF Go
<1> HIDE DEF r
<1>4. Fit(r, registered)
  BY <1>2 DEF AllFit, Fit, Writes, Keeps
<1> QED
  BY <1>3, <1>4, BecomeFit

LEMMA EndedFit ==
  ASSUME AllFit, NEW p \in Procs, NEW how \in Over, Ended(p, how), UNCHANGED registered
  PROVE  AllFit'
<1>1. proc[p].cmd \in {"none", "generate", "init", "render", "reach"} /\ proc[p].serial \in 0 .. MaxCommands
  BY DEF AllFit, Process
<1>2. Fit([Idle EXCEPT !.cmd = proc[p].cmd, !.at = how, !.serial = proc[p].serial], registered')
  BY <1>1, EndedIsFit
<1> QED
  BY <1>2, BecomeFit DEF Ended

LEMMA PrepareFit ==
  ASSUME AllFit, NEW p \in Procs, NEW r, Fit(r, registered), NEW at \in {"name", "write", "pointing"}, Prepare(p, r, at),
         r.cmd = "generate" => at = "name", r.cmd # "init", at = "name" => r.old # NoFile,
         at = "write" => \A n \in Nodes : r.node[n] = "done",
         UNCHANGED registered
  PROVE  AllFit'
<1> DEFINE r1 == [r EXCEPT !.at = "prepare", !.then = at]
<1>1. r \in Process /\ at \in Places /\ "prepare" \in Places
  BY DEF Fit, Places
<1>2. /\ r1 \in Process /\ r1.at = "prepare" /\ r1.then = at /\ r1.cmd = r.cmd /\ r1.flag = r.flag
      /\ r1.old = r.old
      /\ r1.node = r.node /\ r1.cache = r.cache
  BY <1>1 DEF Process
<1>3. Become(p, r1)
  BY DEF Prepare
<1> HIDE DEF r1
<1>4. Fit(r1, registered)
  BY <1>2 DEF Fit, Writes, Keeps, Preparing
<1> QED
  BY <1>3, <1>4, BecomeFit

(* What is done to a file keeps the disk's types. *)
LEMMA RenameTypes ==
  ASSUME DiskTypeOK, NEW q \in Paths, NEW f \in Content, Rename(q, f)
  PROVE  DiskTypeOK'
  BY DEF DiskTypeOK, Rename

LEMMA InPlaceTypes ==
  ASSUME DiskTypeOK, NEW q \in Paths, NEW f \in Content, Truncate(q) \/ Fill(q, f)
  PROVE  DiskTypeOK'
  BY Contents DEF DiskTypeOK, Truncate, Fill

LEMMA RemoveTypes ==
  ASSUME DiskTypeOK, NEW S, Remove(S)
  PROVE  DiskTypeOK'
  BY Contents DEF DiskTypeOK, Remove

LEMMA FlushTypes == ASSUME DiskTypeOK, Flush PROVE DiskTypeOK'
  BY Contents DEF DiskTypeOK, Flush

LEMMA DiskStays == ASSUME DiskTypeOK, UNCHANGED diskVars PROVE DiskTypeOK'
  BY DEF DiskTypeOK, diskVars

Typed == DiskTypeOK /\ AllFit

LEMMA GenerateTypes ==
  ASSUME Typed, clock \in Backups, NEW p \in Procs, GenerateStep(p)
  PROVE  Typed' /\ UNCHANGED <<count, clock, registered, theirs, cut>> /\ settled' \subseteq settled
<1> USE DEF Typed
<1>w. UNCHANGED <<count, clock, registered, theirs, cut>> /\ settled' \subseteq settled
  BY DEF GenerateStep, CheckBundle, ReadOldBundle, NameBackup, KeepBundle, ReplaceBundle, world
<1>0. /\ proc[p] \in Process /\ Fit(proc[p], registered) /\ proc[p].old \in Content
      /\ proc[p].serial \in 0 .. MaxCommands /\ proc[p].cmd = "generate"
  BY DEF AllFit, Fit, Process, GenerateStep, CheckBundle, ReadOldBundle, NameBackup, KeepBundle, ReplaceBundle, At
<1>1. CASE CheckBundle(p)
  <2>1. UNCHANGED world /\ DiskTypeOK'
    BY <1>1, DiskStays DEF CheckBundle
  <2>2. CASE Ended(p, "failed")
    BY <1>w, <2>1, <2>2, EndedFit DEF Over
  <2>3. CASE Go(p, "read")
    BY <1>0, <1>w, <2>1, <2>3, GoFit DEF Over, Places, Preparing, GeneratePlaces, ScaffoldPlaces
  <2> QED
    BY <1>1, <2>1, <2>2, <2>3 DEF CheckBundle
<1>2. CASE ReadOldBundle(p)
  <2>1. UNCHANGED registered /\ DiskTypeOK'
    BY <1>w, <1>2, DiskStays DEF ReadOldBundle
  <2> DEFINE r == [proc[p] EXCEPT !.old = seen[Bundle]]
  <2>2. /\ r \in Process /\ r.at = proc[p].at /\ r.then = proc[p].then /\ r.cmd = proc[p].cmd
        /\ r.flag = proc[p].flag /\ r.node = proc[p].node /\ r.cache = proc[p].cache /\ r.name = proc[p].name
        /\ r.old = seen[Bundle] /\ proc[p].at = "read"
    BY <1>0, <1>2, PathsThere DEF Process, DiskTypeOK, ReadOldBundle, At
  <2> HIDE DEF r
  <2>3. Fit(r, registered)
    BY <1>0, <2>2 DEF Fit, Writes, Keeps, Preparing
  <2>4. CASE Exists(Bundle) /\ Prepare(p, r, "name")
    BY <1>0, <1>w, <2>1, <2>2, <2>3, <2>4, PrepareFit DEF Exists
  <2>5. CASE Go(p, "replace")
    BY <1>0, <1>w, <2>1, <2>5, GoFit DEF Over, Places, Preparing, GeneratePlaces, ScaffoldPlaces
  <2> QED
    BY <1>2, <2>1, <2>4, <2>5 DEF ReadOldBundle, r
<1>3. CASE NameBackup(p)
  <2>1. UNCHANGED world /\ DiskTypeOK'
    BY <1>3, DiskStays DEF NameBackup
  <2> DEFINE r == [proc[p] EXCEPT !.at = "keep", !.name = clock]
  <2>2. clock \in 0 .. MaxSeconds /\ "keep" \in Places
    BY DiskAssumption DEF Backups, Places
  <2>3. /\ r \in Process /\ r.at = "keep" /\ r.then = proc[p].then /\ r.cmd = proc[p].cmd
        /\ r.old = proc[p].old /\ proc[p].at = "name"
        /\ r.flag = proc[p].flag /\ r.node = proc[p].node /\ r.cache = proc[p].cache /\ r.name = clock
    BY <1>0, <1>3, <2>2 DEF Process, NameBackup, At
  <2> HIDE DEF r
  <2>4. Fit(r, registered)
    BY <1>0, <2>3 DEF Fit, Writes, Keeps, Preparing, GeneratePlaces, ScaffoldPlaces
  <2>5. CASE Ended(p, "failed")
    BY <1>w, <2>1, <2>5, EndedFit DEF Over
  <2>6. CASE Become(p, r)
    BY <1>w, <2>1, <2>4, <2>6, BecomeFit
  <2> QED
    BY <1>3, <2>1, <2>5, <2>6 DEF NameBackup, r
<1>4. CASE KeepBundle(p)
  <2>1. proc[p].name \in Backups
    BY <1>0, <1>4 DEF KeepBundle, At, Fit
  <2>2. DiskTypeOK'
    BY <1>0, <1>4, <2>1, PathsThere, RenameTypes DEF KeepBundle
  <2> QED
    BY <1>0, <1>w, <1>4, <2>2, GoFit DEF KeepBundle, Over, Places, Preparing, GeneratePlaces, ScaffoldPlaces
<1>5. CASE ReplaceBundle(p)
  <2>1. File("bundle", proc[p].serial) \in Content
    BY <1>0, Contents DEF Kinds
  <2>2. DiskTypeOK'
    BY <1>5, <2>1, PathsThere, RenameTypes DEF ReplaceBundle
  <2> QED
    BY <1>w, <1>5, <2>2, EndedFit DEF ReplaceBundle, Over
<1> QED
  BY <1>w, <1>1, <1>2, <1>3, <1>4, <1>5 DEF GenerateStep

LEMMA ScaffoldTypes ==
  ASSUME Typed, NEW p \in Procs, ScaffoldStep(p)
  PROVE  Typed' /\ UNCHANGED world
<1> USE DEF Typed
<1>0. /\ proc[p] \in Process /\ Fit(proc[p], registered) /\ proc[p].made \in SUBSET {Dir, ConfigFile, SopsFile}
      /\ proc[p].serial \in 0 .. MaxCommands
  BY DEF AllFit, Fit, Process
<1>w. UNCHANGED world
  BY DEF ScaffoldStep, CheckScaffold, MakeDir, CreateConfig, LoadConfig, CreateSops, Undo
<1>i. proc[p].cmd = "init"
  BY DEF ScaffoldStep, CheckScaffold, MakeDir, CreateConfig, LoadConfig, CreateSops, Undo, At
<1>f. /\ File("init", proc[p].serial) \in Content /\ File("dir", 0) \in Content
      /\ Dir \in Paths /\ ConfigFile \in Paths /\ SopsFile \in Paths
  BY <1>0, Contents, PathsThere, DiskAssumption DEF Kinds
<1>g. ASSUME NEW at \in {"create", "load", "sops", "undo", "rmdir"}, Go(p, at)
      PROVE  AllFit'
  BY <1>i, <1>w, <1>g, GoFit DEF Over, world, Places, Preparing, ScaffoldPlaces
<1>e. ASSUME NEW how \in Over, Ended(p, how)
      PROVE  AllFit'
  BY <1>w, <1>e, EndedFit DEF world
<1>b. ASSUME NEW at \in {"mkdir", "body", "sopsbody", "undo"}, NEW made \in SUBSET {Dir, ConfigFile, SopsFile},
             Become(p, [proc[p] EXCEPT !.at = at, !.made = made])
      PROVE  AllFit'
  <2> DEFINE r == [proc[p] EXCEPT !.at = at, !.made = made]
  <2>1. at \in Places
    BY DEF Places
  <2>2. /\ r \in Process /\ r.at = at /\ r.then = proc[p].then /\ r.cmd = proc[p].cmd
        /\ r.flag = proc[p].flag /\ r.node = proc[p].node /\ r.cache = proc[p].cache
    BY <1>0, <2>1 DEF Process
  <2>3. Become(p, r)
    BY <1>b
  <2> HIDE DEF r
  <2>4. Fit(r, registered)
    BY <1>0, <1>i, <2>2 DEF Fit, Writes, Keeps, Preparing, ScaffoldPlaces
  <2> QED
    BY <1>w, <2>3, <2>4, BecomeFit DEF world
<1>c. ASSUME NEW q \in {ConfigFile, SopsFile}, NEW to \in {"body", "sopsbody"}, Create(p, q, to)
      PROVE  Typed'
  <2>1. CASE Truncate(q) /\ Become(p, [proc[p] EXCEPT !.at = to, !.made = @ \cup {q}])
    BY <1>0, <1>b, <1>f, <2>1, InPlaceTypes, Contents
  <2>2. CASE UNCHANGED diskVars /\ Go(p, "undo")
    BY <1>g, <2>2, DiskStays
  <2> QED
    BY <1>c, <2>1, <2>2 DEF Create
<1>1. CASE CheckScaffold(p)
  <2>1. DiskTypeOK'
    BY <1>1, DiskStays DEF CheckScaffold
  <2>2. CASE Ended(p, "failed")
    BY <1>e, <1>w, <2>1, <2>2 DEF Over
  <2>3. CASE Become(p, [proc[p] EXCEPT !.at = "mkdir", !.made = IF Exists(Dir) THEN {} ELSE {Dir}])
    <3> DEFINE m == IF Exists(Dir) THEN {} ELSE {Dir}
    <3>1. m \in SUBSET {Dir, ConfigFile, SopsFile}
      OBVIOUS
    <3>2. Become(p, [proc[p] EXCEPT !.at = "mkdir", !.made = m])
      BY <2>3
    <3> HIDE DEF m
    <3> QED
      BY <1>b, <1>w, <2>1, <3>1, <3>2
  <2> QED
    BY <1>1, <2>2, <2>3 DEF CheckScaffold
<1>2. CASE MakeDir(p)
  <2>1. CASE Ended(p, "failed") /\ UNCHANGED diskVars
    BY <1>e, <1>w, <2>1, DiskStays DEF Over
  <2>2. CASE /\ Go(p, "create")
             /\ seen' = [seen EXCEPT ![Dir] = File("dir", 0)]
             /\ UNCHANGED <<dirty, kept>>
    <3>1. DiskTypeOK'
      BY <1>f, <2>2 DEF DiskTypeOK
    <3> QED
      BY <1>g, <1>w, <2>2, <3>1
  <2> QED
    BY <1>2, <2>1, <2>2 DEF MakeDir
<1>3. CASE CreateConfig(p)
  <2>1. CASE Create(p, ConfigFile, "body")
    BY <1>c, <1>w, <2>1
  <2>2. CASE WriteScaffold(p, ConfigFile, Go(p, "load"))
    BY <1>g, <1>w, <1>f, <2>2, InPlaceTypes, DiskStays DEF WriteScaffold
  <2> QED
    BY <1>3, <2>1, <2>2 DEF CreateConfig
<1>4. CASE LoadConfig(p)
  <2>1. DiskTypeOK'
    BY <1>4, DiskStays DEF LoadConfig
  <2> QED
    BY <1>4, <1>g, <1>e, <1>w, <2>1 DEF LoadConfig, Over
<1>5. CASE CreateSops(p)
  <2>1. CASE Create(p, SopsFile, "sopsbody")
    BY <1>c, <1>w, <2>1
  <2>2. CASE WriteScaffold(p, SopsFile, Ended(p, "done"))
    BY <1>g, <1>e, <1>w, <1>f, <2>2, InPlaceTypes, DiskStays DEF WriteScaffold, Over
  <2> QED
    BY <1>5, <2>1, <2>2 DEF CreateSops
<1>6. CASE Undo(p)
  <2>1. DiskTypeOK'
    BY <1>6, RemoveTypes, DiskStays DEF Undo
  <2>2. ASSUME NEW q, At(p, "init", "undo"), Become(p, [proc[p] EXCEPT !.made = @ \ {q}]) PROVE AllFit'
    <3>1. [proc[p] EXCEPT !.made = @ \ {q}] = [proc[p] EXCEPT !.at = "undo", !.made = proc[p].made \ {q}]
      BY <1>0, <2>2 DEF At, Process
    <3>2. proc[p].made \ {q} \in SUBSET {Dir, ConfigFile, SopsFile}
      BY <1>0
    <3> QED
      BY <1>b, <2>2, <3>1, <3>2
  <2> QED
    BY <1>6, <1>g, <1>e, <1>w, <2>1, <2>2 DEF Undo, Over
<1> QED
  BY <1>1, <1>2, <1>3, <1>4, <1>5, <1>6 DEF ScaffoldStep

LEMMA RenderTypes ==
  ASSUME Typed, NEW p \in Procs, RenderStep(p)
  PROVE  Typed' /\ registered \subseteq registered' /\ UNCHANGED <<count, clock, theirs, settled, cut>>
<1> USE DEF Typed
<1>0. /\ proc[p] \in Process /\ Fit(proc[p], registered) /\ proc[p].held \in 0 .. MaxCommands
      /\ proc[p].next \in 0 .. Len(Order) /\ proc[p].node \in [Nodes -> {"todo", "asked", "done"}]
  BY DEF AllFit, Fit, Process
<1>1. CASE EnsureTalosconfig(p)
  <2>1. DiskTypeOK' /\ UNCHANGED world /\ proc[p].cmd = "reach"
    BY <1>1, DiskStays DEF EnsureTalosconfig, At
  <2> QED
    BY <1>1, <2>1, EndedFit, GoFit DEF EnsureTalosconfig, Over, Places, Preparing, world
<1>2. CASE Open(p)
  <2>1. DiskTypeOK' /\ UNCHANGED world /\ proc[p].cmd \in {"render", "reach"}
    BY <1>2, DiskStays DEF Open, At
  <2> DEFINE opened == [proc[p] EXCEPT !.held = seen[Bundle].of]
             r == [opened EXCEPT !.at = "nodes"]
  <2>2. seen[Bundle].of \in 0 .. MaxCommands /\ "nodes" \in Places
    BY PathsThere DEF DiskTypeOK, Content, Places
  <2>3. /\ opened \in Process /\ opened.at = proc[p].at /\ opened.then = proc[p].then /\ opened.cmd = proc[p].cmd
        /\ opened.flag = proc[p].flag /\ opened.node = proc[p].node /\ opened.cache = proc[p].cache
        /\ opened.name = proc[p].name /\ opened.old = proc[p].old
    BY <1>0, <2>2 DEF Process
  <2>4. CASE Ended(p, "failed")
    BY <2>1, <2>4, EndedFit DEF Over, world
  <2>5. CASE Prepare(p, opened, "pointing")
    <3> HIDE DEF opened
    <3>1. Fit(opened, registered)
      BY <1>0, <2>3 DEF Fit, Writes, Keeps
    <3> QED
      BY <2>1, <2>3, <2>5, <3>1, PrepareFit DEF world
  <2>6. CASE Become(p, r)
    <3> HIDE DEF opened
    <3>1. /\ r \in Process /\ r.at = "nodes" /\ r.then = opened.then /\ r.cmd = opened.cmd
          /\ r.flag = opened.flag /\ r.node = opened.node /\ r.cache = opened.cache
      BY <2>2, <2>3 DEF Process
    <3> HIDE DEF r
    <3>2. Fit(r, registered)
      BY <1>0, <2>1, <2>3, <3>1 DEF Fit, Writes, Keeps, Preparing
    <3> QED
      BY <2>1, <2>6, <3>2, BecomeFit DEF world
  <2> QED
    BY <1>2, <2>1, <2>4, <2>5, <2>6 DEF Open
<1>3. CASE RenderNode(p)
  <2>1. DiskTypeOK' /\ proc[p].cmd = "render" /\ proc[p].at = "nodes"
    BY <1>3, DiskStays DEF RenderNode, At
  <2>2. PICK n \in Nodes : LookUp(p, n) \/ Submit(p, n)
    BY <1>3 DEF RenderNode
  <2>3. CASE LookUp(p, n)
    <3> DEFINE s == IF proc[p].flag /\ Key(n) \notin proc[p].cache THEN "asked" ELSE "done"
               r == [proc[p] EXCEPT !.node[n] = s]
    <3>1. s \in {"todo", "asked", "done"} /\ (s = "done" /\ proc[p].flag => Key(n) \in registered)
      BY <1>0 DEF Fit
    <3> HIDE DEF s
    <3>2. /\ r \in Process /\ r.at = "nodes" /\ r.then = proc[p].then /\ r.cmd = "render"
          /\ r.flag = proc[p].flag /\ r.node = [proc[p].node EXCEPT ![n] = s] /\ r.cache = proc[p].cache
      BY <1>0, <2>1, <3>1 DEF Process
    <3>3. Become(p, r) /\ UNCHANGED registered
      BY <2>3 DEF LookUp, s
    <3> HIDE DEF r
    <3>4. Fit(r, registered)
      BY <1>0, <3>1, <3>2 DEF Fit, Writes, Keeps, Preparing
    <3> QED
      BY <1>3, <2>1, <3>3, <3>4, BecomeFit DEF RenderNode
  <2>4. CASE Submit(p, n)
    <3> DEFINE r == [proc[p] EXCEPT !.node[n] = "done", !.cache = @ \cup {Key(n)}]
    <3>1. Key(n) \in Keys /\ registered' = registered \cup {Key(n)}
      BY <2>4 DEF Submit, Key, Keys, Schematics
    <3>2. /\ r \in Process /\ r.at = "nodes" /\ r.then = proc[p].then /\ r.cmd = "render"
          /\ r.flag = proc[p].flag /\ r.node = [proc[p].node EXCEPT ![n] = "done"]
          /\ r.cache = proc[p].cache \cup {Key(n)}
      BY <1>0, <2>1, <3>1 DEF Process
    <3>3. Become(p, r)
      BY <2>4 DEF Submit
    <3> HIDE DEF r
    <3>4. Fit(r, registered')
      BY <1>0, <3>1, <3>2 DEF Fit, Writes, Keeps, Preparing
    <3> QED
      BY <1>3, <2>1, <3>1, <3>3, <3>4, BecomeFit DEF RenderNode
  <2> QED
    BY <2>2, <2>3, <2>4
<1>4. CASE Rendered(p)
  <2>1. DiskTypeOK' /\ UNCHANGED world /\ proc[p].cmd = "render" /\ \A n \in Nodes : proc[p].node[n] = "done"
    BY <1>4, DiskStays DEF Rendered, At
  <2> QED
    BY <1>0, <1>4, <2>1, EndedFit, PrepareFit DEF Rendered, Over, world
<1>5. CASE WriteConfig(p)
  <2>1. UNCHANGED world /\ proc[p].cmd = "render" /\ proc[p].at = "write"
    BY <1>5 DEF WriteConfig, At
  <2>2. CASE proc[p].next < Len(Order)
    <3> DEFINE k == IF proc[p].flag THEN "submitted" ELSE "config"
               r == [proc[p] EXCEPT !.next = @ + 1]
    <3>1. k \in Kinds
      BY DEF Kinds
    <3>2. File(k, proc[p].held) \in Content
      BY <1>0, <3>1, Contents
    <3>3. Order[proc[p].next + 1] \in Paths
      BY <1>0, <2>2, NodeInOrder, PathsThere
    <3>4. DiskTypeOK'
      BY <1>5, <2>2, <3>2, <3>3, RenameTypes DEF WriteConfig
    <3>5. /\ r \in Process /\ r.at = "write" /\ r.then = proc[p].then /\ r.cmd = "render"
          /\ r.flag = proc[p].flag /\ r.node = proc[p].node /\ r.cache = proc[p].cache
      <4>1. proc[p].next + 1 \in 0 .. Len(Order)
        <5>1. Len(Order) \in Nat
          BY DiskAssumption
        <5>2. proc[p].next \in 0 .. Len(Order)
          BY <1>0 DEF Process
        <5> QED
          BY <2>2, <5>1, <5>2
      <4> QED
        BY <1>0, <2>1, <4>1 DEF Process
    <3>6. Become(p, r)
      BY <1>5, <2>2 DEF WriteConfig
    <3> HIDE DEF r
    <3>7. Fit(r, registered)
      BY <1>0, <2>1, <3>5 DEF Fit, Writes, Keeps, Preparing
    <3> QED
      BY <2>1, <3>4, <3>6, <3>7, BecomeFit DEF world
  <2>3. CASE ~(proc[p].next < Len(Order))
    <3>1. DiskTypeOK'
      BY <1>5, <2>3, DiskStays DEF WriteConfig
    <3> QED
      BY <1>0, <1>5, <2>1, <2>3, <3>1, EndedFit, PrepareFit DEF WriteConfig, Over, world
  <2> QED
    BY <2>2, <2>3
<1>6. CASE WriteTalosconfig(p)
  <2>1. UNCHANGED world
    BY <1>6 DEF WriteTalosconfig
  <2>2. proc[p].cmd \notin {"generate", "init"}
    BY <1>0, <1>6 DEF WriteTalosconfig, Fit, Over, Preparing, GeneratePlaces, ScaffoldPlaces
  <2>3. CASE Go(p, "bare") \/ Go(p, "pointed")
    <3>1. CASE UNCHANGED diskVars
      BY <2>1, <2>2, <2>3, <3>1, DiskStays, GoFit DEF Over, Places, Preparing, world
    <3>2. CASE Rename(Talosconfig, File("talosconfig", proc[p].held))
      <4>1. File("talosconfig", proc[p].held) \in Content
        BY <1>0, Contents DEF Kinds
      <4> QED
        BY <2>1, <2>2, <2>3, <3>2, <4>1, PathsThere, RenameTypes, GoFit DEF Over, Places, Preparing, world
    <3> QED
      BY <1>6, <3>1, <3>2 DEF WriteTalosconfig
  <2>4. CASE Ended(p, "done") /\ Rename(Talosconfig, File("talosconfig", proc[p].held))
    <3>1. File("talosconfig", proc[p].held) \in Content
      BY <1>0, Contents DEF Kinds
    <3> QED
      BY <2>1, <2>4, <3>1, PathsThere, RenameTypes, EndedFit DEF Over, world
  <2> QED
    BY <1>6, <2>1, <2>3, <2>4 DEF WriteTalosconfig
<1>7. registered \subseteq registered' /\ UNCHANGED <<count, clock, theirs, settled, cut>>
  BY DEF RenderStep, EnsureTalosconfig, Open, RenderNode, Rendered, WriteConfig, WriteTalosconfig, LookUp, Submit, world
<1> QED
  BY <1>1, <1>2, <1>3, <1>4, <1>5, <1>6, <1>7 DEF RenderStep

LEMMA PrepareOutputTypes ==
  ASSUME Typed, NEW p \in Procs, PrepareOutput(p) \/ WriteIgnore(p)
  PROVE  Typed' /\ UNCHANGED <<count, clock, registered, theirs, settled>> /\ cut' \subseteq cut
<1> USE DEF Typed
<1>0. /\ proc[p] \in Process /\ Fit(proc[p], registered) /\ proc[p].at \in Preparing
      /\ UNCHANGED <<count, clock, registered, theirs, settled>> /\ cut' \subseteq cut
  BY DEF AllFit, Fit, PrepareOutput, WriteIgnore, Preparing, world
<1>1. ASSUME NEW at \in {"unignored", "ignoring"} \cup {proc[p].then}, Go(p, at)
      PROVE  AllFit'
  <2> DEFINE r == [proc[p] EXCEPT !.at = at]
  <2>1. at \in Places
    BY <1>0 DEF Process, Places
  <2>2. /\ r \in Process /\ r.at = at /\ r.then = proc[p].then /\ r.cmd = proc[p].cmd
        /\ r.flag = proc[p].flag /\ r.node = proc[p].node /\ r.cache = proc[p].cache
        /\ r.old = proc[p].old
    BY <1>0, <2>1 DEF Process
  <2>3. Become(p, r)
    BY <1>1 DEF Go
  <2> HIDE DEF r
  <2>4. Fit(r, registered)
    BY <1>0, <2>2 DEF Fit, Writes, Keeps, Preparing, GeneratePlaces, ScaffoldPlaces, Over
  <2> QED
    BY <1>0, <2>3, <2>4, BecomeFit
<1>2. CASE PrepareOutput(p)
  <2>1. DiskTypeOK'
    BY <1>2, DiskStays DEF PrepareOutput
  <2>2. Go(p, proc[p].then) \/ Ended(p, "failed") \/ Go(p, "unignored")
    BY <1>2 DEF PrepareOutput
  <2> QED
    BY <1>0, <1>1, <2>1, <2>2, EndedFit DEF Over
<1>3. CASE WriteIgnore(p)
  <2>1. File("rule", 0) \in Content
    BY Contents, DiskAssumption DEF Kinds
  <2>2. DiskTypeOK'
    BY <1>3, <2>1, PathsThere, InPlaceTypes, Contents DEF WriteIgnore
  <2> QED
    BY <1>0, <1>1, <1>3, <2>2 DEF WriteIgnore
<1> QED
  BY <1>0, <1>2, <1>3

LEMMA DeadFit == ASSUME AllFit, NEW S \in SUBSET Procs, proc' = [p \in Procs |-> IF p \in S THEN Idle ELSE proc[p]],
                        UNCHANGED registered
                 PROVE  AllFit'
<1>1. Fit(Idle, registered) /\ Idle \in Process
  BY IdleIsFit, IdleTypes
<1> QED
  BY <1>1 DEF AllFit

LEMMA TypeTypes ==
  ASSUME Typed, count \in 0 .. MaxCommands, settled \subseteq 0 .. MaxCommands, NEW p \in Procs, Type(p)
  PROVE  /\ Typed' /\ count' \in 0 .. MaxCommands /\ settled' \subseteq 0 .. MaxCommands
         /\ UNCHANGED <<diskVars, clock, registered, theirs, cut>>
<1> USE DEF Typed
<1>1. /\ DiskTypeOK' /\ count' = count + 1 /\ count + 1 \in 0 .. MaxCommands
      /\ UNCHANGED <<diskVars, clock, registered, theirs, cut>> /\ settled' \subseteq 0 .. MaxCommands
  BY DiskStays, DiskAssumption DEF Type, Settled
<1>2. PICK cmd \in {"generate", "init", "render", "reach"}, flag \in BOOLEAN :
        Become(p, [Idle EXCEPT !.cmd = cmd, !.at = "start", !.serial = count + 1, !.flag = flag])
  BY DEF Type
<1> DEFINE r == [Idle EXCEPT !.cmd = cmd, !.at = "start", !.serial = count + 1, !.flag = flag]
<1>3. r \in Process
  <2>1. "start" \in Places /\ cmd \in {"none", "generate", "init", "render", "reach"}
    BY DEF Places
  <2> QED
    BY <1>1, <2>1, IdleTypes DEF Process
<1>4. /\ r.at = "start" /\ r.then = "idle" /\ r.cmd = cmd /\ r.cache = {}
      /\ r.node = [n \in Nodes |-> "todo"]
  BY DEF Idle
<1> HIDE DEF r
<1>5. Fit(r, registered)
  BY <1>3, <1>4 DEF Fit, Writes, Keeps, Preparing, GeneratePlaces, ScaffoldPlaces
<1> QED
  BY <1>1, <1>2, <1>5, BecomeFit DEF r

LEMMA InitTypes == Init => TypeOK /\ AllFit
<1> SUFFICES ASSUME Init PROVE TypeOK /\ AllFit
  OBVIOUS
<1>1. Fit(Idle, registered) /\ Idle \in Process
  BY IdleIsFit, IdleTypes
<1>2. AllFit
  BY <1>1 DEF Init, AllFit
<1>3. Fresh \in [Paths -> Content]
  BY Contents DEF Fresh
<1>4. seen \in [Paths -> Content]
  <2>1. \A k \in Kinds : File(k, 0) \in Content
    BY Contents, DiskAssumption
  <2> QED
    BY <1>3, <2>1, Contents DEF Init, Kinds
<1>5. DiskTypeOK
  BY <1>4 DEF DiskTypeOK, Init
<1>6. theirs \subseteq {ConfigFile, SopsFile, Ignore}
  <2>1. \A q \in Paths \ {Dir, ConfigFile, Ignore, Bundle, Legacy} : seen[q] = NoFile
    <3>1. \A q \in Paths : Fresh[q] = NoFile
      BY DEF Fresh
    <3>2. CASE \E there \in BOOLEAN : seen = [Fresh EXCEPT ![Dir] = IF there THEN File("dir", 0) ELSE NoFile]
      BY <3>1, <3>2 DEF Fresh
    <3>3. CASE \E at \in {Dir, Bundle, Legacy}, ignore \in {"none", "rule", "edited", "operator"} :
                 seen = [[Fresh EXCEPT ![at] = File("bundle", 0)]
                           EXCEPT ![Dir] = File("dir", 0), ![ConfigFile] = File("operator", 0),
                                  ![Ignore] = File(ignore, 0)]
      BY <3>1, <3>3 DEF Fresh
    <3> QED
      BY <3>2, <3>3 DEF Init
  <2>2. \A q \in {Dir, Bundle, Legacy} : seen[q] \in {NoFile, File("dir", 0), File("bundle", 0)}
    <3>1. \A q \in {Dir, Bundle, Legacy} : q \in Paths /\ q # ConfigFile /\ q # Ignore /\ Fresh[q] = NoFile
      BY PathsThere, PathsApart DEF Fresh
    <3>2. CASE \E there \in BOOLEAN : seen = [Fresh EXCEPT ![Dir] = IF there THEN File("dir", 0) ELSE NoFile]
      BY <3>1, <3>2 DEF Fresh
    <3>3. CASE \E at \in {Dir, Bundle, Legacy}, ignore \in {"none", "rule", "edited", "operator"} :
                 seen = [[Fresh EXCEPT ![at] = File("bundle", 0)]
                           EXCEPT ![Dir] = File("dir", 0), ![ConfigFile] = File("operator", 0),
                                  ![Ignore] = File(ignore, 0)]
      BY <3>1, <3>3 DEF Fresh
    <3> QED
      BY <3>2, <3>3 DEF Init
  <2>3. NoFile.kind # "operator" /\ File("dir", 0).kind # "operator" /\ File("bundle", 0).kind # "operator"
    BY DEF NoFile, File
  <2>4. theirs = {q \in Paths : seen[q].kind = "operator"}
    BY DEF Init
  <2> QED
    BY <2>1, <2>2, <2>3, <2>4
<1>7. /\ count \in 0 .. MaxCommands /\ clock \in Backups /\ registered \subseteq Schematics
      /\ settled \subseteq 0 .. MaxCommands /\ cut \subseteq InPlace
  BY DiskAssumption DEF Init, Backups
<1> QED
  BY <1>2, <1>5, <1>6, <1>7 DEF TypeOK, CommandsTypeOK, AllFit

(* The types, with what Fit says of each process: a backup has a name when *)
(* it is written.  Without that, what is renamed may not be a path.        *)
LEMMA Fits == Spec => [](TypeOK /\ AllFit)
<1>1. Init => TypeOK /\ AllFit
  BY InitTypes
<1>2. TypeOK /\ AllFit /\ [Next]_vars => (TypeOK /\ AllFit)'
  <2> SUFFICES ASSUME TypeOK, AllFit, [Next]_vars PROVE (TypeOK /\ AllFit)'
    OBVIOUS
  <2>0. /\ Typed /\ count \in 0 .. MaxCommands /\ clock \in Backups /\ registered \subseteq Schematics
        /\ theirs \subseteq {ConfigFile, SopsFile, Ignore} /\ settled \subseteq 0 .. MaxCommands
        /\ cut \subseteq InPlace
    BY DEF TypeOK, CommandsTypeOK, Typed
  <2> DEFINE Rest == /\ count \in 0 .. MaxCommands /\ clock \in Backups /\ registered \subseteq Schematics
                     /\ theirs \subseteq {ConfigFile, SopsFile, Ignore} /\ settled \subseteq 0 .. MaxCommands
                     /\ cut \subseteq InPlace
  <2>q. Typed' /\ Rest' => (TypeOK /\ AllFit)'
    BY DEF TypeOK, CommandsTypeOK, Typed, AllFit
  <2> SUFFICES Typed' /\ Rest'
    BY <2>q
  <2>1. ASSUME NEW p \in Procs, Type(p) PROVE Typed' /\ Rest'
    BY <2>0, <2>1, TypeTypes
  <2>2. ASSUME NEW p \in Procs, GenerateStep(p) PROVE Typed' /\ Rest'
    BY <2>0, <2>2, GenerateTypes
  <2>3. ASSUME NEW p \in Procs, ScaffoldStep(p) PROVE Typed' /\ Rest'
    BY <2>0, <2>3, ScaffoldTypes DEF world
  <2>4. ASSUME NEW p \in Procs, RenderStep(p) PROVE Typed' /\ Rest'
    <3>1. registered' \subseteq Schematics
      BY <2>0, <2>4 DEF RenderStep, EnsureTalosconfig, Open, RenderNode, Rendered, WriteConfig, WriteTalosconfig,
                        LookUp, Submit, Schematics, world
    <3> QED
      BY <2>0, <2>4, <3>1, RenderTypes
  <2>5. ASSUME NEW p \in Procs, PrepareOutput(p) \/ WriteIgnore(p) PROVE Typed' /\ Rest'
    BY <2>0, <2>5, PrepareOutputTypes
  <2>6. ASSUME NEW p \in Procs, Fail(p) PROVE Typed' /\ Rest'
    BY <2>0, <2>6, EndedFit, DiskStays DEF Fail, CutShort, Over, Typed
  <2>7. ASSUME NEW p \in Procs, Kill(p) PROVE Typed' /\ Rest'
    <3>1. Fit(Idle, registered)
      BY IdleIsFit
    <3> QED
      BY <2>0, <2>7, <3>1, BecomeFit, DiskStays DEF Kill, CutShort, Typed
  <2>8. CASE Edit
    <3>1. File("operator", 0) \in Content
      BY Contents, DiskAssumption DEF Kinds
    <3> QED
      BY <2>0, <2>8, <3>1, PathsThere DEF Edit, Typed, DiskTypeOK, AllFit
  <2>9. CASE Tick
    BY <2>0, <2>9, DiskStays, DiskAssumption DEF Tick, Typed, AllFit, Backups
  <2>10. CASE WriteBack
    BY <2>0, <2>10, FlushTypes DEF WriteBack, Typed, AllFit, world
  <2>11. CASE PowerLoss
    BY <2>0, <2>11, DeadFit DEF PowerLoss, LosePower, Typed, DiskTypeOK
  <2>12. CASE UNCHANGED vars
    BY <2>0, <2>12, DiskStays DEF vars, world, Typed, AllFit
  <2> QED
    BY <2>1, <2>2, <2>3, <2>4, <2>5, <2>6, <2>7, <2>8, <2>9, <2>10, <2>11, <2>12 DEF Next
<1> QED
  BY <1>1, <1>2, PTL DEF Spec

(* Whatever runs beside whatever, and is cut off wherever, the files, the  *)
(* processes and the history are of their types.                           *)
THEOREM Typing == Spec => []TypeOK
  BY Fits, PTL

-----------------------------------------------------------------------------
(* A config rendered with --submit names a schematic its factory has.      *)

Named(files) ==
  \A n \in Nodes : files[n].kind = "submitted" => Key(n) \in registered

NamedInv == Named(seen) /\ Named(kept)

LEMMA NamedStays ==
  ASSUME NamedInv, UNCHANGED <<seen, kept>>, registered \subseteq registered'
  PROVE  NamedInv'
  BY DEF NamedInv, Named, Key

LEMMA NamedPut ==
  ASSUME DiskTypeOK, NamedInv, NEW q, NEW f, seen' = [seen EXCEPT ![q] = f], UNCHANGED kept,
         registered \subseteq registered', q \in Nodes /\ f.kind = "submitted" => Key(q) \in registered
  PROVE  NamedInv'
<1>1. \A n \in Nodes : seen'[n] = IF n = q THEN f ELSE seen[n]
  BY PathsThere DEF DiskTypeOK
<1> QED
  BY <1>1 DEF NamedInv, Named, Key

LEMMA NamedRemove ==
  ASSUME DiskTypeOK, NamedInv, NEW S, Remove(S), UNCHANGED registered
  PROVE  NamedInv'
<1>1. \A n \in Nodes : seen'[n] = NoFile \/ seen'[n] = seen[n]
  BY PathsThere DEF Remove
<1> QED
  BY <1>1 DEF NamedInv, Named, Key, Remove, NoFile, File

LEMMA NamedProcess ==
  ASSUME Typed, NamedInv, NEW p \in Procs,
         GenerateStep(p) \/ ScaffoldStep(p) \/ RenderStep(p) \/ PrepareOutput(p) \/ WriteIgnore(p) \/ Fail(p) \/ Kill(p)
  PROVE  NamedInv'
<1> USE DEF Typed
<1>0. Fit(proc[p], registered) /\ proc[p] \in Process
  BY DEF AllFit, Fit
<1>1. CASE GenerateStep(p)
  <2>1. CASE KeepBundle(p)
    <3>1. proc[p].name \notin Nodes
      BY <1>0, <2>1, SetsApart DEF KeepBundle, At, Fit
    <3> QED
      BY <2>1, <3>1, NamedPut DEF KeepBundle, Rename, world
  <2>2. CASE ReplaceBundle(p)
    <3>1. Bundle \notin Nodes
      BY SetsApart
    <3> QED
      BY <2>2, <3>1, NamedPut DEF ReplaceBundle, Rename, world
  <2> QED
    BY <1>1, <2>1, <2>2, NamedStays DEF GenerateStep, CheckBundle, ReadOldBundle, NameBackup, diskVars, world
<1>2. CASE ScaffoldStep(p)
  <2>1. /\ Dir \notin Nodes /\ ConfigFile \notin Nodes /\ SopsFile \notin Nodes /\ UNCHANGED registered
    BY <1>2, SetsApart DEF ScaffoldStep, CheckScaffold, MakeDir, CreateConfig, LoadConfig, CreateSops, Undo, world
  <2>2. \/ UNCHANGED <<seen, kept>>
        \/ \E q \in {Dir, ConfigFile, SopsFile} : \E f : seen' = [seen EXCEPT ![q] = f] /\ UNCHANGED kept
        \/ \E S : Remove(S)
    BY <1>2 DEF ScaffoldStep, CheckScaffold, MakeDir, CreateConfig, LoadConfig, CreateSops, Undo, Create, WriteScaffold,
                Truncate, Fill, diskVars
  <2> QED
    BY <2>1, <2>2, NamedStays, NamedPut, NamedRemove
<1>3. CASE RenderStep(p)
  <2>1. registered \subseteq registered'
    BY <1>3, RenderTypes
  <2>2. CASE WriteConfig(p) /\ proc[p].next < Len(Order)
    <3> DEFINE q == Order[proc[p].next + 1]
               f == File(IF proc[p].flag THEN "submitted" ELSE "config", proc[p].held)
    <3>1. q \in Nodes
      BY <1>0, <2>2, NodeInOrder DEF Process
    <3>2. proc[p].node[q] = "done"
      BY <1>0, <2>2, <3>1 DEF WriteConfig, At, Fit, Writes
    <3>3. f.kind = "submitted" => Key(q) \in registered
      BY <1>0, <3>1, <3>2 DEF Fit, File
    <3>4. seen' = [seen EXCEPT ![q] = f] /\ UNCHANGED kept
      BY <2>2 DEF WriteConfig, Rename
    <3> HIDE DEF q, f
    <3> QED
      BY <2>1, <3>1, <3>3, <3>4, NamedPut
  <2>3. CASE WriteConfig(p) /\ ~(proc[p].next < Len(Order))
    BY <2>1, <2>3, NamedStays DEF WriteConfig, diskVars
  <2>4. CASE WriteTalosconfig(p)
    <3>1. Talosconfig \notin Nodes
      BY SetsApart
    <3>2. \/ UNCHANGED <<seen, kept>>
          \/ \E f : seen' = [seen EXCEPT ![Talosconfig] = f] /\ UNCHANGED kept
      BY <2>4 DEF WriteTalosconfig, Rename, diskVars
    <3> QED
      BY <2>1, <3>1, <3>2, NamedStays, NamedPut
  <2> QED
    BY <1>3, <2>1, <2>2, <2>3, <2>4, NamedStays DEF RenderStep, EnsureTalosconfig, Open, RenderNode, Rendered, diskVars
<1>4. CASE PrepareOutput(p) \/ WriteIgnore(p)
  <2>1. Ignore \notin Nodes /\ UNCHANGED registered
    BY <1>4, SetsApart DEF PrepareOutput, WriteIgnore, world
  <2>2. \/ UNCHANGED <<seen, kept>>
        \/ \E f : seen' = [seen EXCEPT ![Ignore] = f] /\ UNCHANGED kept
    BY <1>4 DEF PrepareOutput, WriteIgnore, Truncate, Fill, diskVars
  <2> QED
    BY <2>1, <2>2, NamedStays, NamedPut
<1>5. CASE Fail(p) \/ Kill(p)
  BY <1>5, NamedStays DEF Fail, Kill, diskVars, world
<1> QED
  BY <1>1, <1>2, <1>3, <1>4, <1>5

(* A node's config names its schematic as submitted only after some run of *)
(* render has had the factory that builds it take it.                      *)
THEOREM SchematicsKnown == Spec => []Registered
<1>1. Init => NamedInv
  <2>1. ASSUME Init, NEW n \in Nodes PROVE seen[n] = NoFile
    <3>1. n \notin {Dir, ConfigFile, SopsFile, Bundle, Legacy, Ignore, Talosconfig}
      BY SetsApart
    <3> QED
      BY <2>1, <3>1, PathsThere DEF Init, Fresh
  <2> QED
    BY <2>1 DEF NamedInv, Named, NoFile, File, Init
<1>2. TypeOK /\ AllFit /\ NamedInv /\ [Next]_vars => NamedInv'
  <2> SUFFICES ASSUME TypeOK, AllFit, NamedInv, [Next]_vars PROVE NamedInv'
    OBVIOUS
  <2>0. Typed
    BY DEF TypeOK, Typed
  <2>1. ASSUME NEW p \in Procs, Type(p) PROVE NamedInv'
    BY <2>1, NamedStays DEF Type, diskVars
  <2>2. CASE Edit
    <3>1. PICK q \in {ConfigFile, SopsFile} : seen' = [seen EXCEPT ![q] = File("operator", 0)] /\ UNCHANGED <<kept, registered>>
      BY <2>2 DEF Edit
    <3>2. q \notin Nodes
      BY SetsApart
    <3> QED
      BY <2>0, <3>1, <3>2, NamedPut DEF Typed
  <2>3. CASE Tick \/ UNCHANGED vars
    BY <2>3, NamedStays DEF Tick, vars, world, diskVars
  <2>4. CASE WriteBack
    <3>1. \A n \in Nodes : kept'[n] = Empty \/ kept'[n] = seen[n]
      BY <2>4, PathsThere DEF WriteBack, Flush
    <3> QED
      BY <2>4, <3>1 DEF WriteBack, Flush, NamedInv, Named, Key, Empty, File, world
  <2>5. CASE PowerLoss
    BY <2>5 DEF PowerLoss, LosePower, NamedInv, Named, Key
  <2> QED
    BY <2>0, <2>1, <2>2, <2>3, <2>4, <2>5, NamedProcess DEF Next
<1>3. NamedInv => Registered
  BY DEF NamedInv, Named, Registered, Key
<1> QED
  BY <1>1, <1>2, <1>3, Fits, PTL DEF Spec

-----------------------------------------------------------------------------
(* A bundle that was in place and could be read is never lost.             *)

Bundles == {Bundle, Legacy} \cup Backups
Made(b) == File("bundle", b)

(* Where the bundle is not in use it is backed up, and whoever is about to *)
(* write that backup writes this bundle.  Where it is, every generate that *)
(* runs will keep it before it replaces it.                                *)
Backed(b) ==
  \E k \in Backups :
    /\ seen[k] = Made(b)
    /\ \A p \in Procs : At(p, "generate", "keep") /\ proc[p].name = k => proc[p].old = Made(b)

WillKeep(r, b) == r.at \in {"start", "read"} \/ (r.at \in Preparing \cup {"name", "keep"} /\ r.old = Made(b))

InUse(b) ==
  /\ seen[Bundle] = Made(b)
  /\ \A p \in Procs : Runs(p, "generate") => WillKeep(proc[p], b)

OnDisk(b) == \E q \in {Bundle} \cup Backups : kept[q] = Made(b)

(* A bundle under the old name stops every generate where it starts.       *)
OldNameStops ==
  Exists(Legacy) => /\ ~Exists(Bundle) /\ kept[Bundle] = NoFile
                    /\ \A p \in Procs : Runs(p, "generate") => proc[p].at = "start"

BundleInv ==
  /\ dirty \cap Bundles = {}
  /\ seen[Legacy] = kept[Legacy] /\ OldNameStops
  /\ \A b \in settled : OnDisk(b) /\ (Backed(b) \/ InUse(b))

LEMMA BundlesThere == Bundles \subseteq Paths /\ Bundle \in Bundles /\ Legacy \in Bundles /\ Backups \subseteq Bundles
  BY PathsThere DEF Bundles

(* A process that is ended, is no generate or is on its way through        *)
(* prepareOutput, with no bundle changed.                                  *)
Aside(r, r1) ==
  \/ r1 = r
  \/ r1.cmd # "generate" \/ r1.at \in Over
  \/ /\ r.cmd = "generate" /\ r.at \in Preparing
     /\ r1.at \in Preparing \cup {"name"} /\ r1.old = r.old

LEMMA BundlesAside ==
  ASSUME BundleInv, \A q \in Bundles : seen'[q] = seen[q], UNCHANGED kept, dirty' \cap Bundles = {},
         UNCHANGED settled, \A p \in Procs : Aside(proc[p], proc'[p])
  PROVE  BundleInv'
<1>1. seen'[Bundle] = seen[Bundle] /\ seen'[Legacy] = seen[Legacy] /\ \A k \in Backups : seen'[k] = seen[k]
  BY BundlesThere
<1>2. seen'[Legacy] = kept'[Legacy] /\ OldNameStops'
  BY <1>1 DEF BundleInv, OldNameStops, Exists, Runs, Aside, Preparing, Over
<1>3. ASSUME NEW b, Backed(b) PROVE Backed(b)'
  BY <1>1, <1>3 DEF Backed, At, Aside, Preparing, Over
<1>4. ASSUME NEW b, InUse(b) PROVE InUse(b)'
  BY <1>1, <1>4 DEF InUse, Runs, WillKeep, Aside, Preparing, Over
<1>5. ASSUME NEW b, OnDisk(b) PROVE OnDisk(b)'
  BY <1>5 DEF OnDisk
<1> QED
  BY <1>2, <1>3, <1>4, <1>5 DEF BundleInv

(* What becomes of the processes: one of them is as it is given. *)
LEMMA BecomeOne ==
  ASSUME AllFit, NEW p \in Procs, NEW r, Become(p, r)
  PROVE  proc'[p] = r /\ \A q \in Procs \ {p} : proc'[q] = proc[q]
  BY DEF AllFit, Become

LEMMA GoOne ==
  ASSUME AllFit, NEW p \in Procs, NEW at, Go(p, at)
  PROVE  /\ proc'[p].cmd = proc[p].cmd /\ proc'[p].at = at /\ proc'[p].old = proc[p].old
         /\ proc'[p].name = proc[p].name /\ proc'[p].serial = proc[p].serial /\ proc'[p].made = proc[p].made
         /\ proc'[p].then = proc[p].then
         /\ \A q \in Procs \ {p} : proc'[q] = proc[q]
  BY DEF AllFit, Fit, Process, Become, Go

LEMMA PrepareOne ==
  ASSUME AllFit, NEW p \in Procs, NEW r \in Process, NEW at, Prepare(p, r, at)
  PROVE  /\ proc'[p].cmd = r.cmd /\ proc'[p].at = "prepare" /\ proc'[p].old = r.old /\ proc'[p].then = at
         /\ proc'[p].serial = r.serial
         /\ \A q \in Procs \ {p} : proc'[q] = proc[q]
  BY DEF AllFit, Fit, Process, Become, Prepare

LEMMA EndedOne ==
  ASSUME AllFit, NEW p \in Procs, NEW how, Ended(p, how)
  PROVE  /\ proc'[p].cmd = proc[p].cmd /\ proc'[p].at = how /\ proc'[p].serial = proc[p].serial
         /\ proc'[p].old = NoFile
         /\ \A q \in Procs \ {p} : proc'[q] = proc[q]
  BY DEF AllFit, Fit, Process, Become, Ended, Idle

LEMMA EndedAside ==
  ASSUME AllFit, NEW p \in Procs, NEW how \in Over, Ended(p, how)
  PROVE  \A q \in Procs : Aside(proc[q], proc'[q])
  BY EndedOne DEF Aside

LEMMA GenerateKeeps ==
  ASSUME Typed, BundleInv, NEW p \in Procs, GenerateStep(p)
  PROVE  BundleInv'
<1> USE DEF Typed
<1>0. Fit(proc[p], registered) /\ proc[p] \in Process
  BY DEF AllFit, Fit
<1>s. CheckBundle(p) \/ NameBackup(p) \/ KeepBundle(p) \/ ReplaceBundle(p) => UNCHANGED settled
  BY DEF CheckBundle, NameBackup, KeepBundle, ReplaceBundle, world
<1>a. \A b : Made(b) # NoFile
  BY DEF Made, File, NoFile
<1>e. ASSUME UNCHANGED <<diskVars, settled>>, Ended(p, "failed") PROVE BundleInv'
  <2>1. \A q \in Procs : Aside(proc[q], proc'[q])
    BY <1>e, EndedAside DEF Over
  <2> QED
    BY <1>0, <1>e, <2>1, BundlesAside DEF diskVars, BundleInv
<1>1. CASE CheckBundle(p)
  <2>1. CASE RefusesToGenerate(p)
    BY <1>s, <1>1, <1>e, <2>1 DEF CheckBundle
  <2>2. CASE ~RefusesToGenerate(p)
    <3>1. Go(p, "read") /\ UNCHANGED <<seen, dirty, kept>> /\ At(p, "generate", "start")
      BY <1>1, <2>2 DEF CheckBundle, diskVars
    <3>2. ~Exists(Legacy)
      BY <2>2 DEF RefusesToGenerate, BundleInv, OldNameStops
    <3>3. ASSUME NEW b, Backed(b) PROVE Backed(b)'
      BY <3>1, <3>3, GoOne DEF Backed, At
    <3>4. ASSUME NEW b, InUse(b) PROVE InUse(b)'
      BY <3>1, <3>4, GoOne DEF InUse, Runs, WillKeep
    <3> QED
      BY <1>s, <1>1, <3>1, <3>2, <3>3, <3>4 DEF BundleInv, OldNameStops, Exists, OnDisk
  <2> QED
    BY <2>1, <2>2
<1>r. ASSUME proc[p].cmd = "generate", proc[p].at \in {"read", "name", "keep", "replace"}
      PROVE  ~Exists(Legacy)
  BY <1>r DEF BundleInv, OldNameStops, Runs, Over
<1>2. CASE ReadOldBundle(p)
  <2>1. At(p, "generate", "read") /\ UNCHANGED <<seen, dirty, kept>> /\ ~Exists(Legacy)
    BY <1>2, <1>r DEF ReadOldBundle, diskVars, At
  <2> DEFINE r == [proc[p] EXCEPT !.old = seen[Bundle]]
  <2>2. r \in Process /\ r.cmd = "generate" /\ r.old = seen[Bundle]
    BY <1>0, <2>1, PathsThere DEF Process, DiskTypeOK, At
  <2> HIDE DEF r
  <2>3. CASE Exists(Bundle) /\ Prepare(p, r, "name") /\ UNCHANGED settled
    <3>1. ASSUME NEW b, Backed(b) PROVE Backed(b)'
      BY <2>1, <2>2, <2>3, <3>1, PrepareOne DEF Backed, At
    <3>2. ASSUME NEW b, InUse(b) PROVE InUse(b)'
      BY <2>1, <2>2, <2>3, <3>2, PrepareOne DEF InUse, Runs, WillKeep, Preparing
    <3> QED
      BY <2>1, <2>3, <3>1, <3>2 DEF BundleInv, OldNameStops, Exists, OnDisk
  (* One that is there and was not read leaves the settled ones. *)
  <2>4. CASE /\ Go(p, "replace")
             /\ settled' = IF Exists(Bundle) THEN settled \ {seen[Bundle].of} ELSE settled
    <3>1. ASSUME NEW b, Backed(b) PROVE Backed(b)'
      BY <2>1, <2>4, <3>1, GoOne DEF Backed, At
    <3>2. ASSUME NEW b \in settled' PROVE b \in settled /\ ~InUse(b)
      <4>1. InUse(b) => Exists(Bundle) /\ seen[Bundle].of = b
        BY <1>a DEF InUse, Exists, Made, File
      <4> QED
        BY <2>4, <3>2, <4>1
    <3>3. \A b \in settled' : OnDisk(b) /\ Backed(b)
      BY <3>2 DEF BundleInv
    <3> QED
      BY <2>1, <3>1, <3>3 DEF BundleInv, OldNameStops, Exists, OnDisk
  <2> QED
    BY <1>2, <2>3, <2>4 DEF ReadOldBundle, r
<1>3. CASE NameBackup(p)
  <2>1. CASE Exists(clock)
    BY <1>s, <1>3, <1>e, <2>1 DEF NameBackup
  <2>2. CASE ~Exists(clock)
    <3> DEFINE r == [proc[p] EXCEPT !.at = "keep", !.name = clock]
    <3>1. At(p, "generate", "name") /\ UNCHANGED <<seen, dirty, kept>> /\ ~Exists(Legacy) /\ Become(p, r)
      BY <1>3, <1>r, <2>2 DEF NameBackup, diskVars, At
    <3>2. r.cmd = "generate" /\ r.at = "keep" /\ r.name = clock /\ r.old = proc[p].old
      BY <1>0, <3>1 DEF Process, At
    <3> HIDE DEF r
    <3>3. ASSUME NEW b, Backed(b) PROVE Backed(b)'
      <4>1. PICK k \in Backups :
              /\ seen[k] = Made(b)
              /\ \A q \in Procs : At(q, "generate", "keep") /\ proc[q].name = k => proc[q].old = Made(b)
        BY <3>3 DEF Backed
      <4>2. k # clock
        BY <1>a, <2>2, <4>1 DEF Exists
      <4> QED
        BY <3>1, <3>2, <4>1, <4>2, BecomeOne DEF Backed, At
    <3>4. ASSUME NEW b, InUse(b) PROVE InUse(b)'
      BY <3>1, <3>2, <3>4, BecomeOne DEF InUse, Runs, WillKeep, At, Over, Preparing
    <3> QED
      BY <1>s, <1>3, <3>1, <3>3, <3>4 DEF BundleInv, OldNameStops, Exists, OnDisk
  <2> QED
    BY <2>1, <2>2
<1>4. CASE KeepBundle(p)
  <2> DEFINE k == proc[p].name
  <2>1. /\ At(p, "generate", "keep") /\ Go(p, "replace") /\ ~Exists(Legacy) /\ UNCHANGED kept
        /\ seen' = [seen EXCEPT ![k] = proc[p].old] /\ dirty' \subseteq dirty /\ k \in Backups
    BY <1>0, <1>4, <1>r DEF KeepBundle, Rename, At, Fit
  <2>2. /\ \A q \in Bundles : seen'[q] = IF q = k THEN proc[p].old ELSE seen[q]
        /\ Bundle # k /\ Legacy # k
    BY <2>1, BundlesThere, SetsApart DEF DiskTypeOK
  <2> HIDE DEF k
  <2>3. ASSUME NEW b, Backed(b) PROVE Backed(b)'
    <3>1. PICK j \in Backups :
            /\ seen[j] = Made(b)
            /\ \A q \in Procs : At(q, "generate", "keep") /\ proc[q].name = j => proc[q].old = Made(b)
      BY <2>3 DEF Backed
    <3>2. seen'[j] = Made(b)
      BY <2>1, <2>2, <3>1, BundlesThere DEF k
    <3> QED
      BY <2>1, <3>1, <3>2, GoOne DEF Backed, At
  <2>4. ASSUME NEW b, InUse(b) PROVE Backed(b)'
    <3>1. \A q \in Procs : At(q, "generate", "keep") => proc[q].old = Made(b)
      BY <2>4 DEF InUse, Runs, WillKeep, At, Over, Preparing
    <3>2. seen'[k] = Made(b)
      BY <2>1, <2>2, <3>1, BundlesThere
    <3> QED
      BY <2>1, <3>1, <3>2, GoOne DEF Backed, At
  <2>5. seen'[Legacy] = seen[Legacy] /\ ~Exists(Legacy)'
    BY <2>1, <2>2, BundlesThere DEF Exists
  <2> QED
    BY <1>s, <1>4, <2>1, <2>3, <2>4, <2>5 DEF BundleInv, OldNameStops, OnDisk
<1>5. CASE ReplaceBundle(p)
  <2>1. /\ At(p, "generate", "replace") /\ Ended(p, "done") /\ ~Exists(Legacy) /\ UNCHANGED kept
        /\ seen' = [seen EXCEPT ![Bundle] = Made(proc[p].serial)] /\ dirty' \subseteq dirty
    BY <1>5, <1>r DEF ReplaceBundle, Rename, At, Made
  <2>2. /\ \A q \in Backups : seen'[q] = seen[q]
        /\ seen'[Legacy] = seen[Legacy]
    BY <2>1, PathsThere, PathsApart, SetsApart DEF DiskTypeOK
  <2>3. ASSUME NEW b, Backed(b) PROVE Backed(b)'
    BY <2>1, <2>2, <2>3, EndedOne DEF Backed, At
  <2>4. \A b : ~InUse(b)
    BY <2>1 DEF InUse, Runs, WillKeep, At, Over, Preparing
  <2> QED
    BY <1>s, <1>5, <2>1, <2>2, <2>3, <2>4 DEF BundleInv, OldNameStops, OnDisk, Exists
<1> QED
  BY <1>1, <1>2, <1>3, <1>4, <1>5 DEF GenerateStep

(* What is none of the files a bundle is in. *)
LEMMA BundlesApart ==
  /\ {Dir, ConfigFile, SopsFile, Ignore, Talosconfig} \cap Bundles = {}
  /\ Nodes \cap Bundles = {}
  BY PathsApart, SetsApart DEF Bundles

LEMMA PutAside ==
  ASSUME DiskTypeOK, dirty \cap Bundles = {}, NEW q, q \notin Bundles, NEW f, seen' = [seen EXCEPT ![q] = f],
         dirty' \subseteq dirty \cup {q}
  PROVE  (\A k \in Bundles : seen'[k] = seen[k]) /\ dirty' \cap Bundles = {}
  BY BundlesThere DEF DiskTypeOK

LEMMA RemoveAside ==
  ASSUME DiskTypeOK, dirty \cap Bundles = {}, NEW S, S \cap Bundles = {}, Remove(S)
  PROVE  (\A k \in Bundles : seen'[k] = seen[k]) /\ dirty' \cap Bundles = {}
  BY BundlesThere DEF Remove

LEMMA ScaffoldKeeps ==
  ASSUME Typed, BundleInv, NEW p \in Procs, ScaffoldStep(p)
  PROVE  BundleInv'
<1> USE DEF Typed
<1>1. /\ proc[p].cmd = "init" /\ UNCHANGED world /\ UNCHANGED kept
      /\ Typed' /\ proc[p] \in Process /\ proc[p].made \subseteq {Dir, ConfigFile, SopsFile}
  BY ScaffoldTypes DEF ScaffoldStep, CheckScaffold, MakeDir, CreateConfig, LoadConfig, CreateSops, Undo, Create, WriteScaffold,
       Truncate, Fill, Remove, diskVars, At, AllFit, Fit, Process
<1>2. \A q \in Procs : Aside(proc[q], proc'[q])
  <2>1. ASSUME NEW at, Go(p, at) PROVE \A q \in Procs : Aside(proc[q], proc'[q])
    BY <1>1, <2>1, GoOne DEF Aside
  <2>2. ASSUME NEW how, Ended(p, how) PROVE \A q \in Procs : Aside(proc[q], proc'[q])
    BY <1>1, <2>2, EndedOne DEF Aside
  <2>3. ASSUME NEW at, NEW made, Become(p, [proc[p] EXCEPT !.at = at, !.made = made])
        PROVE  \A q \in Procs : Aside(proc[q], proc'[q])
    <3> DEFINE r == [proc[p] EXCEPT !.at = at, !.made = made]
    <3>1. r.cmd = "init"
      BY <1>1 DEF Process
    <3>2. Become(p, r)
      BY <2>3
    <3> HIDE DEF r
    <3>3. proc'[p] = r /\ \A q \in Procs \ {p} : proc'[q] = proc[q]
      BY <3>2, BecomeOne
    <3> QED
      BY <3>1, <3>3 DEF Aside
  <2> QED
    BY <2>1, <2>2, <2>3 DEF ScaffoldStep, CheckScaffold, MakeDir, CreateConfig, LoadConfig, CreateSops, Undo, Create,
         WriteScaffold
<1>3. (\A k \in Bundles : seen'[k] = seen[k]) /\ dirty' \cap Bundles = {}
  <2>1. \/ UNCHANGED diskVars
        \/ \E q \in {Dir, ConfigFile, SopsFile} : \E f : seen' = [seen EXCEPT ![q] = f] /\ dirty' \subseteq dirty \cup {q}
        \/ \E S \in SUBSET {Dir, ConfigFile, SopsFile} : Remove(S)
    <3>1. CASE CheckScaffold(p) \/ LoadConfig(p)
      BY <3>1 DEF CheckScaffold, LoadConfig
    <3>2. CASE MakeDir(p)
      BY <3>2 DEF MakeDir
    <3>3. CASE CreateConfig(p) \/ CreateSops(p)
      BY <3>3 DEF CreateConfig, CreateSops, Create, WriteScaffold, Truncate, Fill
    <3>4. CASE Undo(p)
      <4>1. proc[p].made \ {Dir} \in SUBSET {Dir, ConfigFile, SopsFile} /\ {Dir} \in SUBSET {Dir, ConfigFile, SopsFile}
        BY <1>1
      <4> QED
        BY <3>4, <4>1 DEF Undo
    <3> QED
      BY <3>1, <3>2, <3>3, <3>4 DEF ScaffoldStep
  <2>2. dirty \cap Bundles = {}
    BY DEF BundleInv
  <2>3. CASE UNCHANGED diskVars
    BY <2>2, <2>3 DEF diskVars
  <2>4. CASE \E q \in {Dir, ConfigFile, SopsFile} : \E f : seen' = [seen EXCEPT ![q] = f] /\ dirty' \subseteq dirty \cup {q}
    BY <2>2, <2>4, PutAside, BundlesApart
  <2>5. CASE \E S \in SUBSET {Dir, ConfigFile, SopsFile} : Remove(S)
    BY <2>2, <2>5, RemoveAside, BundlesApart
  <2> QED
    BY <2>1, <2>3, <2>4, <2>5
<1> QED
  BY <1>1, <1>2, <1>3, BundlesAside DEF world

LEMMA RenderKeeps ==
  ASSUME Typed, BundleInv, NEW p \in Procs, RenderStep(p)
  PROVE  BundleInv'
<1> USE DEF Typed
<1>1. proc[p].cmd # "generate" /\ UNCHANGED kept /\ proc[p] \in Process
  BY DEF RenderStep, EnsureTalosconfig, Open, RenderNode, Rendered, WriteConfig, WriteTalosconfig, Rename, diskVars, At,
         AllFit, Fit, GeneratePlaces, Over, Preparing
<1>2. \A q \in Procs : Aside(proc[q], proc'[q])
  <2>1. ASSUME NEW at, Go(p, at) PROVE \A q \in Procs : Aside(proc[q], proc'[q])
    BY <1>1, <2>1, GoOne DEF Aside
  <2>2. ASSUME NEW how, Ended(p, how) PROVE \A q \in Procs : Aside(proc[q], proc'[q])
    BY <1>1, <2>2, EndedOne DEF Aside
  <2>3. ASSUME NEW r, r.cmd = proc[p].cmd, Become(p, r)
        PROVE  \A q \in Procs : Aside(proc[q], proc'[q])
    BY <1>1, <2>3, BecomeOne DEF Aside
  <2>4. ASSUME NEW r, r \in Process, r.cmd = proc[p].cmd, NEW at, Prepare(p, r, at)
        PROVE  \A q \in Procs : Aside(proc[q], proc'[q])
    BY <1>1, <2>4, PrepareOne DEF Aside
  <2>5. CASE EnsureTalosconfig(p)
    BY <2>1, <2>2, <2>5 DEF EnsureTalosconfig
  <2>6. CASE Open(p)
    <3> DEFINE opened == [proc[p] EXCEPT !.held = seen[Bundle].of]
               r == [opened EXCEPT !.at = "nodes"]
    <3>1. opened \in Process /\ opened.cmd = proc[p].cmd /\ r.cmd = proc[p].cmd
      BY <1>1, PathsThere DEF Process, DiskTypeOK, Content
    <3>2. Ended(p, "failed") \/ Prepare(p, opened, "pointing") \/ Become(p, r)
      BY <2>6 DEF Open
    <3> HIDE DEF opened, r
    <3> QED
      BY <2>2, <2>3, <2>4, <3>1, <3>2
  <2>7. CASE RenderNode(p)
    <3>1. PICK n \in Nodes : LookUp(p, n) \/ Submit(p, n)
      BY <2>7 DEF RenderNode
    <3>2. \A s : [proc[p] EXCEPT !.node[n] = s].cmd = proc[p].cmd
      BY <1>1 DEF Process
    <3>3. [proc[p] EXCEPT !.node[n] = "done", !.cache = @ \cup {Key(n)}].cmd = proc[p].cmd
      BY <1>1 DEF Process
    <3> QED
      BY <2>3, <3>1, <3>2, <3>3 DEF LookUp, Submit
  <2>8. CASE Rendered(p)
    BY <1>1, <2>2, <2>4, <2>8 DEF Rendered
  <2>9. CASE WriteConfig(p)
    <3>1. [proc[p] EXCEPT !.next = @ + 1].cmd = proc[p].cmd
      BY <1>1 DEF Process
    <3> QED
      BY <1>1, <2>2, <2>3, <2>4, <2>9, <3>1 DEF WriteConfig
  <2>10. CASE WriteTalosconfig(p)
    BY <2>1, <2>2, <2>10 DEF WriteTalosconfig
  <2> QED
    BY <2>5, <2>6, <2>7, <2>8, <2>9, <2>10 DEF RenderStep
<1>3. (\A k \in Bundles : seen'[k] = seen[k]) /\ dirty' \cap Bundles = {}
  <2>1. UNCHANGED <<seen, dirty>> \/ \E q \in Nodes \cup {Talosconfig} : \E f : Rename(q, f)
    <3>1. CASE WriteConfig(p) /\ proc[p].next < Len(Order)
      <4>1. Order[proc[p].next + 1] \in Nodes
        BY <1>1, <3>1, NodeInOrder DEF Process
      <4> QED
        BY <3>1, <4>1 DEF WriteConfig
    <3>2. CASE ~(WriteConfig(p) /\ proc[p].next < Len(Order))
      BY <3>2 DEF RenderStep, EnsureTalosconfig, Open, RenderNode, Rendered, WriteConfig, WriteTalosconfig, diskVars
    <3> QED
      BY <3>1, <3>2
  <2>2. dirty \cap Bundles = {}
    BY DEF BundleInv
  <2>3. CASE \E q \in Nodes \cup {Talosconfig} : \E f : Rename(q, f)
    BY <2>2, <2>3, PutAside, BundlesApart DEF Rename
  <2> QED
    BY <2>1, <2>2, <2>3
<1> QED
  BY <1>1, <1>2, <1>3, RenderTypes, BundlesAside

LEMMA PreparingKeeps ==
  ASSUME Typed, BundleInv, NEW p \in Procs, PrepareOutput(p) \/ WriteIgnore(p)
  PROVE  BundleInv'
<1> USE DEF Typed
<1>1. /\ proc[p].at \in Preparing /\ UNCHANGED <<settled, kept>> /\ Fit(proc[p], registered)
      /\ proc[p].cmd = "generate" => proc[p].then = "name"
  BY DEF PrepareOutput, WriteIgnore, Truncate, Fill, diskVars, AllFit, Fit, Preparing, GeneratePlaces, Over,
         world
<1>2. \A q \in Procs : Aside(proc[q], proc'[q])
  <2>1. ASSUME NEW at \in {proc[p].then, "unignored", "ignoring"}, Go(p, at)
        PROVE  \A q \in Procs : Aside(proc[q], proc'[q])
    BY <1>1, <2>1, GoOne DEF Aside, Preparing
  <2> QED
    BY <2>1, EndedAside DEF PrepareOutput, WriteIgnore, Over
<1>3. (\A k \in Bundles : seen'[k] = seen[k]) /\ dirty' \cap Bundles = {}
  <2>1. UNCHANGED <<seen, dirty>> \/ \E f : seen' = [seen EXCEPT ![Ignore] = f] /\ dirty' \subseteq dirty \cup {Ignore}
    BY DEF PrepareOutput, WriteIgnore, Truncate, Fill, diskVars
  <2>2. dirty \cap Bundles = {}
    BY DEF BundleInv
  <2> QED
    BY <2>1, <2>2, PutAside, BundlesApart
<1> QED
  BY <1>1, <1>2, <1>3, BundlesAside

LEMMA TypeKeeps ==
  ASSUME Typed, BundleInv, NEW p \in Procs, Type(p)
  PROVE  BundleInv'
<1> USE DEF Typed
<1>1. PICK cmd \in {"generate", "init", "render", "reach"}, flag \in BOOLEAN :
        /\ Become(p, [Idle EXCEPT !.cmd = cmd, !.at = "start", !.serial = count + 1, !.flag = flag])
        /\ settled' = IF cmd = "generate" THEN settled \cup Settled ELSE settled
  BY DEF Type
<1> DEFINE r == [Idle EXCEPT !.cmd = cmd, !.at = "start", !.serial = count + 1, !.flag = flag]
<1>2. r.cmd = cmd /\ r.at = "start"
  BY DEF Idle
<1>3. UNCHANGED <<seen, dirty, kept>>
  BY DEF Type, diskVars
<1> HIDE DEF r
<1>4. proc'[p] = r /\ \A q \in Procs \ {p} : proc'[q] = proc[q]
  BY <1>1, BecomeOne DEF r
<1>5. ASSUME NEW b, Backed(b) PROVE Backed(b)'
  BY <1>2, <1>3, <1>4, <1>5 DEF Backed, At
<1>6. ASSUME NEW b, InUse(b) PROVE InUse(b)'
  BY <1>2, <1>3, <1>4, <1>6 DEF InUse, Runs, WillKeep
<1>7. ASSUME NEW b \in Settled PROVE InUse(b) /\ OnDisk(b)
  BY DEF Settled, InUse, OnDisk, Made
<1>8. OldNameStops'
  BY <1>2, <1>3, <1>4 DEF BundleInv, OldNameStops, Runs, Exists
<1> QED
  BY <1>1, <1>3, <1>5, <1>6, <1>7, <1>8 DEF BundleInv, OnDisk

LEMMA DeadKeeps ==
  ASSUME Typed, BundleInv, NEW p \in Procs, Fail(p) \/ Kill(p)
  PROVE  BundleInv'
<1>1. \A q \in Procs : Aside(proc[q], proc'[q])
  <2>1. CASE Fail(p)
    BY <2>1, EndedAside DEF Fail, Over, Typed
  <2>2. CASE Kill(p)
    <3>1. Idle.cmd # "generate"
      BY DEF Idle
    <3> QED
      BY <2>2, <3>1, BecomeOne DEF Kill, Aside, Typed
  <2> QED
    BY <2>1, <2>2
<1> QED
  BY <1>1, BundlesAside DEF Fail, Kill, diskVars, world, BundleInv

LEMMA FlushKeeps ==
  ASSUME Typed, BundleInv, WriteBack
  PROVE  BundleInv'
<1>1. PICK late \in SUBSET dirty :
        /\ kept' = [q \in Paths |-> IF q \in late THEN Empty ELSE seen[q]]
        /\ dirty' = late
        /\ UNCHANGED seen
  BY DEF WriteBack, Flush
<1>2. \A q \in Bundles : kept'[q] = seen[q]
  BY <1>1, BundlesThere DEF BundleInv
<1>3. UNCHANGED <<proc, settled>>
  BY DEF WriteBack, world
<1>4. \A b : Backed(b) \/ InUse(b) => OnDisk(b)'
  BY <1>2, BundlesThere DEF Backed, InUse, OnDisk
<1>5. \A b : (Backed(b) => Backed(b)') /\ (InUse(b) => InUse(b)')
  BY <1>1, <1>3 DEF Backed, InUse, At, Runs, WillKeep
<1>6. OldNameStops'
  BY <1>1, <1>2, <1>3, BundlesThere DEF BundleInv, OldNameStops, Exists, Runs
<1> QED
  BY <1>1, <1>2, <1>3, <1>4, <1>5, <1>6, BundlesThere DEF BundleInv

LEMMA PowerLossKeeps ==
  ASSUME Typed, BundleInv, PowerLoss
  PROVE  BundleInv'
<1>1. /\ seen' = kept /\ dirty' = {} /\ UNCHANGED <<kept, settled>>
      /\ \A p \in Procs : proc'[p].cmd = "none"
  BY DEF PowerLoss, LosePower, Idle
<1>2. ASSUME NEW b, OnDisk(b) PROVE OnDisk(b)' /\ (Backed(b)' \/ InUse(b)')
  BY <1>1, <1>2 DEF OnDisk, Backed, InUse, At, Runs
<1>3. OldNameStops'
  BY <1>1 DEF BundleInv, OldNameStops, Exists, Runs
<1> QED
  BY <1>1, <1>2, <1>3 DEF BundleInv

LEMMA EditKeeps ==
  ASSUME Typed, BundleInv, Edit
  PROVE  BundleInv'
<1>1. PICK q \in {ConfigFile, SopsFile} : seen' = [seen EXCEPT ![q] = File("operator", 0)]
  BY DEF Edit
<1>2. UNCHANGED <<dirty, kept, proc, settled>> /\ dirty \cap Bundles = {} /\ q \notin Bundles
  BY BundlesApart DEF Edit, BundleInv
<1>3. \A k \in Bundles : seen'[k] = seen[k]
  BY <1>1, <1>2, PutAside DEF Typed
<1> QED
  BY <1>2, <1>3, BundlesAside DEF Aside

LEMMA BundleStart == Init => BundleInv
<1> SUFFICES ASSUME Init PROVE BundleInv
  OBVIOUS
<1>1. dirty = {} /\ kept = seen /\ settled = {}
  BY DEF Init
<1>2. \A p \in Procs : proc[p].cmd = "none"
  BY DEF Init, Idle
<1>3. seen[Legacy] = NoFile \/ seen[Bundle] = NoFile
  BY PathsThere, PathsApart DEF Init, Fresh
<1> QED
  BY <1>1, <1>2, <1>3 DEF BundleInv, OldNameStops, Exists, Runs

(* A bundle a generate found in place, on disk and with none other running, *)
(* is in the directory ever after, whatever else is generated, killed or   *)
(* lost with the power, unless a generate cannot read it, which is then    *)
(* replaced and not kept; and none is put beside one of the old name.      *)
THEOREM NoBundleIsLost == Spec => []BundleKept
<1>1. Init => BundleInv
  BY BundleStart
<1>2. TypeOK /\ AllFit /\ BundleInv /\ [Next]_vars => BundleInv'
  <2> SUFFICES ASSUME TypeOK, AllFit, BundleInv, [Next]_vars PROVE BundleInv'
    OBVIOUS
  <2>0. Typed /\ clock \in Backups
    BY DEF TypeOK, CommandsTypeOK, Typed
  <2>1. CASE \E p \in Procs : Type(p)
    BY <2>0, <2>1, TypeKeeps
  <2>2. CASE \E p \in Procs : GenerateStep(p)
    BY <2>0, <2>2, GenerateKeeps
  <2>3. CASE \E p \in Procs : ScaffoldStep(p)
    BY <2>0, <2>3, ScaffoldKeeps
  <2>4. CASE \E p \in Procs : RenderStep(p)
    BY <2>0, <2>4, RenderKeeps
  <2>5. CASE \E p \in Procs : PrepareOutput(p) \/ WriteIgnore(p)
    BY <2>0, <2>5, PreparingKeeps
  <2>6. CASE \E p \in Procs : Fail(p) \/ Kill(p)
    BY <2>0, <2>6, DeadKeeps
  <2>7. CASE Edit
    BY <2>0, <2>7, EditKeeps
  <2>8. CASE Tick \/ UNCHANGED vars
    BY <2>8, BundlesAside DEF Tick, vars, world, diskVars, Aside, BundleInv
  <2>9. CASE WriteBack
    BY <2>0, <2>9, FlushKeeps
  <2>10. CASE PowerLoss
    BY <2>0, <2>10, PowerLossKeeps
  <2> QED
    BY <2>1, <2>2, <2>3, <2>4, <2>5, <2>6, <2>7, <2>8, <2>9, <2>10 DEF Next
<1>3. BundleInv => BundleKept
  BY DEF BundleInv, OldNameStops, Backed, InUse, BundleKept, Holds, Made
<1> QED
  BY <1>1, <1>2, <1>3, Fits, PTL DEF Spec

-----------------------------------------------------------------------------
(* Nothing is left half done.                                              *)

Secrets == {Talosconfig} \cup Nodes \cup Backups
Whole(f) == f = NoFile \/ f \in Finished

(* What is replaced is whole, on disk and in hand: it is synced before it  *)
(* has its name, so a power loss finds none of it dirty.                   *)
WholeInv ==
  /\ \A q \in Replaced : Whole(seen[q]) /\ Whole(kept[q])
  /\ dirty \cap Replaced = {}
  /\ \A p \in Procs : Whole(proc[p].old)

(* Nothing secret is written before the .gitignore is talman's, which it   *)
(* then stays, cut short or not.                                           *)
Hides(files) == files[Ignore].kind \in {"rule", "empty"}
Hidden(files) == (\E q \in Secrets : files[q] # NoFile) => Hides(files)
PastIgnore(r) == r.at \in {"ignoring", "name", "keep", "write", "pointing", "bare", "pointed"}

HiddenInv ==
  /\ Hidden(seen) /\ Hidden(kept)
  /\ \A p \in Procs : PastIgnore(proc[p]) => Hides(seen)

(* What an init has created is its own until it is undone: nobody else's,  *)
(* no two inits', and all that there is of it.                             *)
ByInit(p) == File("init", proc[p].serial)
Creates(p) == proc[p].cmd = "init" /\ proc[p].at \in {"body", "load", "sops", "sopsbody", "undo"}
Own(p) == proc[p].made \ {Dir}

InitInv ==
  /\ \A p \in Procs : proc[p].cmd # "none" => proc[p].serial <= count
  /\ \A p, q \in Procs : p # q /\ proc[p].cmd # "none" /\ proc[q].cmd # "none" => proc[p].serial # proc[q].serial
  /\ \A q \in Paths : /\ seen[q].kind = "init" => seen[q].of <= count
                      /\ kept[q].kind = "init" => kept[q].of <= count
  /\ \A q \in theirs : seen[q].kind = "operator"
  /\ \A p \in Procs : proc[p].at \in {"unignored", "ignoring"} => Ignore \notin theirs
  /\ \A p \in Procs : Creates(p) =>
       /\ \A q \in Own(p) : Exists(q) /\ q \notin theirs
       /\ \A q \in Paths : seen[q] = ByInit(p) => q \in Own(p)
       /\ proc[p].at = "body" => ConfigFile \in Own(p)
       /\ proc[p].at = "sopsbody" => SopsFile \in Own(p)
  /\ \A p, q \in Procs : p # q /\ Creates(p) /\ Creates(q) => Own(p) \cap Own(q) = {}
  /\ \A p \in Procs : proc[p].cmd = "init" /\ proc[p].at \in {"start", "mkdir", "create", "rmdir", "failed"} =>
       \A q \in Paths : seen[q] # ByInit(p)
  /\ \A p \in Procs : proc[p].cmd = "init" /\ proc[p].at \in {"start", "mkdir", "create"} => Own(p) = {}

(* What a step of any command but init does. *)
Puts(p) ==
  \E q \in Paths, f \in Content :
    /\ seen' = [seen EXCEPT ![q] = f]
    /\ \/ q \in Replaced /\ f \in Finished /\ dirty' \subseteq dirty /\ (q \in Secrets => PastIgnore(proc[p]))
       \/ q = Ignore /\ f.kind \in {"rule", "empty"} /\ dirty' \subseteq dirty \cup {Ignore} /\ proc[p].at \in {"unignored", "ignoring"}

Moves(p) ==
  /\ \A q \in Procs \ {p} : proc'[q] = proc[q]
  /\ proc'[p].cmd \in {proc[p].cmd, "none"} /\ proc[p].cmd # "init"
  /\ proc'[p].cmd # "none" => proc'[p].serial = proc[p].serial
  /\ proc'[p].old \in {proc[p].old, seen[Bundle], NoFile}
  /\ PastIgnore(proc'[p]) => PastIgnore(proc[p]) \/ Hides(seen)'
  /\ proc'[p].at \in {"unignored", "ignoring"} => proc[p].at \in {"unignored", "ignoring"} \/ seen[Ignore].kind # "operator"

Works(p) ==
  /\ UNCHANGED <<seen, dirty>> \/ Puts(p)
  /\ Moves(p)
  /\ UNCHANGED <<kept, count, theirs>>

LEMMA PathsDiffer ==
  /\ Replaced \subseteq Paths /\ Ignore \notin Replaced /\ Secrets \subseteq Replaced
  /\ {Dir, ConfigFile, SopsFile} \cap Replaced = {}
  BY PathsApart, SetsApart, PathsThere DEF Replaced, Secrets

LEMMA WorksWhole ==
  ASSUME DiskTypeOK, WholeInv, NEW p \in Procs, Works(p)
  PROVE  WholeInv'
<1>1. /\ \A q \in Replaced : Whole(seen'[q])
      /\ dirty' \cap Replaced = {}
  BY PathsDiffer DEF WholeInv, Whole, Works, Puts, DiskTypeOK
<1>2. \A q \in Procs : Whole(proc'[q].old)
  BY PathsDiffer DEF WholeInv, Works, Moves, Whole, NoFile, File, Replaced
<1> QED
  BY <1>1, <1>2 DEF WholeInv, Works

LEMMA WorksHidden ==
  ASSUME DiskTypeOK, HiddenInv, NEW p \in Procs, Works(p)
  PROVE  HiddenInv'
<1>1. Hides(seen) => Hides(seen)'
  BY PathsDiffer, PathsThere DEF Works, Puts, DiskTypeOK, Hides
<1>2. Hidden(seen)'
  BY <1>1, PathsDiffer, PathsThere DEF Works, Puts, DiskTypeOK, Hidden, HiddenInv
<1>3. \A q \in Procs : PastIgnore(proc'[q]) => Hides(seen)'
  BY <1>1 DEF Works, Moves, HiddenInv
<1> QED
  BY <1>2, <1>3 DEF HiddenInv, Works, Hidden, Hides

LEMMA WorksInit ==
  ASSUME DiskTypeOK, AllFit, theirs \subseteq {ConfigFile, SopsFile, Ignore}, InitInv, NEW p \in Procs, Works(p)
  PROVE  InitInv'
<1>1. \A q \in {ConfigFile, SopsFile} : seen'[q] = seen[q]
  BY PathsDiffer, PathsThere, PathsApart DEF Works, Puts, DiskTypeOK
<1>2. \A q \in Paths : seen'[q] = seen[q] \/ seen'[q].kind # "init"
  BY PathsDiffer, PathsThere DEF Works, Puts, DiskTypeOK, Finished
<1>3. Ignore \in theirs => seen'[Ignore] = seen[Ignore]
  BY PathsDiffer, PathsThere DEF Works, Puts, DiskTypeOK, InitInv
<1>4. \A q \in Procs : q # p => proc'[q] = proc[q]
  BY DEF Works, Moves
<1>5. proc'[p].cmd # "init" /\ proc[p].cmd # "init" /\ (proc'[p].cmd # "none" => proc[p].cmd # "none" /\ proc'[p].serial = proc[p].serial)
  BY DEF Works, Moves
<1>6. UNCHANGED <<kept, count, theirs>>
  BY DEF Works
<1>7. \A q \in theirs : seen'[q].kind = "operator"
  BY <1>1, <1>3 DEF InitInv
<1>8. \A q \in Procs : proc'[q].at \in {"unignored", "ignoring"} => Ignore \notin theirs
  BY <1>4 DEF InitInv, Works, Moves
<1>9. \A q \in Procs : Creates(q)' => q # p /\ Creates(q) /\ Own(q)' = Own(q) /\ ByInit(q)' = ByInit(q) /\ proc'[q].at = proc[q].at
  BY <1>4, <1>5 DEF Creates, Own, ByInit
<1>10. \A q \in Procs : Own(q) \subseteq {ConfigFile, SopsFile} /\ ByInit(q).kind = "init"
  BY DEF Own, AllFit, Process, ByInit, File
<1>11. \A q \in Procs : Creates(q)' =>
         /\ \A k \in Own(q)' : Exists(k)' /\ k \notin theirs'
         /\ \A k \in Paths : seen'[k] = ByInit(q)' => k \in Own(q)'
         /\ proc'[q].at = "body" => ConfigFile \in Own(q)'
         /\ proc'[q].at = "sopsbody" => SopsFile \in Own(q)'
  <2>1. SUFFICES ASSUME NEW q \in Procs, Creates(q)'
                 PROVE /\ \A k \in Own(q)' : Exists(k)' /\ k \notin theirs'
                       /\ \A k \in Paths : seen'[k] = ByInit(q)' => k \in Own(q)'
                       /\ proc'[q].at = "body" => ConfigFile \in Own(q)'
                       /\ proc'[q].at = "sopsbody" => SopsFile \in Own(q)'
    OBVIOUS
  <2>2. /\ Creates(q) /\ Own(q)' = Own(q) /\ ByInit(q)' = ByInit(q) /\ proc'[q].at = proc[q].at
        /\ Own(q) \subseteq {ConfigFile, SopsFile} /\ ByInit(q).kind = "init"
    BY <1>9, <1>10, <2>1
  <2>3. \A k \in Own(q) : Exists(k)' /\ k \notin theirs'
    BY <1>1, <1>6, <2>2 DEF InitInv, Exists
  <2> QED
    BY <1>2, <2>2, <2>3 DEF InitInv
<1>12. \A q \in Procs : proc'[q].cmd = "init" => q # p /\ proc'[q] = proc[q]
  BY <1>4, <1>5
<1>13. \A q \in Procs : proc'[q].cmd = "init" /\ proc'[q].at \in {"start", "mkdir", "create", "rmdir", "failed"} =>
         \A k \in Paths : seen'[k] # ByInit(q)'
  BY <1>2, <1>10, <1>12 DEF InitInv, ByInit
<1>14. \A q \in Procs : proc'[q].cmd = "init" /\ proc'[q].at \in {"start", "mkdir", "create"} => Own(q)' = {}
  BY <1>12 DEF InitInv, Own
<1>15. \A q, k \in Procs : q # k /\ Creates(q)' /\ Creates(k)' => Own(q)' \cap Own(k)' = {}
  BY <1>9 DEF InitInv
<1>16. /\ \A q \in Procs : proc'[q].cmd # "none" => proc'[q].serial <= count'
       /\ \A q, k \in Procs : q # k /\ proc'[q].cmd # "none" /\ proc'[k].cmd # "none" => proc'[q].serial # proc'[k].serial
  BY <1>4, <1>5, <1>6 DEF InitInv
<1>17. \A q \in Paths : /\ seen'[q].kind = "init" => seen'[q].of <= count'
                        /\ kept'[q].kind = "init" => kept'[q].of <= count'
  <2> SUFFICES ASSUME NEW q \in Paths
               PROVE  /\ seen'[q].kind = "init" => seen'[q].of <= count'
                      /\ kept'[q].kind = "init" => kept'[q].of <= count'
    OBVIOUS
  <2>1. /\ seen[q].kind = "init" => seen[q].of <= count
        /\ kept[q].kind = "init" => kept[q].of <= count
    BY DEF InitInv
  <2> QED
    BY <1>2, <1>6, <2>1
<1> QED
  BY <1>6, <1>7, <1>8, <1>11, <1>13, <1>14, <1>15, <1>16, <1>17 DEF InitInv

(* The moves there are. *)
LEMMA GoMoves ==
  ASSUME AllFit, NEW p \in Procs, proc[p].cmd # "init", NEW at, Go(p, at),
         at \in {"name", "keep", "write", "pointing", "bare", "pointed", "ignoring"} => PastIgnore(proc[p]) \/ Hides(seen)',
         at \in {"unignored", "ignoring"} =>
           proc[p].at \in {"unignored", "ignoring"} \/ seen[Ignore].kind # "operator"
  PROVE  Moves(p)
  BY GoOne DEF Moves, PastIgnore

LEMMA EndedMoves ==
  ASSUME AllFit, NEW p \in Procs, proc[p].cmd # "init", NEW how \in Over, Ended(p, how)
  PROVE  Moves(p)
  BY EndedOne DEF Moves, PastIgnore, Over

LEMMA PrepareMoves ==
  ASSUME AllFit, NEW p \in Procs, proc[p].cmd # "init", NEW r \in Process, NEW at, Prepare(p, r, at),
         r.cmd = proc[p].cmd, r.serial = proc[p].serial, r.old \in {proc[p].old, seen[Bundle]}
  PROVE  Moves(p)
  BY PrepareOne DEF Moves, PastIgnore

LEMMA BecomeMoves ==
  ASSUME AllFit, NEW p \in Procs, proc[p].cmd # "init", NEW r, Become(p, r),
         r.cmd = proc[p].cmd, r.serial = proc[p].serial, r.old = proc[p].old, r.at \notin Preparing,
         PastIgnore(r) => PastIgnore(proc[p])
  PROVE  Moves(p)
  BY BecomeOne DEF Moves, Preparing

LEMMA GenerateWorks ==
  ASSUME Typed, WholeInv, NEW p \in Procs, GenerateStep(p)
  PROVE  Works(p)
<1> USE DEF Typed
<1>0. Fit(proc[p], registered) /\ proc[p] \in Process /\ UNCHANGED <<count, theirs>> /\ proc[p].cmd # "init"
  BY DEF AllFit, Fit, world, GenerateStep, CheckBundle, ReadOldBundle, NameBackup, KeepBundle, ReplaceBundle, At
<1>1. CASE CheckBundle(p)
  BY <1>0, <1>1, GoMoves, EndedMoves DEF CheckBundle, Works, diskVars, Over
<1>2. CASE ReadOldBundle(p)
  <2> DEFINE r == [proc[p] EXCEPT !.old = seen[Bundle]]
  <2>1. r \in Process /\ r.cmd = proc[p].cmd /\ r.old = seen[Bundle] /\ r.serial = proc[p].serial
    BY <1>0, PathsThere DEF Process, DiskTypeOK
  <2>2. Prepare(p, r, "name") \/ Go(p, "replace")
    BY <1>2 DEF ReadOldBundle
  <2> HIDE DEF r
  <2> QED
    BY <1>0, <1>2, <2>1, <2>2, GoMoves, PrepareMoves DEF ReadOldBundle, Works, diskVars
<1>3. CASE NameBackup(p)
  <2> DEFINE r == [proc[p] EXCEPT !.at = "keep", !.name = clock]
  <2>1. r.cmd = proc[p].cmd /\ r.old = proc[p].old /\ r.serial = proc[p].serial /\ r.at = "keep"
    BY <1>0 DEF Process
  <2>2. (Become(p, r) \/ Ended(p, "failed")) /\ proc[p].at = "name"
    BY <1>3 DEF NameBackup, At
  <2> HIDE DEF r
  <2> QED
    BY <1>0, <1>3, <2>1, <2>2, BecomeMoves, EndedMoves DEF NameBackup, Works, diskVars, Over, PastIgnore, Preparing
<1>4. CASE KeepBundle(p)
  <2>1. proc[p].name \in Replaced /\ proc[p].old \in Finished /\ proc[p].old \in Content /\ PastIgnore(proc[p])
    BY <1>0, <1>4 DEF KeepBundle, At, Fit, Keeps, Replaced, WholeInv, Whole, PastIgnore, Process
  <2>2. Puts(p) /\ UNCHANGED kept
    BY <1>4, <2>1, PathsDiffer DEF KeepBundle, Rename, Puts
  <2> QED
    BY <1>0, <1>4, <2>2, GoMoves DEF KeepBundle, Works
<1>5. CASE ReplaceBundle(p)
  <2>1. File("bundle", proc[p].serial) \in Content /\ File("bundle", proc[p].serial) \in Finished
    BY <1>0, Contents DEF Kinds, Process, Finished, File
  <2>2. Bundle \in Replaced /\ Bundle \notin Secrets
    BY PathsApart, SetsApart DEF Replaced, Secrets
  <2>3. Puts(p) /\ UNCHANGED kept
    BY <1>5, <2>1, <2>2, PathsDiffer DEF ReplaceBundle, Rename, Puts
  <2> QED
    BY <1>0, <1>5, <2>3, EndedMoves DEF ReplaceBundle, Works, Over
<1> QED
  BY <1>1, <1>2, <1>3, <1>4, <1>5 DEF GenerateStep

LEMMA RenderWorks ==
  ASSUME Typed, NEW p \in Procs, RenderStep(p)
  PROVE  Works(p)
<1> USE DEF Typed
<1>0. Fit(proc[p], registered) /\ proc[p] \in Process /\ UNCHANGED <<count, theirs, kept>> /\ proc[p].held \in 0 .. MaxCommands
  BY RenderTypes DEF AllFit, Fit, Process, RenderStep, EnsureTalosconfig, Open, RenderNode, Rendered, WriteConfig,
       WriteTalosconfig, Rename, diskVars
<1>1. CASE EnsureTalosconfig(p)
  BY <1>0, <1>1, GoMoves, EndedMoves DEF EnsureTalosconfig, Works, diskVars, Over, At
<1>2. CASE Open(p)
  <2> DEFINE opened == [proc[p] EXCEPT !.held = seen[Bundle].of]
             r == [opened EXCEPT !.at = "nodes"]
  <2>1. /\ opened \in Process /\ opened.cmd = proc[p].cmd /\ opened.serial = proc[p].serial /\ opened.old = proc[p].old
        /\ r.cmd = proc[p].cmd /\ r.serial = proc[p].serial /\ r.old = proc[p].old /\ r.at = "nodes"
    BY <1>0, PathsThere DEF Process, DiskTypeOK, Content
  <2>2. Ended(p, "failed") \/ Prepare(p, opened, "pointing") \/ Become(p, r)
    BY <1>2 DEF Open
  <2>3. proc[p].cmd # "init" /\ UNCHANGED diskVars
    BY <1>2 DEF Open, At
  <2> HIDE DEF opened, r
  <2>4. Moves(p)
    BY <1>0, <2>1, <2>2, <2>3, PrepareMoves, BecomeMoves, EndedMoves DEF Over, Preparing, PastIgnore
  <2> QED
    BY <1>0, <2>3, <2>4 DEF Works, diskVars
<1>3. CASE RenderNode(p)
  <2>1. PICK n \in Nodes : LookUp(p, n) \/ Submit(p, n)
    BY <1>3 DEF RenderNode
  <2>2. proc[p].cmd = "render" /\ proc[p].at = "nodes" /\ UNCHANGED diskVars
    BY <1>3 DEF RenderNode, At
  <2>3. PICK r : Become(p, r) /\ r.cmd = proc[p].cmd /\ r.serial = proc[p].serial /\ r.old = proc[p].old /\ r.at = "nodes"
    <3>1. CASE LookUp(p, n)
      <4> DEFINE s == IF proc[p].flag /\ Key(n) \notin proc[p].cache THEN "asked" ELSE "done"
                 r == [proc[p] EXCEPT !.node[n] = s]
      <4>1. r.cmd = proc[p].cmd /\ r.serial = proc[p].serial /\ r.old = proc[p].old /\ r.at = "nodes"
        BY <1>0, <2>2 DEF Process
      <4>2. Become(p, r)
        BY <3>1 DEF LookUp
      <4> HIDE DEF r
      <4> QED
        BY <4>1, <4>2
    <3>2. CASE Submit(p, n)
      <4> DEFINE r == [proc[p] EXCEPT !.node[n] = "done", !.cache = @ \cup {Key(n)}]
      <4>1. r.cmd = proc[p].cmd /\ r.serial = proc[p].serial /\ r.old = proc[p].old /\ r.at = "nodes"
        BY <1>0, <2>2 DEF Process
      <4>2. Become(p, r)
        BY <3>2 DEF Submit
      <4> HIDE DEF r
      <4> QED
        BY <4>1, <4>2
    <3> QED
      BY <2>1, <3>1, <3>2
  <2>4. Moves(p)
    BY <2>2, <2>3, BecomeMoves DEF Preparing, PastIgnore
  <2> QED
    BY <1>0, <2>2, <2>4 DEF Works, diskVars
<1>4. CASE Rendered(p)
  BY <1>0, <1>4, EndedMoves, PrepareMoves DEF Rendered, Works, diskVars, Over, At
<1>5. CASE WriteConfig(p)
  <2>0. proc[p].cmd = "render" /\ proc[p].at = "write"
    BY <1>5 DEF WriteConfig, At
  <2>1. CASE proc[p].next < Len(Order)
    <3> DEFINE f == File(IF proc[p].flag THEN "submitted" ELSE "config", proc[p].held)
               q == Order[proc[p].next + 1]
               r == [proc[p] EXCEPT !.next = @ + 1]
    <3>1. f \in Content /\ f \in Finished
      BY <1>0, Contents DEF Kinds, Finished, File
    <3>2. q \in Nodes
      BY <1>0, <2>1, NodeInOrder DEF Process
    <3>3. r.cmd = proc[p].cmd /\ r.serial = proc[p].serial /\ r.old = proc[p].old /\ r.at = "write"
      BY <1>0, <2>0 DEF Process
    <3>4. Rename(q, f) /\ Become(p, r)
      BY <1>5, <2>1 DEF WriteConfig
    <3> HIDE DEF f, q, r
    <3>5. Puts(p)
      BY <2>0, <3>1, <3>2, <3>4, PathsThere DEF Puts, Rename, Replaced, PastIgnore
    <3>6. Moves(p)
      BY <2>0, <3>3, <3>4, BecomeMoves DEF Preparing, PastIgnore
    <3> QED
      BY <1>0, <3>5, <3>6 DEF Works
  <2>2. CASE ~(proc[p].next < Len(Order))
    BY <1>0, <1>5, <2>0, <2>2, EndedMoves, PrepareMoves DEF WriteConfig, Works, diskVars, Over
  <2> QED
    BY <2>1, <2>2
<1>6. CASE WriteTalosconfig(p)
  <2>1. proc[p].at \in {"pointing", "bare", "pointed"}
    BY <1>6 DEF WriteTalosconfig
  <2>2. proc[p].cmd # "init"
    BY <1>0, <2>1 DEF Fit, ScaffoldPlaces, Over
  <2>3. CASE UNCHANGED diskVars /\ (Go(p, "bare") \/ Go(p, "pointed"))
    BY <1>0, <2>1, <2>2, <2>3, GoMoves DEF Works, diskVars, PastIgnore
  <2>4. CASE Rename(Talosconfig, File("talosconfig", proc[p].held)) /\ Ended(p, "done")
    <3>1. File("talosconfig", proc[p].held) \in Content /\ File("talosconfig", proc[p].held) \in Finished
      BY <1>0, Contents DEF Kinds, Finished, File
    <3>2. Puts(p)
      BY <2>1, <2>4, <3>1, PathsThere DEF Puts, Rename, Replaced, PastIgnore
    <3> QED
      BY <1>0, <2>2, <2>4, <3>2, EndedMoves DEF Works, Over
  <2> QED
    BY <1>6, <2>3, <2>4 DEF WriteTalosconfig
<1> QED
  BY <1>1, <1>2, <1>3, <1>4, <1>5, <1>6 DEF RenderStep

LEMMA PreparingWorks ==
  ASSUME Typed, HiddenInv, NEW p \in Procs, PrepareOutput(p) \/ WriteIgnore(p)
  PROVE  Works(p)
<1> USE DEF Typed
<1>1. Fit(proc[p], registered) /\ UNCHANGED <<count, theirs, kept>> /\ proc[p].at \in Preparing
  BY DEF AllFit, Fit, PrepareOutput, WriteIgnore, Truncate, Fill, diskVars, world, Preparing
<1>2. proc[p].cmd # "init" /\ proc[p].then \notin {"unignored", "ignoring"}
  BY <1>1 DEF Fit, Preparing, ScaffoldPlaces, Over
<1>3. CASE PrepareOutput(p)
  <2>1. UNCHANGED <<seen, dirty>> /\ proc[p].at = "prepare"
    BY <1>3 DEF PrepareOutput, diskVars
  <2>2. CASE seen[Ignore].kind = "rule" /\ Go(p, proc[p].then)
    BY <1>1, <1>2, <2>1, <2>2, GoMoves DEF Works, Hides
  <2>3. CASE Ended(p, "failed")
    BY <1>1, <1>2, <2>1, <2>3, EndedMoves DEF Works, Over
  <2>4. CASE seen[Ignore].kind # "operator" /\ Go(p, "unignored")
    BY <1>1, <1>2, <2>1, <2>4, GoMoves DEF Works
  <2> QED
    BY <1>3, <2>2, <2>3, <2>4 DEF PrepareOutput
<1>4. CASE WriteIgnore(p)
  <2>1. /\ File("rule", 0) \in Content /\ File("rule", 0).kind = "rule" /\ Empty \in Content /\ Empty.kind = "empty"
    BY Contents, DiskAssumption DEF Kinds, File, Empty
  <2>2. CASE proc[p].at = "unignored" /\ Truncate(Ignore) /\ Go(p, "ignoring")
    <3>1. Puts(p) /\ Hides(seen)'
      BY <2>1, <2>2, PathsThere DEF Puts, Truncate, Hides, DiskTypeOK
    <3> QED
      BY <1>1, <1>2, <2>2, <3>1, GoMoves DEF Works
  <2>3. CASE proc[p].at = "ignoring" /\ Fill(Ignore, File("rule", 0)) /\ Go(p, proc[p].then)
    <3>1. Puts(p) /\ Hides(seen)'
      BY <2>1, <2>3, PathsThere DEF Puts, Fill, Hides, DiskTypeOK
    <3> QED
      BY <1>1, <1>2, <2>3, <3>1, GoMoves DEF Works
  <2> QED
    BY <1>4, <2>2, <2>3 DEF WriteIgnore
<1> QED
  BY <1>3, <1>4

LEMMA FailWorks ==
  ASSUME Typed, NEW p \in Procs, Fail(p)
  PROVE  Works(p)
  BY EndedMoves DEF Fail, Works, Typed, diskVars, world, Over

(* A step of an init, by the paths in C that it changes. *)
Inits(p, C) ==
  /\ proc[p].cmd = "init" /\ proc'[p].cmd = "init" /\ proc'[p].serial = proc[p].serial /\ proc'[p].at \notin Preparing
  /\ \A o \in Procs \ {p} : proc'[o] = proc[o]
  /\ UNCHANGED <<kept, count, theirs>>
  /\ \A q \in Paths \ C : seen'[q] = seen[q]
  /\ theirs \cap C = {} /\ theirs \subseteq Paths
  /\ \A o \in Procs \ {p} : Creates(o) => Own(o) \cap C = {}
  /\ \A q \in C \cap Paths : seen'[q].kind = "init" => seen'[q] = ByInit(p)
  /\ Creates(p)' =>
       /\ \A q \in Own(p)' : Exists(q)' /\ q \notin theirs
       /\ \A q \in Paths : seen'[q] = ByInit(p) => q \in Own(p)'
       /\ proc'[p].at = "body" => ConfigFile \in Own(p)'
       /\ proc'[p].at = "sopsbody" => SopsFile \in Own(p)'
       /\ \A o \in Procs \ {p} : Creates(o) => Own(p)' \cap Own(o) = {}
  /\ proc'[p].at \in {"start", "mkdir", "create", "rmdir", "failed"} => \A q \in Paths : seen'[q] # ByInit(p)
  /\ proc'[p].at \in {"start", "mkdir", "create"} => Own(p)' = {}

LEMMA InitStep ==
  ASSUME AllFit, InitInv, NEW p \in Procs, NEW C, Inits(p, C)
  PROVE  InitInv'
<1> USE DEF Inits
<1>1. ByInit(p)' = ByInit(p) /\ ByInit(p).kind = "init" /\ ByInit(p).of = proc[p].serial
  BY DEF ByInit, File
<1>2. \A o \in Procs \ {p} : /\ Own(o)' = Own(o) /\ ByInit(o)' = ByInit(o) /\ Creates(o)' = Creates(o)
                            /\ Own(o) \subseteq Paths /\ ByInit(o).kind = "init" /\ ByInit(o).of = proc[o].serial
  <2>1. \A o \in Procs : proc[o].made \subseteq {Dir, ConfigFile, SopsFile}
    BY DEF AllFit, Process
  <2>2. \A o \in Procs : Own(o) \subseteq Paths
    BY <2>1, PathsThere DEF Own
  <2>3. \A o \in Procs : ByInit(o).kind = "init" /\ ByInit(o).of = proc[o].serial
    BY DEF ByInit, File
  <2> QED
    BY <2>2, <2>3 DEF Own, ByInit, Creates
<1>3. \A q \in Paths : seen'[q] = seen[q] \/ seen'[q].kind # "init" \/ seen'[q] = ByInit(p)
  OBVIOUS
<1>4. \A o \in Procs \ {p} : proc[o].cmd = "init" => ByInit(o) # ByInit(p)
  BY <1>1, <1>2 DEF InitInv
<1>5. /\ \A o \in Procs : proc'[o].cmd # "none" => proc'[o].serial <= count'
      /\ \A o, q \in Procs : o # q /\ proc'[o].cmd # "none" /\ proc'[q].cmd # "none" => proc'[o].serial # proc'[q].serial
  BY DEF InitInv
<1>6. ASSUME NEW q \in Paths
      PROVE  /\ seen'[q].kind = "init" => seen'[q].of <= count'
             /\ kept'[q].kind = "init" => kept'[q].of <= count'
  <2>1. /\ seen[q].kind = "init" => seen[q].of <= count
        /\ kept[q].kind = "init" => kept[q].of <= count
        /\ proc[p].serial <= count
    BY DEF InitInv
  <2> QED
    BY <1>1, <1>3, <2>1
<1>7. \A q \in theirs' : seen'[q].kind = "operator"
  BY DEF InitInv
<1>8. \A o \in Procs : proc'[o].at \in {"unignored", "ignoring"} => Ignore \notin theirs'
  BY DEF InitInv, Preparing
<1>9. ASSUME NEW o \in Procs, Creates(o)'
      PROVE  /\ \A q \in Own(o)' : Exists(q)' /\ q \notin theirs'
             /\ \A q \in Paths : seen'[q] = ByInit(o)' => q \in Own(o)'
             /\ proc'[o].at = "body" => ConfigFile \in Own(o)'
             /\ proc'[o].at = "sopsbody" => SopsFile \in Own(o)'
  <2>1. CASE o = p
    BY <1>1, <1>9, <2>1
  <2>2. CASE o # p
    <3>1. Creates(o) /\ Own(o) \cap C = {} /\ Own(o) \subseteq Paths /\ proc[o].cmd = "init"
      BY <1>2, <1>9, <2>2 DEF Creates
    <3>2. /\ \A q \in Own(o) : Exists(q) /\ q \notin theirs
          /\ \A q \in Paths : seen[q] = ByInit(o) => q \in Own(o)
          /\ proc[o].at = "body" => ConfigFile \in Own(o)
          /\ proc[o].at = "sopsbody" => SopsFile \in Own(o)
      BY <3>1 DEF InitInv
    <3>3. \A q \in Own(o) : Exists(q)'
      BY <3>1, <3>2 DEF Exists
    <3>4. ASSUME NEW q \in Paths, seen'[q] = ByInit(o) PROVE q \in Own(o)
      BY <1>2, <1>3, <1>4, <2>2, <3>1, <3>2, <3>4
    <3> QED
      BY <1>2, <2>2, <3>2, <3>3, <3>4
  <2> QED
    BY <2>1, <2>2
<1>10. \A o, q \in Procs : o # q /\ Creates(o)' /\ Creates(q)' => Own(o)' \cap Own(q)' = {}
  BY <1>2 DEF InitInv
<1>11. ASSUME NEW o \in Procs, proc'[o].cmd = "init", proc'[o].at \in {"start", "mkdir", "create", "rmdir", "failed"}
       PROVE  \A q \in Paths : seen'[q] # ByInit(o)'
  <2>1. CASE o = p
    BY <1>1, <1>11, <2>1
  <2>2. CASE o # p
    <3>1. \A q \in Paths : seen[q] # ByInit(o)
      BY <1>11, <2>2 DEF InitInv
    <3> QED
      BY <1>2, <1>3, <1>4, <1>11, <2>2, <3>1
  <2> QED
    BY <2>1, <2>2
<1>12. \A o \in Procs : proc'[o].cmd = "init" /\ proc'[o].at \in {"start", "mkdir", "create"} => Own(o)' = {}
  BY <1>2 DEF InitInv
<1> QED
  BY <1>5, <1>6, <1>7, <1>8, <1>9, <1>10, <1>11, <1>12 DEF InitInv

LEMMA ScaffoldInit ==
  ASSUME Typed, theirs \subseteq {ConfigFile, SopsFile, Ignore}, InitInv, NEW p \in Procs, ScaffoldStep(p)
  PROVE  InitInv'
<1> USE DEF Typed
<1>0. /\ proc[p].cmd = "init" /\ proc[p] \in Process /\ proc[p].made \subseteq {Dir, ConfigFile, SopsFile}
      /\ UNCHANGED <<kept, count, theirs>> /\ theirs \subseteq Paths
      /\ Own(p) \subseteq Paths /\ ByInit(p).kind = "init" /\ ByInit(p) \in Content
  <2>1. proc[p] \in Process /\ proc[p].made \subseteq {Dir, ConfigFile, SopsFile} /\ proc[p].serial \in 0 .. MaxCommands
    BY DEF AllFit, Process
  <2>2. proc[p].cmd = "init" /\ UNCHANGED <<kept, count, theirs>>
    BY DEF ScaffoldStep, CheckScaffold, MakeDir, CreateConfig, LoadConfig, CreateSops, Undo, Create, WriteScaffold,
       Truncate, Fill, Remove, diskVars, world, At
  <2>3. theirs \subseteq Paths /\ Own(p) \subseteq Paths
    BY <2>1, PathsThere DEF Own
  <2>4. ByInit(p).kind = "init" /\ ByInit(p) \in Content
    BY <2>1, Contents DEF ByInit, Kinds, File
  <2> QED
    BY <2>1, <2>2, <2>3, <2>4
<1>t. \A q \in theirs : Exists(q) /\ q # Dir
  BY PathsApart DEF InitInv, Exists, NoFile, File
<1>u. \A o \in Procs : Creates(o) => \A q \in Own(o) : Exists(q) /\ q \notin theirs
  BY DEF InitInv
<1>d. \A o \in Procs : Dir \notin Own(o)
  BY DEF Own
(* Nothing changes but where it is. *)
<1>g. ASSUME NEW at, Go(p, at), UNCHANGED seen, at \in {"undo", "sops"}, Creates(p) \/ proc[p].at \in {"start", "mkdir", "create"}
      PROVE  InitInv'
  <2>1. /\ proc'[p].cmd = "init" /\ proc'[p].at = at /\ proc'[p].serial = proc[p].serial /\ Own(p)' = Own(p)
        /\ \A o \in Procs \ {p} : proc'[o] = proc[o]
    BY <1>0, <1>g, GoOne DEF Own
  <2>2. /\ \A q \in Own(p) : Exists(q)' /\ q \notin theirs
        /\ \A q \in Paths : seen'[q] = ByInit(p) => q \in Own(p)
        /\ \A o \in Procs \ {p} : Creates(o) => Own(p) \cap Own(o) = {}
    BY <1>0, <1>g DEF InitInv, Exists
  <2>I. Inits(p, {})
    BY <1>0, <1>g, <2>1, <2>2 DEF Inits, Preparing
  <2> QED
    BY <2>I, InitStep
<1>e. ASSUME NEW how \in {"failed", "done"}, Ended(p, how), UNCHANGED seen,
             how = "failed" => \A q \in Paths : seen[q] # ByInit(p)
      PROVE  InitInv'
  <2>1. /\ proc'[p].cmd = "init" /\ proc'[p].at = how /\ proc'[p].serial = proc[p].serial
        /\ ~Creates(p)'
        /\ \A o \in Procs \ {p} : proc'[o] = proc[o]
    BY <1>0, <1>e, EndedOne DEF Creates
  <2>I. Inits(p, {})
    BY <1>0, <1>e, <2>1 DEF Inits, Preparing
  <2> QED
    BY <2>I, InitStep
<1>c. ASSUME NEW q \in {ConfigFile, SopsFile}, NEW to, Create(p, q, to),
             \/ q = ConfigFile /\ to = "body" /\ proc[p].at = "create"
             \/ q = SopsFile /\ to = "sopsbody" /\ proc[p].at = "sops"
      PROVE  InitInv'
  <2>1. CASE ~(Exists(Dir) /\ ~Exists(q))
    BY <1>0, <1>c, <1>g, <2>1 DEF Create, Creates, diskVars
  <2>2. CASE Exists(Dir) /\ ~Exists(q)
    <3> DEFINE r == [proc[p] EXCEPT !.at = to, !.made = @ \cup {q}]
    <3>1. r.cmd = "init" /\ r.at = to /\ r.serial = proc[p].serial /\ r.made = proc[p].made \cup {q}
      BY <1>0 DEF Process
    <3>2. seen' = [seen EXCEPT ![q] = Empty] /\ Become(p, r)
      BY <1>c, <2>2 DEF Create, Truncate
    <3> HIDE DEF r
    <3>3. proc'[p] = r /\ \A o \in Procs \ {p} : proc'[o] = proc[o]
      BY <3>2, BecomeOne
    <3>4. Own(p)' = Own(p) \cup {q}
      BY <3>1, <3>3, PathsApart DEF Own
    <3>5. q \in Paths /\ seen'[q] = Empty /\ \A k \in Paths \ {q} : seen'[k] = seen[k]
      BY <3>2, PathsThere DEF DiskTypeOK
    <3>6. q \notin theirs /\ \A o \in Procs \ {p} : Creates(o) => q \notin Own(o)
      BY <1>t, <1>u, <2>2
    <3>7. Empty # NoFile /\ Empty.kind # "init"
      BY DEF Empty, NoFile, File
    <3>8. /\ \A k \in Own(p) : Exists(k) /\ k \notin theirs
          /\ \A k \in Paths : seen[k] = ByInit(p) => k \in Own(p)
          /\ \A o \in Procs \ {p} : Creates(o) => Own(p) \cap Own(o) = {}
      BY <1>0, <1>c DEF InitInv, Creates
    <3>9. \A k \in Own(p)' : Exists(k)' /\ k \notin theirs
      BY <1>0, <3>4, <3>5, <3>6, <3>7, <3>8 DEF Exists
    <3>10. \A k \in Paths : seen'[k] = ByInit(p) => k \in Own(p)'
      BY <3>4, <3>5, <3>8
    <3>11. \A o \in Procs \ {p} : Creates(o) => Own(p)' \cap Own(o) = {}
      BY <3>4, <3>6, <3>8
    <3>12. proc'[p].cmd = "init" /\ proc'[p].serial = proc[p].serial /\ proc'[p].at = to
      BY <3>1, <3>3
    <3>13. to \in {"body", "sopsbody"} /\ (to = "body" => ConfigFile \in Own(p)') /\ (to = "sopsbody" => SopsFile \in Own(p)')
      BY <1>c, <3>4
    <3>I. Inits(p, {q})
      BY <1>0, <3>3, <3>5, <3>6, <3>7, <3>9, <3>10, <3>11, <3>12, <3>13 DEF Inits, Preparing
    <3> QED
      BY <3>I, InitStep
  <2> QED
    BY <2>1, <2>2
<1>f. ASSUME NEW q \in Own(p), Creates(p), Fill(q, ByInit(p)), \/ Go(p, "load")
                                                               \/ Ended(p, "done")
      PROVE  InitInv'
  <2>1. /\ proc'[p].cmd = "init" /\ proc'[p].at \in {"load", "done"} /\ proc'[p].serial = proc[p].serial
        /\ \A o \in Procs \ {p} : proc'[o] = proc[o]
        /\ Creates(p)' => Own(p)' = Own(p)
    BY <1>0, <1>f, GoOne, EndedOne DEF Own, Creates
  <2>2. q \in Paths /\ seen'[q] = ByInit(p) /\ \A k \in Paths \ {q} : seen'[k] = seen[k]
    BY <1>0, <1>f DEF DiskTypeOK, Fill
  <2>3. /\ \A k \in Own(p) : Exists(k) /\ k \notin theirs
        /\ \A k \in Paths : seen[k] = ByInit(p) => k \in Own(p)
        /\ \A o \in Procs \ {p} : Creates(o) => Own(p) \cap Own(o) = {}
    BY <1>f DEF InitInv
  <2>4. ByInit(p) # NoFile
    BY DEF ByInit, NoFile, File
  <2>5. \A k \in Own(p) : Exists(k)'
    BY <1>0, <2>2, <2>3, <2>4 DEF Exists
  <2>6. \A k \in Paths : seen'[k] = ByInit(p) => k \in Own(p)
    BY <2>2, <2>3
  <2>7. {q} \cap theirs = {} /\ \A o \in Procs \ {p} : Creates(o) => Own(o) \cap {q} = {}
    BY <2>3
  <2>I. Inits(p, {q})
    BY <1>0, <2>1, <2>2, <2>3, <2>5, <2>6, <2>7 DEF Inits, Preparing
  <2> QED
    BY <2>I, InitStep
<1>1. CASE CheckScaffold(p)
  <2>0. At(p, "init", "start") /\ UNCHANGED seen /\ \A q \in Paths : seen[q] # ByInit(p)
    BY <1>1 DEF CheckScaffold, At, InitInv, diskVars
  <2>1. CASE Ended(p, "failed")
    BY <1>e, <2>0, <2>1
  <2>2. CASE ~Ended(p, "failed")
    <3> DEFINE m == IF Exists(Dir) THEN {} ELSE {Dir}
               r == [proc[p] EXCEPT !.at = "mkdir", !.made = m]
    <3>1. r.cmd = "init" /\ r.at = "mkdir" /\ r.serial = proc[p].serial /\ r.made = m
      BY <1>0 DEF Process
    <3>2. Become(p, r)
      BY <1>1, <2>2 DEF CheckScaffold
    <3>3. m \ {Dir} = {}
      OBVIOUS
    <3> HIDE DEF m, r
    <3>4. proc'[p] = r /\ \A o \in Procs \ {p} : proc'[o] = proc[o]
      BY <3>2, BecomeOne
    <3>5. Own(p)' = {} /\ ~Creates(p)'
      BY <3>1, <3>3, <3>4 DEF Own, Creates
    <3>I. Inits(p, {})
      BY <1>0, <2>0, <3>1, <3>4, <3>5 DEF Inits, Preparing
    <3> QED
      BY <3>I, InitStep
  <2> QED
    BY <2>1, <2>2
<1>2. CASE MakeDir(p)
  <2>0. At(p, "init", "mkdir") /\ (\A q \in Paths : seen[q] # ByInit(p)) /\ Own(p) = {}
    BY <1>2 DEF MakeDir, At, InitInv
  <2>1. CASE Ended(p, "failed") /\ UNCHANGED diskVars
    BY <1>e, <2>0, <2>1 DEF diskVars
  <2>2. CASE Go(p, "create") /\ seen' = [seen EXCEPT ![Dir] = File("dir", 0)]
    <3>1. /\ proc'[p].cmd = "init" /\ proc'[p].at = "create" /\ proc'[p].serial = proc[p].serial /\ Own(p)' = {}
          /\ ~Creates(p)'
          /\ \A o \in Procs \ {p} : proc'[o] = proc[o]
      BY <1>0, <2>0, <2>2, GoOne DEF Own, Creates
    <3>2. Dir \in Paths /\ seen'[Dir].kind = "dir" /\ \A k \in Paths \ {Dir} : seen'[k] = seen[k]
      BY <2>2, PathsThere DEF DiskTypeOK, File
    <3>3. {Dir} \cap theirs = {} /\ \A o \in Procs \ {p} : Own(o) \cap {Dir} = {}
      BY <1>t, <1>d
    <3>4. \A k \in Paths : seen'[k] # ByInit(p)
      BY <1>0, <2>0, <3>2
    <3>I. Inits(p, {Dir})
      BY <1>0, <3>1, <3>2, <3>3, <3>4 DEF Inits, Preparing
    <3> QED
      BY <3>I, InitStep
  <2> QED
    BY <1>2, <2>1, <2>2 DEF MakeDir
<1>3. CASE CreateConfig(p)
  <2>1. CASE At(p, "init", "create") /\ Create(p, ConfigFile, "body")
    BY <1>c, <2>1 DEF At
  <2>2. CASE At(p, "init", "body") /\ WriteScaffold(p, ConfigFile, Go(p, "load"))
    <3>1. Creates(p) /\ ConfigFile \in Own(p)
      BY <2>2 DEF At, Creates, InitInv
    <3> QED
      BY <1>f, <1>g, <2>2, <3>1 DEF WriteScaffold, ByInit, diskVars
  <2> QED
    BY <1>3, <2>1, <2>2 DEF CreateConfig
<1>4. CASE LoadConfig(p)
  <2>1. Creates(p) /\ UNCHANGED seen
    BY <1>4 DEF LoadConfig, At, Creates, diskVars
  <2> QED
    BY <1>4, <1>e, <1>g, <2>1 DEF LoadConfig
<1>5. CASE CreateSops(p)
  <2>1. CASE At(p, "init", "sops") /\ Create(p, SopsFile, "sopsbody")
    BY <1>c, <2>1 DEF At
  <2>2. CASE At(p, "init", "sopsbody") /\ WriteScaffold(p, SopsFile, Ended(p, "done"))
    <3>1. Creates(p) /\ SopsFile \in Own(p)
      BY <2>2 DEF At, Creates, InitInv
    <3> QED
      BY <1>f, <1>g, <2>2, <3>1 DEF WriteScaffold, ByInit, diskVars
  <2> QED
    BY <1>5, <2>1, <2>2 DEF CreateSops
<1>6. CASE Undo(p)
  <2>0. At(p, "init", "undo") =>
          /\ Creates(p)
          /\ \A k \in Own(p) : Exists(k) /\ k \notin theirs
          /\ \A k \in Paths : seen[k] = ByInit(p) => k \in Own(p)
          /\ \A o \in Procs \ {p} : Creates(o) => Own(o) \cap Own(p) = {}
    BY DEF At, Creates, InitInv
  <2>1. ASSUME At(p, "init", "undo"), NEW q \in Own(p), Remove({q}), Become(p, [proc[p] EXCEPT !.made = @ \ {q}])
        PROVE  InitInv'
    <3> DEFINE r == [proc[p] EXCEPT !.made = @ \ {q}]
    <3>1. r.cmd = "init" /\ r.at = "undo" /\ r.serial = proc[p].serial /\ r.made = proc[p].made \ {q}
      BY <1>0, <2>1 DEF Process, At
    <3>2. Become(p, r)
      BY <2>1
    <3> HIDE DEF r
    <3>3. proc'[p] = r /\ \A o \in Procs \ {p} : proc'[o] = proc[o]
      BY <3>2, BecomeOne
    <3>4. Own(p)' = Own(p) \ {q}
      BY <3>1, <3>3 DEF Own
    <3>5. q \in Paths /\ seen'[q] = NoFile /\ \A k \in Paths \ {q} : seen'[k] = seen[k]
      BY <1>0, <2>1 DEF Remove
    <3>6. NoFile.kind # "init"
      BY DEF NoFile, File
    <3>7. \A k \in Own(p)' : Exists(k)' /\ k \notin theirs
      BY <1>0, <2>0, <2>1, <3>4, <3>5 DEF Exists
    <3>8. \A k \in Paths : seen'[k] = ByInit(p) => k \in Own(p)'
      BY <1>0, <2>0, <2>1, <3>4, <3>5, <3>6
    <3>9. /\ {q} \cap theirs = {}
          /\ \A o \in Procs \ {p} : Creates(o) => Own(o) \cap {q} = {} /\ Own(p)' \cap Own(o) = {}
      BY <2>0, <2>1, <3>4
    <3>10. proc'[p].cmd = "init" /\ proc'[p].at = "undo" /\ proc'[p].serial = proc[p].serial
      BY <3>1, <3>3
    <3>I. Inits(p, {q})
      BY <1>0, <3>3, <3>5, <3>6, <3>7, <3>8, <3>9, <3>10 DEF Inits, Preparing
    <3> QED
      BY <3>I, InitStep
  <2>r. ASSUME At(p, "init", "undo"), Own(p) = {}, Go(p, "rmdir"), UNCHANGED diskVars
        PROVE  InitInv'
    <3>1. /\ proc'[p].cmd = "init" /\ proc'[p].at = "rmdir" /\ proc'[p].serial = proc[p].serial
          /\ ~Creates(p)'
          /\ \A o \in Procs \ {p} : proc'[o] = proc[o]
      BY <1>0, <2>r, GoOne DEF Creates
    <3>2. UNCHANGED seen /\ \A k \in Paths : seen'[k] # ByInit(p)
      BY <2>0, <2>r DEF diskVars
    <3>I. Inits(p, {})
      BY <1>0, <3>1, <3>2 DEF Inits, Preparing
    <3> QED
      BY <3>I, InitStep
  <2>2. CASE At(p, "init", "rmdir") /\ (Remove({Dir}) \/ UNCHANGED diskVars) /\ Ended(p, "failed")
    <3>0. \A q \in Paths : seen[q] # ByInit(p)
      BY <2>2 DEF At, InitInv
    <3>1. CASE UNCHANGED diskVars
      BY <1>e, <2>2, <3>0, <3>1 DEF diskVars
    <3>2. CASE Remove({Dir})
      <4>1. /\ proc'[p].cmd = "init" /\ proc'[p].at = "failed" /\ proc'[p].serial = proc[p].serial
            /\ ~Creates(p)'
            /\ \A o \in Procs \ {p} : proc'[o] = proc[o]
        BY <1>0, <2>2, EndedOne DEF Creates
      <4>2. /\ \A k \in Paths \ {Dir} : seen'[k] = seen[k]
            /\ seen'[Dir].kind # "init"
        BY <3>2, PathsThere DEF Remove, NoFile, File
      <4>3. {Dir} \cap theirs = {} /\ \A o \in Procs \ {p} : Own(o) \cap {Dir} = {}
        BY <1>t, <1>d
      <4>4. \A k \in Paths : seen'[k] # ByInit(p)
        BY <1>0, <3>0, <4>2
      <4>I. Inits(p, {Dir})
        BY <1>0, <4>1, <4>2, <4>3, <4>4 DEF Inits, Preparing
      <4> QED
        BY <4>I, InitStep
    <3> QED
      BY <2>2, <3>1, <3>2
  <2> QED
    BY <1>6, <2>1, <2>r, <2>2 DEF Undo, Own
<1> QED
  BY <1>1, <1>2, <1>3, <1>4, <1>5, <1>6 DEF ScaffoldStep

HalfInv == WholeInv /\ HiddenInv /\ InitInv

(* An init leaves what is replaced alone, and what hides it. *)
Apart ==
  /\ \A q \in Replaced \cup {Ignore} : seen'[q] = seen[q]
  /\ dirty' \cap Replaced \subseteq dirty

LEMMA ScaffoldApart ==
  ASSUME Typed, NEW p \in Procs, ScaffoldStep(p)
  PROVE  Apart
<1> USE DEF Typed
<1>0. Replaced \cup {Ignore} \subseteq Paths /\ {Dir, ConfigFile, SopsFile} \cap (Replaced \cup {Ignore}) = {}
  BY PathsDiffer, PathsThere, PathsApart
<1>a. proc[p].made \subseteq {Dir, ConfigFile, SopsFile}
  BY DEF AllFit, Process
<1>1. ASSUME NEW q \in {Dir, ConfigFile, SopsFile}, NEW f, seen' = [seen EXCEPT ![q] = f], dirty' \subseteq dirty \cup {q}
      PROVE  Apart
  BY <1>0, <1>1 DEF Apart, DiskTypeOK
<1>2. ASSUME NEW S \in SUBSET {Dir, ConfigFile, SopsFile}, Remove(S) PROVE Apart
  BY <1>0, <1>2 DEF Apart, Remove
<1>3. ASSUME UNCHANGED <<seen, dirty>> PROVE Apart
  BY <1>3 DEF Apart
<1>4. CASE CheckScaffold(p) \/ LoadConfig(p)
  BY <1>3, <1>4 DEF CheckScaffold, LoadConfig, diskVars
<1>5. CASE MakeDir(p)
  BY <1>1, <1>3, <1>5 DEF MakeDir, diskVars
<1>6. CASE CreateConfig(p) \/ CreateSops(p)
  BY <1>1, <1>3, <1>6 DEF CreateConfig, CreateSops, Create, WriteScaffold, Truncate, Fill, diskVars
<1>7. CASE Undo(p)
  <2>1. proc[p].made \ {Dir} \in SUBSET {Dir, ConfigFile, SopsFile} /\ {Dir} \in SUBSET {Dir, ConfigFile, SopsFile}
    BY <1>a
  <2> QED
    BY <1>2, <1>3, <1>7, <2>1 DEF Undo, diskVars
<1> QED
  BY <1>4, <1>5, <1>6, <1>7 DEF ScaffoldStep

LEMMA ScaffoldAside ==
  ASSUME Typed, WholeInv, HiddenInv, NEW p \in Procs, ScaffoldStep(p)
  PROVE  WholeInv' /\ HiddenInv'
<1> USE DEF Typed
<1>1. proc[p].cmd = "init" /\ proc[p] \in Process /\ proc[p].made \subseteq {Dir, ConfigFile, SopsFile} /\ UNCHANGED kept
  BY DEF ScaffoldStep, CheckScaffold, MakeDir, CreateConfig, LoadConfig, CreateSops, Undo, Create, WriteScaffold,
       Truncate, Fill, Remove, diskVars, At, AllFit, Process
<1>2. /\ \A q \in Procs \ {p} : proc'[q] = proc[q]
      /\ proc'[p].old \in {proc[p].old, NoFile}
      /\ ~PastIgnore(proc'[p])
  <2>1. ASSUME NEW at \in {"create", "load", "sops", "undo", "rmdir"}, Go(p, at) PROVE <1>2!:
    BY <2>1, GoOne DEF PastIgnore
  <2>2. ASSUME NEW how \in Over, Ended(p, how) PROVE <1>2!:
    BY <2>2, EndedOne DEF PastIgnore, Over
  <2>3. ASSUME NEW at \in {"mkdir", "body", "sopsbody"}, NEW made, Become(p, [proc[p] EXCEPT !.at = at, !.made = made])
        PROVE  <1>2!:
    <3>1. /\ [proc[p] EXCEPT !.at = at, !.made = made].old = proc[p].old
          /\ [proc[p] EXCEPT !.at = at, !.made = made].at = at
      BY <1>1 DEF Process
    <3> QED
      BY <2>3, <3>1, BecomeOne DEF PastIgnore
  <2>4. ASSUME NEW q, At(p, "init", "undo"), Become(p, [proc[p] EXCEPT !.made = @ \ {q}])
        PROVE  <1>2!:
    <3>1. /\ [proc[p] EXCEPT !.made = @ \ {q}].old = proc[p].old
          /\ [proc[p] EXCEPT !.made = @ \ {q}].at = "undo"
      BY <1>1, <2>4 DEF At, Process
    <3> QED
      BY <2>4, <3>1, BecomeOne DEF PastIgnore
  <2> QED
    BY <2>1, <2>2, <2>3, <2>4 DEF ScaffoldStep, CheckScaffold, MakeDir, CreateConfig, LoadConfig, CreateSops, Undo, Create,
         WriteScaffold, Over
<1>3. /\ \A q \in Replaced \cup {Ignore} : seen'[q] = seen[q]
      /\ dirty' \cap Replaced \subseteq dirty
  BY ScaffoldApart DEF Apart
<1>4. WholeInv'
  BY <1>1, <1>2, <1>3 DEF WholeInv, Whole, NoFile, File
<1>5. HiddenInv'
  BY <1>1, <1>2, <1>3, PathsDiffer DEF HiddenInv, Hidden, Hides
<1> QED
  BY <1>4, <1>5

LEMMA WorksHalf ==
  ASSUME Typed, theirs \subseteq {ConfigFile, SopsFile, Ignore}, HalfInv, NEW p \in Procs, Works(p)
  PROVE  HalfInv'
  BY WorksWhole, WorksHidden, WorksInit DEF HalfInv, Typed

LEMMA KillHalf ==
  ASSUME Typed, HalfInv, NEW S \in SUBSET Procs, proc' = [p \in Procs |-> IF p \in S THEN Idle ELSE proc[p]],
         UNCHANGED <<seen, dirty, kept, count, theirs>>
  PROVE  HalfInv'
<1>1. \A p \in Procs : proc'[p] = Idle \/ proc'[p] = proc[p]
  OBVIOUS
<1>2. Idle.cmd = "none" /\ Idle.at = "idle" /\ Idle.old = NoFile /\ Whole(NoFile) /\ ~PastIgnore(Idle)
  BY DEF Idle, Whole, NoFile, File, PastIgnore
<1>3. WholeInv'
  BY <1>1, <1>2 DEF HalfInv, WholeInv
<1>4. HiddenInv'
  BY <1>1, <1>2 DEF HalfInv, HiddenInv, Hidden, Hides
<1>5. \A p \in Procs : proc'[p].cmd # "none" => proc'[p] = proc[p]
  BY <1>1, <1>2
<1>6. \A p \in Procs : proc'[p].at \in {"unignored", "ignoring"} => proc'[p] = proc[p]
  BY <1>1, <1>2
<1>7. \A p \in Procs : Creates(p)' => Creates(p) /\ Own(p)' = Own(p) /\ ByInit(p)' = ByInit(p) /\ proc'[p].at = proc[p].at
  BY <1>5 DEF Creates, Own, ByInit
<1>8. \A p \in Procs : proc'[p].cmd = "init" =>
        proc[p].cmd = "init" /\ proc'[p].at = proc[p].at /\ Own(p)' = Own(p) /\ ByInit(p)' = ByInit(p)
  BY <1>5 DEF Own, ByInit
<1>9. InitInv'
  BY <1>5, <1>6, <1>7, <1>8 DEF HalfInv, InitInv, Exists
<1> QED
  BY <1>3, <1>4, <1>9 DEF HalfInv

LEMMA TypeHalf ==
  ASSUME Typed, count \in Nat, HalfInv, NEW p \in Procs, Type(p)
  PROVE  HalfInv'
<1>1. PICK cmd \in {"generate", "init", "render", "reach"}, flag \in BOOLEAN :
        Become(p, [Idle EXCEPT !.cmd = cmd, !.at = "start", !.serial = count + 1, !.flag = flag])
  BY DEF Type
<1> DEFINE r == [Idle EXCEPT !.cmd = cmd, !.at = "start", !.serial = count + 1, !.flag = flag]
<1>2. r.cmd = cmd /\ r.at = "start" /\ r.serial = count + 1 /\ r.old = NoFile /\ r.made = {}
  BY DEF Idle
<1> HIDE DEF r
<1>3. proc'[p] = r /\ \A o \in Procs \ {p} : proc'[o] = proc[o]
  BY <1>1, BecomeOne DEF r, Typed
<1>4. count' = count + 1 /\ UNCHANGED <<seen, dirty, kept, theirs>>
  BY DEF Type, diskVars
<1>5. WholeInv'
  BY <1>2, <1>3, <1>4 DEF HalfInv, WholeInv, Whole, NoFile, File
<1>6. HiddenInv'
  BY <1>2, <1>3, <1>4 DEF HalfInv, HiddenInv, Hidden, Hides, PastIgnore
<1>7. Own(p)' = {} /\ ~Creates(p)' /\ ByInit(p)' = File("init", count + 1)
  BY <1>2, <1>3 DEF Own, Creates, ByInit
<1>8. \A o \in Procs \ {p} : Own(o)' = Own(o) /\ Creates(o)' = Creates(o) /\ ByInit(o)' = ByInit(o)
  BY <1>3 DEF Own, Creates, ByInit
<1>9. \A q \in Paths : seen[q] # File("init", count + 1)
  <2>1. File("init", count + 1).kind = "init" /\ File("init", count + 1).of = count + 1 /\ ~(count + 1 <= count)
    BY DEF File
  <2> QED
    BY <2>1 DEF HalfInv, InitInv
<1>10. \A o \in Procs : proc'[o].cmd # "none" => proc'[o].serial <= count + 1
  <2>1. ASSUME NEW o \in Procs \ {p}, proc[o].cmd # "none" PROVE proc[o].serial <= count + 1
    <3>1. proc[o].serial <= count
      BY <2>1 DEF HalfInv, InitInv
    <3>2. proc[o] \in Process
      BY DEF Typed, AllFit
    <3>3. proc[o].serial \in 0 .. MaxCommands
      BY <3>2 DEF Process
    <3>4. proc[o].serial \in Nat
      BY <3>3, DiskAssumption
    <3> QED
      BY <3>1, <3>4
  <2> QED
    BY <1>2, <1>3, <2>1
<1>11. \A o \in Procs \ {p} : proc[o].cmd # "none" => proc[o].serial # count + 1
  BY DEF HalfInv, InitInv
<1>12. ASSUME NEW q \in Paths
       PROVE  /\ seen[q].kind = "init" => seen[q].of <= count + 1
              /\ kept[q].kind = "init" => kept[q].of <= count + 1
  <2>1. /\ seen[q].kind = "init" => seen[q].of <= count
        /\ kept[q].kind = "init" => kept[q].of <= count
    BY DEF HalfInv, InitInv
  <2>2. seen[q].of \in Nat /\ kept[q].of \in Nat
    BY DiskAssumption DEF Typed, DiskTypeOK, Content
  <2> QED
    BY <2>1, <2>2
<1>13. InitInv'
  <2>1. \A o, q \in Procs : o # q /\ proc'[o].cmd # "none" /\ proc'[q].cmd # "none" => proc'[o].serial # proc'[q].serial
    BY <1>2, <1>3, <1>11 DEF HalfInv, InitInv
  <2>2. \A o \in Procs : proc'[o].at \in {"unignored", "ignoring"} => Ignore \notin theirs'
    BY <1>2, <1>3, <1>4 DEF HalfInv, InitInv
  <2>3. \A o \in Procs : proc'[o].cmd = "init" /\ proc'[o].at \in {"start", "mkdir", "create", "rmdir", "failed"} =>
          \A q \in Paths : seen'[q] # ByInit(o)'
    BY <1>3, <1>4, <1>7, <1>8, <1>9 DEF HalfInv, InitInv
  <2>4. \A o \in Procs : proc'[o].cmd = "init" /\ proc'[o].at \in {"start", "mkdir", "create"} => Own(o)' = {}
    BY <1>3, <1>7, <1>8 DEF HalfInv, InitInv
  <2>5. \A o \in Procs : Creates(o)' =>
          /\ \A q \in Own(o)' : Exists(q)' /\ q \notin theirs'
          /\ \A q \in Paths : seen'[q] = ByInit(o)' => q \in Own(o)'
          /\ proc'[o].at = "body" => ConfigFile \in Own(o)'
          /\ proc'[o].at = "sopsbody" => SopsFile \in Own(o)'
    BY <1>3, <1>4, <1>7, <1>8 DEF HalfInv, InitInv, Exists
  <2>6. \A o, q \in Procs : o # q /\ Creates(o)' /\ Creates(q)' => Own(o)' \cap Own(q)' = {}
    BY <1>7, <1>8 DEF HalfInv, InitInv
  <2>7. \A q \in theirs' : seen'[q].kind = "operator"
    BY <1>4 DEF HalfInv, InitInv
  <2> QED
    BY <1>4, <1>10, <1>12, <2>1, <2>2, <2>3, <2>4, <2>5, <2>6, <2>7 DEF InitInv
<1> QED
  BY <1>5, <1>6, <1>13 DEF HalfInv

LEMMA EditHalf ==
  ASSUME Typed, theirs \subseteq {ConfigFile, SopsFile, Ignore}, HalfInv, Edit
  PROVE  HalfInv'
<1>1. PICK q \in {ConfigFile, SopsFile} :
        ~Exists(q) /\ seen' = [seen EXCEPT ![q] = File("operator", 0)] /\ theirs' = theirs \cup {q}
  BY DEF Edit
<1>2. UNCHANGED <<dirty, kept, proc, count>>
  BY DEF Edit
<1>3. q \in Paths /\ q \notin Replaced /\ q # Ignore
  BY PathsDiffer, PathsThere, PathsApart
<1>4. seen'[q].kind = "operator" /\ \A k \in Paths \ {q} : seen'[k] = seen[k]
  BY <1>1, <1>3 DEF Typed, DiskTypeOK, File
<1>5. WholeInv'
  BY <1>2, <1>3, <1>4, PathsDiffer DEF HalfInv, WholeInv
<1>6. HiddenInv'
  BY <1>2, <1>3, <1>4, PathsDiffer, PathsThere DEF HalfInv, HiddenInv, Hidden, Hides
<1>7. \A p \in Procs : /\ ByInit(p)' = ByInit(p) /\ Own(p)' = Own(p) /\ Creates(p)' = Creates(p)
                      /\ ByInit(p).kind = "init"
  BY <1>2 DEF ByInit, Own, Creates, File
<1>8. \A p \in Procs : Creates(p) => q \notin Own(p)
  BY <1>1 DEF HalfInv, InitInv
<1>9. seen'[q] # NoFile /\ \A p \in Procs : seen'[q] # ByInit(p)
  BY <1>4, <1>7 DEF NoFile, File
<1>10. \A p \in Procs : Creates(p) => Own(p) \subseteq Paths
  <2>1. \A p \in Procs : proc[p].made \subseteq {Dir, ConfigFile, SopsFile}
    BY DEF Typed, AllFit, Process
  <2> QED
    BY <2>1, PathsThere DEF Own
<1>11. \A p \in Procs : Creates(p)' => \A k \in Own(p)' : Exists(k)' /\ k \notin theirs'
  BY <1>1, <1>4, <1>7, <1>8, <1>10 DEF HalfInv, InitInv, Exists
<1>12. \A p \in Procs : Creates(p)' => \A k \in Paths : seen'[k] = ByInit(p)' => k \in Own(p)'
  BY <1>4, <1>7, <1>9 DEF HalfInv, InitInv
<1>13. \A p \in Procs : proc'[p].cmd = "init" /\ proc'[p].at \in {"start", "mkdir", "create", "rmdir", "failed"} =>
         \A k \in Paths : seen'[k] # ByInit(p)'
  BY <1>2, <1>4, <1>7, <1>9 DEF HalfInv, InitInv
<1>14. \A k \in theirs' : seen'[k].kind = "operator"
  <2>1. \A k \in theirs : k \in Paths
    BY PathsThere
  <2> QED
    BY <1>1, <1>4, <2>1 DEF HalfInv, InitInv
<1>15. ASSUME NEW k \in Paths
       PROVE  /\ seen'[k].kind = "init" => seen'[k].of <= count'
              /\ kept'[k].kind = "init" => kept'[k].of <= count'
  BY <1>2, <1>4 DEF HalfInv, InitInv
<1>16. \A p \in Procs : proc'[p].at \in {"unignored", "ignoring"} => Ignore \notin theirs'
  BY <1>1, <1>2, <1>3 DEF HalfInv, InitInv
<1>17. InitInv'
  BY <1>2, <1>7, <1>11, <1>12, <1>13, <1>14, <1>15, <1>16 DEF HalfInv, InitInv
<1> QED
  BY <1>5, <1>6, <1>17 DEF HalfInv

LEMMA FlushHalf ==
  ASSUME Typed, HalfInv, WriteBack
  PROVE  HalfInv'
<1>1. PICK late \in SUBSET dirty :
        kept' = [q \in Paths |-> IF q \in late THEN Empty ELSE seen[q]] /\ dirty' = late /\ UNCHANGED seen
  BY DEF WriteBack, Flush
<1>2. UNCHANGED <<proc, count, theirs>>
  BY DEF WriteBack, world
<1>3. \A q \in Replaced : kept'[q] = seen[q]
  BY <1>1, PathsDiffer DEF HalfInv, WholeInv
<1>4. \A q \in Paths : kept'[q] = seen[q] \/ kept'[q].kind = "empty"
  BY <1>1 DEF Empty, File
<1>5. WholeInv'
  BY <1>1, <1>2, <1>3 DEF HalfInv, WholeInv
<1>6. HiddenInv'
  BY <1>1, <1>2, <1>3, <1>4, PathsDiffer, PathsThere DEF HalfInv, HiddenInv, Hidden, Hides
<1>7. ASSUME NEW k \in Paths
      PROVE  /\ seen'[k].kind = "init" => seen'[k].of <= count'
             /\ kept'[k].kind = "init" => kept'[k].of <= count'
  <2>1. seen[k].kind = "init" => seen[k].of <= count
    BY DEF HalfInv, InitInv
  <2> QED
    BY <1>1, <1>2, <1>4, <2>1
<1>8. InitInv'
  BY <1>1, <1>2, <1>7 DEF HalfInv, InitInv, Creates, Own, ByInit, Exists
<1> QED
  BY <1>5, <1>6, <1>8 DEF HalfInv

LEMMA PowerLossHalf ==
  ASSUME Typed, HalfInv, PowerLoss
  PROVE  HalfInv'
<1>1. /\ seen' = kept /\ dirty' = {} /\ UNCHANGED <<kept, count>> /\ theirs' = {q \in theirs : kept[q].kind = "operator"}
      /\ proc' = [p \in Procs |-> Idle]
  BY DEF PowerLoss, LosePower
<1>2. Idle.cmd = "none" /\ Idle.at = "idle" /\ Whole(Idle.old) /\ ~PastIgnore(Idle)
  BY DEF Idle, Whole, NoFile, File, PastIgnore
<1>3. WholeInv'
  BY <1>1, <1>2 DEF HalfInv, WholeInv
<1>4. HiddenInv'
  BY <1>1, <1>2 DEF HalfInv, HiddenInv, Hidden, Hides
<1>5. \A p \in Procs : proc'[p].cmd = "none" /\ proc'[p].at = "idle" /\ ~Creates(p)'
  BY <1>1, <1>2 DEF Creates
<1>6. ASSUME NEW k \in Paths
      PROVE  /\ seen'[k].kind = "init" => seen'[k].of <= count'
             /\ kept'[k].kind = "init" => kept'[k].of <= count'
  BY <1>1 DEF HalfInv, InitInv
<1>7. InitInv'
  BY <1>1, <1>5, <1>6 DEF InitInv
<1> QED
  BY <1>3, <1>4, <1>7 DEF HalfInv

LEMMA HalfStart == Init => HalfInv
<1> SUFFICES ASSUME Init PROVE HalfInv
  OBVIOUS
<1>1. /\ kept = seen /\ dirty = {} /\ count = 0 /\ proc = [p \in Procs |-> Idle]
      /\ theirs = {p \in Paths : seen[p].kind = "operator"}
  BY DEF Init
<1>2. Idle.cmd = "none" /\ Idle.at = "idle" /\ Whole(Idle.old) /\ ~PastIgnore(Idle)
  BY DEF Idle, Whole, NoFile, File, PastIgnore
<1>3. /\ \A q \in Paths : seen[q].kind \notin {"empty", "init"}
      /\ \A q \in Replaced : Whole(seen[q])
  <2>1. \A q \in Paths : seen[q].kind \notin {"empty", "init"}
    BY DEF Init, Fresh, File, NoFile
  <2>2. File("bundle", 0) \in Finished
    BY Contents, DiskAssumption DEF Finished, Kinds, File
  <2>3. \A q \in Replaced : q \in Paths /\ q \notin {Dir, ConfigFile, Ignore}
    BY PathsDiffer
  <2>4. \A q \in Replaced : seen[q] \in {NoFile, File("bundle", 0)}
    BY <2>3 DEF Init, Fresh
  <2> QED
    BY <2>1, <2>2, <2>4 DEF Whole
<1>4. \A q \in Secrets : seen[q] = NoFile
  BY PathsDiffer, PathsApart, SetsApart DEF Init, Fresh, Secrets
<1>5. WholeInv
  BY <1>1, <1>2, <1>3, PathsDiffer DEF WholeInv, Whole
<1>6. HiddenInv
  BY <1>1, <1>2, <1>4 DEF HiddenInv, Hidden
<1>7. \A p \in Procs : proc[p].cmd = "none" /\ proc[p].at = "idle" /\ ~Creates(p)
  BY <1>1, <1>2 DEF Creates
<1>8. InitInv
  BY <1>1, <1>3, <1>7 DEF InitInv
<1> QED
  BY <1>5, <1>6, <1>8 DEF HalfInv

(* However many commands run at once, and wherever one fails, is killed or *)
(* loses power: the files that are replaced stay whole, what an init has   *)
(* created is its own, and secrets lie beside a .gitignore that is         *)
(* talman's, cut short or not.                                             *)
LEMMA HalfStays == Spec => []HalfInv
<1>1. Init => HalfInv
  BY HalfStart
<1>2. TypeOK /\ AllFit /\ HalfInv /\ [Next]_vars => HalfInv'
  <2> SUFFICES ASSUME TypeOK, AllFit, HalfInv, [Next]_vars PROVE HalfInv'
    OBVIOUS
  <2>0. Typed /\ clock \in Backups /\ count \in Nat /\ theirs \subseteq {ConfigFile, SopsFile, Ignore}
    BY DiskAssumption DEF TypeOK, CommandsTypeOK, Typed
  <2>1. CASE \E p \in Procs : Type(p)
    BY <2>0, <2>1, TypeHalf
  <2>2. CASE \E p \in Procs : GenerateStep(p)
    BY <2>0, <2>2, GenerateWorks, WorksHalf DEF HalfInv
  <2>3. CASE \E p \in Procs : ScaffoldStep(p)
    BY <2>0, <2>3, ScaffoldAside, ScaffoldInit DEF HalfInv
  <2>4. CASE \E p \in Procs : RenderStep(p)
    BY <2>0, <2>4, RenderWorks, WorksHalf
  <2>5. CASE \E p \in Procs : PrepareOutput(p) \/ WriteIgnore(p)
    BY <2>0, <2>5, PreparingWorks, WorksHalf DEF HalfInv
  <2>6. CASE \E p \in Procs : Fail(p)
    BY <2>0, <2>6, FailWorks, WorksHalf
  <2>7. ASSUME NEW p \in Procs, Kill(p) PROVE HalfInv'
    <3>1. proc' = [q \in Procs |-> IF q \in {p} THEN Idle ELSE proc[q]]
      BY <2>0, <2>7 DEF Kill, Become, Typed, AllFit
    <3> QED
      BY <2>0, <2>7, <3>1, KillHalf DEF Kill, diskVars, world
  <2>8. CASE Edit
    BY <2>0, <2>8, EditHalf
  <2>9. CASE Tick \/ UNCHANGED vars
    <3>1. UNCHANGED <<seen, dirty, kept, count, theirs, proc>>
      BY <2>9 DEF Tick, vars, world, diskVars
    <3>2. PICK S \in SUBSET Procs : S = {}
      OBVIOUS
    <3>3. proc' = [q \in Procs |-> IF q \in S THEN Idle ELSE proc[q]]
      BY <3>1, <3>2 DEF AllFit
    <3> QED
      BY <2>0, <3>1, <3>3, KillHalf
  <2>10. CASE WriteBack
    BY <2>0, <2>10, FlushHalf
  <2>11. CASE PowerLoss
    BY <2>0, <2>11, PowerLossHalf
  <2> QED
    BY <2>1, <2>2, <2>3, <2>4, <2>5, <2>6, <2>7, <2>8, <2>9, <2>10, <2>11 DEF Next
<1> QED
  BY <1>1, <1>2, Fits, PTL DEF Spec

(* No file written in place is empty but while it is written, or since     *)
(* that was cut short.                                                     *)
LEMMA InPlaceApart ==
  /\ InPlace \subseteq Paths
  /\ InPlace \cap (Replaced \cup {Dir}) = {}
  BY PathsDiffer, PathsThere, PathsApart DEF InPlace

(* What a step of one process must see to: C are the paths it changes.     *)
LEMMA WholeStep ==
  ASSUME InPlaceWhole, NEW p \in Procs, NEW C,
         \A o \in Procs \ {p} : proc'[o] = proc[o],
         \A q \in InPlace \ C : /\ seen'[q] = seen[q]
                                /\ q \in cut => q \in cut'
                                /\ Writing(p, q) /\ seen[q].kind = "empty" => HalfWritten(q)',
         \A q \in InPlace \cap C : seen'[q].kind = "empty" => HalfWritten(q)'
  PROVE  InPlaceWhole'
<1>1. ASSUME NEW q \in InPlace \ C, seen'[q].kind = "empty" PROVE HalfWritten(q)'
  <2>1. seen[q].kind = "empty"
    BY <1>1
  <2>2. CASE q \in cut
    BY <2>2 DEF HalfWritten
  <2>3. CASE Writing(p, q)
    BY <2>1, <2>3
  <2>4. ASSUME NEW o \in Procs \ {p}, Writing(o, q) PROVE HalfWritten(q)'
    BY <2>4 DEF HalfWritten, Writing
  <2> QED
    BY <2>1, <2>2, <2>3, <2>4 DEF InPlaceWhole, HalfWritten
<1>2. InPlace' = InPlace
  BY DEF InPlace
<1> QED
  BY <1>1, <1>2 DEF InPlaceWhole

LEMMA WholePut ==
  ASSUME InPlaceWhole, NEW p \in Procs, NEW k,
         \A o \in Procs \ {p} : proc'[o] = proc[o],
         \A q \in InPlace \ {k} : /\ seen'[q] = seen[q]
                                  /\ q \in cut => q \in cut'
                                  /\ Writing(p, q) => Writing(p, q)',
         seen'[k].kind = "empty" => Writing(p, k)'
  PROVE  InPlaceWhole'
<1>1. PICK C : C = {k}
  OBVIOUS
<1>2. \A q : Writing(p, q)' => HalfWritten(q)'
  BY DEF HalfWritten, Writing
<1> QED
  BY <1>1, <1>2, WholeStep

(* A step of a process that is not in the middle of a file.                *)
LEMMA WholeElsewhere ==
  ASSUME InPlaceWhole, NEW p \in Procs, \A o \in Procs \ {p} : proc'[o] = proc[o],
         proc[p].at \notin {"ignoring", "body", "sopsbody", "undo"}, UNCHANGED cut,
         \A q \in InPlace : seen'[q] = seen[q]
  PROVE  InPlaceWhole'
<1>1. \A q \in InPlace : ~Writing(p, q)
  BY DEF Writing
<1>2. PICK C : C = {}
  OBVIOUS
<1> QED
  BY <1>1, <1>2, WholeStep

LEMMA GenerateWhole ==
  ASSUME Typed, InPlaceWhole, WholeInv, NEW p \in Procs, GenerateStep(p)
  PROVE  InPlaceWhole'
<1> USE DEF Typed
<1>1. Works(p)
  BY GenerateWorks
<1>2. proc[p].at \notin {"unignored", "ignoring", "body", "sopsbody", "undo"} /\ UNCHANGED cut
  BY DEF GenerateStep, CheckBundle, ReadOldBundle, NameBackup, KeepBundle, ReplaceBundle, At, world
<1>3. \A q \in InPlace : seen'[q] = seen[q]
  BY <1>1, <1>2, InPlaceApart DEF Works, Puts, DiskTypeOK
<1> QED
  BY <1>1, <1>2, <1>3, WholeElsewhere DEF Works, Moves

LEMMA RenderWhole ==
  ASSUME Typed, InPlaceWhole, NEW p \in Procs, RenderStep(p)
  PROVE  InPlaceWhole'
<1> USE DEF Typed
<1>1. Works(p) /\ UNCHANGED cut
  BY RenderWorks, RenderTypes
<1>2. proc[p].at \notin {"unignored", "ignoring", "body", "sopsbody", "undo"}
  BY DEF RenderStep, EnsureTalosconfig, Open, RenderNode, Rendered, WriteConfig, WriteTalosconfig, At
<1>3. \A q \in InPlace : seen'[q] = seen[q]
  BY <1>1, <1>2, InPlaceApart DEF Works, Puts, DiskTypeOK
<1> QED
  BY <1>1, <1>2, <1>3, WholeElsewhere DEF Works, Moves

LEMMA PreparingWhole ==
  ASSUME Typed, InPlaceWhole, HiddenInv, NEW p \in Procs, PrepareOutput(p) \/ WriteIgnore(p)
  PROVE  InPlaceWhole'
<1> USE DEF Typed
<1>0. \A o \in Procs \ {p} : proc'[o] = proc[o]
  BY PreparingWorks DEF Works, Moves
<1>i. Ignore \in Paths
  BY PathsThere
<1>1. CASE PrepareOutput(p)
  BY <1>0, <1>1, WholeElsewhere DEF PrepareOutput, diskVars, world
<1>2. CASE proc[p].at = "unignored" /\ Truncate(Ignore) /\ Go(p, "ignoring") /\ UNCHANGED cut
  <2>1. Writing(p, Ignore)'
    BY <1>2, GoOne DEF Writing
  <2>2. \A q \in InPlace \ {Ignore} : seen'[q] = seen[q] /\ ~Writing(p, q)
    BY <1>2, InPlaceApart DEF Truncate, DiskTypeOK, Writing
  <2> QED
    BY <1>0, <1>2, <2>1, <2>2, WholePut
<1>3. CASE proc[p].at = "ignoring" /\ Fill(Ignore, File("rule", 0)) /\ cut' = cut \ {Ignore}
  <2>1. seen'[Ignore].kind = "rule"
    BY <1>3, <1>i DEF Fill, DiskTypeOK, File
  <2>2. \A q \in InPlace \ {Ignore} : seen'[q] = seen[q] /\ ~Writing(p, q)
    BY <1>3, InPlaceApart DEF Fill, DiskTypeOK, Writing
  <2> QED
    BY <1>0, <1>3, <2>1, <2>2, WholePut
<1> QED
  BY <1>1, <1>2, <1>3 DEF WriteIgnore

(* Failed or killed: what it was writing is cut short.                     *)
LEMMA DeadWhole ==
  ASSUME Typed, InPlaceWhole, NEW p \in Procs, Fail(p) \/ Kill(p)
  PROVE  InPlaceWhole'
<1>1. \A o \in Procs \ {p} : proc'[o] = proc[o]
  BY EndedOne, BecomeOne DEF Fail, Kill, Typed
<1>2. UNCHANGED seen /\ CutShort(p)
  BY DEF Fail, Kill, diskVars
<1>3. PICK C : C = {}
  OBVIOUS
<1> QED
  BY <1>1, <1>2, <1>3, WholeStep DEF CutShort, HalfWritten

LEMMA ScaffoldWhole ==
  ASSUME Typed, InPlaceWhole, InitInv, NEW p \in Procs, ScaffoldStep(p)
  PROVE  InPlaceWhole'
<1> USE DEF Typed
<1>0. UNCHANGED cut /\ proc[p] \in Process /\ proc[p].made \subseteq {Dir, ConfigFile, SopsFile}
  BY ScaffoldTypes DEF AllFit, Process, world
<1>a. ASSUME NEW r, Become(p, r) PROVE \A o \in Procs \ {p} : proc'[o] = proc[o]
  BY <1>a, BecomeOne
<1>o. \A o \in Procs \ {p} : proc'[o] = proc[o]
  BY <1>a DEF ScaffoldStep, CheckScaffold, MakeDir, CreateConfig, LoadConfig, CreateSops, Undo, Create,
         WriteScaffold, Go, Ended
<1>s. {ConfigFile, SopsFile} \subseteq InPlace /\ InPlace \subseteq Paths /\ Dir \notin InPlace
  BY InPlaceApart DEF InPlace
<1>1. CASE CheckScaffold(p) \/ MakeDir(p) \/ LoadConfig(p)
  <2>1. proc[p].at \in {"start", "mkdir", "load"}
    BY <1>1 DEF CheckScaffold, MakeDir, LoadConfig, At
  <2>2. \A q \in InPlace : seen'[q] = seen[q]
    BY <1>1, <1>s DEF CheckScaffold, MakeDir, LoadConfig, diskVars, DiskTypeOK
  <2> QED
    BY <1>0, <1>o, <2>1, <2>2, WholeElsewhere
<1>2. ASSUME NEW q \in {ConfigFile, SopsFile}, NEW to, Create(p, q, to), proc[p].at \in {"create", "sops"},
             <<q, to>> \in {<<ConfigFile, "body">>, <<SopsFile, "sopsbody">>}
      PROVE  InPlaceWhole'
  <2>1. CASE UNCHANGED diskVars
    BY <1>0, <1>o, <1>2, <2>1, WholeElsewhere DEF diskVars
  <2>2. CASE Truncate(q) /\ Become(p, [proc[p] EXCEPT !.at = to, !.made = @ \cup {q}])
    <3>1. [proc[p] EXCEPT !.at = to, !.made = @ \cup {q}].at = to
      BY <1>0 DEF Process
    <3>2. proc'[p].at = to
      BY <2>2, <3>1, BecomeOne
    <3>3. Writing(p, q)'
      BY <1>2, <3>2 DEF Writing
    <3>4. \A k \in InPlace \ {q} : seen'[k] = seen[k] /\ ~Writing(p, k)
      BY <1>2, <1>s, <2>2 DEF Truncate, DiskTypeOK, Writing
    <3> QED
      BY <1>0, <1>o, <3>3, <3>4, WholePut
  <2> QED
    BY <1>2, <2>1, <2>2 DEF Create
<1>3. ASSUME NEW q \in {ConfigFile, SopsFile}, proc[p].cmd = "init",
             <<q, proc[p].at>> \in {<<ConfigFile, "body">>, <<SopsFile, "sopsbody">>},
             \/ Fill(q, File("init", proc[p].serial))
             \/ UNCHANGED diskVars /\ Go(p, "undo")
      PROVE  InPlaceWhole'
  <2>0. \A k \in InPlace \ {q} : ~Writing(p, k)
    BY <1>3 DEF Writing
  <2>1. CASE Fill(q, File("init", proc[p].serial))
    <3>1. seen'[q].kind = "init" /\ \A k \in InPlace \ {q} : seen'[k] = seen[k]
      BY <1>s, <2>1 DEF Fill, DiskTypeOK, File
    <3> QED
      BY <1>0, <1>o, <2>0, <3>1, WholePut
  <2>2. CASE UNCHANGED diskVars /\ Go(p, "undo")
    <3>1. q \in proc[p].made
      BY <1>3 DEF InitInv, Creates, Own
    <3>2. Writing(p, q)'
      BY <2>2, <3>1, GoOne DEF Writing
    <3> QED
      BY <1>0, <1>o, <2>0, <2>2, <3>2, WholeStep DEF HalfWritten, diskVars
  <2> QED
    BY <1>3, <2>1, <2>2
<1>4. CASE Undo(p)
  <2>1. ASSUME At(p, "init", "undo"), NEW q \in proc[p].made \ {Dir}, Remove({q}),
               Become(p, [proc[p] EXCEPT !.made = @ \ {q}])
        PROVE  InPlaceWhole'
    <3>1. /\ [proc[p] EXCEPT !.made = @ \ {q}].at = "undo"
          /\ [proc[p] EXCEPT !.made = @ \ {q}].made = proc[p].made \ {q}
      BY <1>0, <2>1 DEF At, Process
    <3>2. proc'[p].at = "undo" /\ proc'[p].made = proc[p].made \ {q}
      BY <2>1, <3>1, BecomeOne
    <3>3. \A k \in InPlace \ {q} : seen'[k] = seen[k] /\ (Writing(p, k) => Writing(p, k)')
      BY <1>s, <2>1, <3>2 DEF Remove, Writing, At
    <3>4. q \in InPlace /\ seen'[q].kind # "empty"
      BY <1>0, <1>s, <2>1 DEF Remove, NoFile, File
    <3> QED
      BY <1>0, <1>o, <3>3, <3>4, WholePut
  <2>2. CASE At(p, "init", "undo") /\ proc[p].made \ {Dir} = {} /\ UNCHANGED diskVars
    <3>1. \A k \in InPlace : ~Writing(p, k)
      BY <1>s, <2>2 DEF Writing, At
    <3>2. PICK C : C = {}
      OBVIOUS
    <3> QED
      BY <1>0, <1>o, <2>2, <3>1, <3>2, WholeStep DEF diskVars
  <2>3. CASE At(p, "init", "rmdir")
    <3>1. \A q \in InPlace : seen'[q] = seen[q]
      BY <1>4, <1>s, <2>3 DEF Undo, At, Remove, diskVars
    <3> QED
      BY <1>0, <1>o, <2>3, <3>1, WholeElsewhere DEF At
  <2> QED
    BY <1>4, <2>1, <2>2, <2>3 DEF Undo
<1> QED
  BY <1>1, <1>2, <1>3, <1>4 DEF ScaffoldStep, CreateConfig, CreateSops, WriteScaffold, At

LEMMA InPlaceStays == Spec => []InPlaceWhole
<1>1. Init => InPlaceWhole
  <2>1. ASSUME NEW q \in Paths, Init PROVE seen[q].kind # "empty"
    BY <2>1 DEF Init, Fresh, File, NoFile
  <2> QED
    BY <2>1, InPlaceApart DEF InPlaceWhole
<1>2. TypeOK /\ AllFit /\ HalfInv /\ InPlaceWhole /\ [Next]_vars => InPlaceWhole'
  <2> SUFFICES ASSUME TypeOK, AllFit, HalfInv, InPlaceWhole, [Next]_vars PROVE InPlaceWhole'
    OBVIOUS
  <2>0. Typed /\ WholeInv /\ HiddenInv /\ InitInv
    BY DEF TypeOK, Typed, HalfInv
  <2>a. ASSUME UNCHANGED <<seen, proc, cut>> PROVE InPlaceWhole'
    BY <2>a DEF InPlaceWhole, InPlace, HalfWritten, Writing
  <2>1. ASSUME NEW p \in Procs, Type(p) PROVE InPlaceWhole'
    <3>1. \A o \in Procs \ {p} : proc'[o] = proc[o]
      BY <2>0, <2>1, BecomeOne DEF Type, Typed
    <3> QED
      BY <2>1, <3>1, WholeElsewhere DEF Type, Over, diskVars
  <2>2. CASE \E p \in Procs : GenerateStep(p) \/ ScaffoldStep(p) \/ RenderStep(p)
    BY <2>0, <2>2, GenerateWhole, ScaffoldWhole, RenderWhole
  <2>3. CASE \E p \in Procs : PrepareOutput(p) \/ WriteIgnore(p)
    BY <2>0, <2>3, PreparingWhole
  <2>4. CASE \E p \in Procs : Fail(p) \/ Kill(p)
    BY <2>0, <2>4, DeadWhole
  <2>5. CASE Edit
    <3>1. PICK q \in {ConfigFile, SopsFile} : seen' = [seen EXCEPT ![q] = File("operator", 0)]
      BY <2>5 DEF Edit
    <3>2. \A k \in InPlace : seen'[k] = seen[k] \/ seen'[k].kind # "empty"
      BY <2>0, <3>1, InPlaceApart DEF Typed, DiskTypeOK, File
    <3> QED
      BY <2>5, <3>2 DEF Edit, InPlaceWhole, InPlace, HalfWritten, Writing
  <2>6. CASE Tick \/ UNCHANGED vars
    BY <2>a, <2>6 DEF Tick, vars, world, diskVars
  <2>7. CASE WriteBack
    BY <2>a, <2>7 DEF WriteBack, Flush, world
  <2>8. CASE PowerLoss
    BY <2>8 DEF PowerLoss, LosePower, InPlaceWhole, InPlace, HalfWritten
  <2> QED
    BY <2>1, <2>2, <2>3, <2>4, <2>5, <2>6, <2>7, <2>8 DEF Next
<1> QED
  BY <1>1, <1>2, Fits, HalfStays, PTL DEF Spec

-----------------------------------------------------------------------------
(* The commands implement AtomicFiles.                                     *)

(* What a reader of the files that are replaced can see, and could see     *)
(* after a power loss.                                                     *)
View == [q \in Replaced |-> seen[q]]
Left == [q \in Replaced |-> kept[q]]

LEMMA ViewStays ==
  ASSUME \A q \in Replaced : seen'[q] = seen[q], \A q \in Replaced : kept'[q] = kept[q]
  PROVE  UNCHANGED <<View, Left>>
  BY DEF View, Left

(* A step of a command replaces one file by a finished one, or none.       *)
LEMMA WorksReplace ==
  ASSUME DiskTypeOK, NEW p \in Procs, Works(p)
  PROVE  Store!Next \/ UNCHANGED <<View, Left>>
<1>1. UNCHANGED kept
  BY DEF Works
<1>2. CASE UNCHANGED <<seen, dirty>>
  BY <1>1, <1>2, ViewStays
<1>3. ASSUME NEW q \in Replaced, NEW f \in Finished, seen' = [seen EXCEPT ![q] = f]
      PROVE  Store!Next
  <2>1. /\ View'[q] = f
        /\ View' = [View EXCEPT ![q] = f]
        /\ Left' = Left
    BY <1>1, <1>3, PathsDiffer DEF View, Left, DiskTypeOK
  <2>2. Store!Replace(q)
    BY <1>3, <2>1 DEF Store!Replace, View, Left
  <2> QED
    BY <2>2 DEF Store!Next
<1>4. ASSUME NEW f \in Content, seen' = [seen EXCEPT ![Ignore] = f]
      PROVE  UNCHANGED <<View, Left>>
  BY <1>1, <1>4, PathsDiffer, PathsThere, ViewStays DEF DiskTypeOK
<1> QED
  BY <1>2, <1>3, <1>4 DEF Works, Puts

(* Every step is one of AtomicFiles', or changes nothing of what it is     *)
(* about: nothing dirty is replaced, so a writeback leaves all of it.      *)
LEMMA StepsReplace ==
  ASSUME TypeOK, AllFit, HalfInv, [Next]_vars
  PROVE  Store!Next \/ UNCHANGED <<View, Left>>
<1>0. Typed /\ clock \in Backups
  BY DEF TypeOK, CommandsTypeOK, Typed
<1>1. ASSUME UNCHANGED <<seen, kept>> PROVE UNCHANGED <<View, Left>>
  BY <1>1, ViewStays
<1>2. CASE \E p \in Procs : Type(p) \/ Kill(p)
  BY <1>1, <1>2 DEF Type, Kill, diskVars
<1>3. CASE \E p \in Procs : GenerateStep(p)
  BY <1>0, <1>3, GenerateWorks, WorksReplace DEF HalfInv, Typed
<1>4. CASE \E p \in Procs : ScaffoldStep(p)
  <2>1. ASSUME NEW p \in Procs, ScaffoldStep(p) PROVE UNCHANGED <<View, Left>>
    <3>1. UNCHANGED kept
      BY <2>1 DEF ScaffoldStep, CheckScaffold, MakeDir, CreateConfig, LoadConfig, CreateSops, Undo, Create, WriteScaffold,
           Truncate, Fill, Remove, diskVars
    <3> QED
      BY <1>0, <2>1, <3>1, ScaffoldApart, ViewStays DEF Apart
  <2> QED
    BY <1>4, <2>1
<1>5. CASE \E p \in Procs : RenderStep(p)
  BY <1>0, <1>5, RenderWorks, WorksReplace DEF Typed
<1>6. CASE \E p \in Procs : PrepareOutput(p) \/ WriteIgnore(p)
  BY <1>0, <1>6, PreparingWorks, WorksReplace DEF HalfInv, Typed
<1>7. CASE \E p \in Procs : Fail(p)
  BY <1>0, <1>7, FailWorks, WorksReplace DEF Typed
<1>8. CASE Edit
  <2>1. \A q \in Replaced : seen'[q] = seen[q]
    BY <1>0, <1>8, PathsDiffer DEF Edit, Typed, DiskTypeOK
  <2> QED
    BY <1>8, <2>1, ViewStays DEF Edit
<1>9. CASE Tick \/ UNCHANGED vars
  BY <1>1, <1>9 DEF Tick, vars, diskVars
<1>10. CASE WriteBack
  <2>1. PICK late \in SUBSET dirty :
          kept' = [q \in Paths |-> IF q \in late THEN Empty ELSE seen[q]] /\ UNCHANGED seen
    BY <1>10 DEF WriteBack, Flush
  <2>2. \A q \in Replaced : kept'[q] = seen[q]
    BY <2>1, PathsDiffer DEF HalfInv, WholeInv
  <2>3. Left' = View /\ View' = View
    BY <2>1, <2>2 DEF View, Left
  <2> QED
    BY <2>3 DEF Store!Next, Store!WriteBack, View, Left
<1>11. CASE PowerLoss
  <2>1. View' = Left /\ Left' = Left
    BY <1>11 DEF PowerLoss, LosePower, View, Left
  <2> QED
    BY <2>1 DEF Store!Next, Store!LosePower, View, Left
<1> QED
  BY <1>2, <1>3, <1>4, <1>5, <1>6, <1>7, <1>8, <1>9, <1>10, <1>11 DEF Next

(* The commands of a cluster directory, together and through kills and     *)
(* power losses, implement AtomicFiles: who reads a file that is replaced  *)
(* finds one whole version after another, and none is ever taken away.     *)
THEOREM Atomic == Spec => Store!Spec
<1>1. Init => Store!Init
  <2> SUFFICES ASSUME Init PROVE Store!Init
    OBVIOUS
  <2>1. HalfInv /\ kept = seen
    BY HalfStart DEF Init
  <2> QED
    BY <2>1 DEF Store!Init, Store!AnyVersions, HalfInv, WholeInv, Whole
<1>2. TypeOK /\ AllFit /\ HalfInv /\ [Next]_vars =>
        [Store!Next]_<<[q \in Replaced |-> seen[q]], [q \in Replaced |-> kept[q]]>>
  BY StepsReplace DEF View, Left
<1> QED
  BY <1>1, <1>2, Fits, HalfStays, PTL DEF Spec, Store!Spec

(* However many commands run at once, and wherever one fails, is killed or *)
(* loses power, the files that are replaced are whole, one written in place *)
(* is empty only while it is written or when that was cut short, an init   *)
(* that failed has left nothing, and secrets lie beside a .gitignore that  *)
(* hides them unless that one is being rewritten or was cut short.         *)
THEOREM NothingLeftHalfDone == Spec => NothingHalfDone
<1>1. HalfInv => InitUndone
  BY DEF HalfInv, InitInv, InitUndone, At, ByInit
<1>2. HalfInv /\ InPlaceWhole => Guarded
  <2> SUFFICES ASSUME HalfInv, InPlaceWhole, \E q \in Secrets : seen[q] # NoFile, seen[Ignore].kind # "rule"
               PROVE  HalfWritten(Ignore)
    BY DEF Guarded, Secrets, Exists
  <2>1. seen[Ignore].kind = "empty"
    BY DEF HalfInv, HiddenInv, Hidden, Hides
  <2> QED
    BY <2>1 DEF InPlaceWhole, InPlace
<1> QED
  BY <1>1, <1>2, Atomic, HalfStays, InPlaceStays, PTL DEF NothingHalfDone
=============================================================================
