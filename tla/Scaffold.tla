------------------------------ MODULE Scaffold ------------------------------
(***************************************************************************)
(* `talman init` (cli/init.go): a talman.yaml, and with --age a .sops.yaml, *)
(* in a directory it may have to make, all of it or nothing.               *)
(***************************************************************************)
EXTENDS Commands

FilesOf(p) == {ConfigFile} \cup (IF proc[p].flag THEN {SopsFile} ELSE {})

(* A courtesy, before anything is made: the files are not there yet.       *)
CheckScaffold(p) ==
  /\ At(p, "init", "start")
  /\ IF \E q \in FilesOf(p) : Exists(q)
       THEN Ended(p, "failed")
       ELSE Become(p, [proc[p] EXCEPT !.at = "mkdir", !.made = IF Exists(Dir) THEN {} ELSE {Dir}])
  /\ UNCHANGED <<diskVars, world>>

(* The one step whose failure undoes nothing. *)
MakeDir(p) ==
  /\ At(p, "init", "mkdir")
  /\ \/ Ended(p, "failed") /\ UNCHANGED diskVars
     \/ /\ Go(p, "create")
        /\ seen' = [seen EXCEPT ![Dir] = File("dir", 0)]
        /\ UNCHANGED <<dirty, kept>>
  /\ UNCHANGED world

(* A mutation of Create: opened without O_EXCL, the check held to be enough. *)
CreateAnyway(p, q, to) ==
  IF Exists(Dir)
    THEN Truncate(q) /\ Become(p, [proc[p] EXCEPT !.at = to, !.made = @ \cup {q}])
    ELSE UNCHANGED diskVars /\ Go(p, "undo")

(* Created exclusively, and from then on init's own to undo. *)
Create(p, q, to) ==
  IF Exists(Dir) /\ ~Exists(q)
    THEN Truncate(q) /\ Become(p, [proc[p] EXCEPT !.at = to, !.made = @ \cup {q}])
    ELSE UNCHANGED diskVars /\ Go(p, "undo")

(* Written, or not: what a full disk leaves is undone. *)
WriteScaffold(p, q, how) ==
  \/ Fill(q, File("init", proc[p].serial)) /\ how
  \/ UNCHANGED diskVars /\ Go(p, "undo")

CreateConfig(p) ==
  \/ At(p, "init", "create") /\ Create(p, ConfigFile, "body") /\ UNCHANGED world
  \/ At(p, "init", "body") /\ WriteScaffold(p, ConfigFile, Go(p, "load")) /\ UNCHANGED world

(* Loaded as any config is, which may refuse what init was handed. *)
LoadConfig(p) ==
  /\ At(p, "init", "load")
  /\ \/ Go(p, "undo")
     \/ IF proc[p].flag THEN Go(p, "sops") ELSE Ended(p, "done")
  /\ UNCHANGED <<diskVars, world>>

CreateSops(p) ==
  \/ At(p, "init", "sops") /\ Create(p, SopsFile, "sopsbody") /\ UNCHANGED world
  \/ At(p, "init", "sopsbody") /\ WriteScaffold(p, SopsFile, Ended(p, "done")) /\ UNCHANGED world

(* The files it wrote go, one after the other, and then the directory it   *)
(* made if nothing is in it.                                               *)
Undo(p) ==
  \/ /\ At(p, "init", "undo")
     /\ LET written == proc[p].made \ {Dir}
        IN \/ \E q \in written :
                /\ q = ConfigFile \/ ConfigFile \notin written
                /\ Remove({q})
                /\ Become(p, [proc[p] EXCEPT !.made = @ \ {q}])
           \/ written = {} /\ Go(p, "rmdir") /\ UNCHANGED diskVars
     /\ UNCHANGED world
  \/ /\ At(p, "init", "rmdir")
     /\ IF Dir \in proc[p].made /\ \A q \in Paths \ {Dir} : ~Exists(q)
          THEN Remove({Dir}) ELSE UNCHANGED diskVars
     /\ Ended(p, "failed")
     /\ UNCHANGED world

ScaffoldStep(p) ==
  CheckScaffold(p) \/ MakeDir(p) \/ CreateConfig(p) \/ LoadConfig(p) \/ CreateSops(p) \/ Undo(p)
=============================================================================
