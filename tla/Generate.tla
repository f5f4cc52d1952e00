------------------------------ MODULE Generate ------------------------------
(***************************************************************************)
(* `talman secrets generate` (cli/secrets.go): the destination is looked   *)
(* at, a bundle made and encrypted, and whatever is at the destination by  *)
(* then kept in the output directory before the new one takes its place.   *)
(* What it writes to stdout instead changes nothing here.                  *)
(***************************************************************************)
EXTENDS Commands

(* Refused over a bundle, but by force, and beside one of the old name,    *)
(* force or not.                                                           *)
RefusesToGenerate(p) ==
  \/ ~proc[p].flag /\ Exists(Bundle)
  \/ ~Exists(Bundle) /\ Exists(Legacy)

CheckBundle(p) ==
  /\ At(p, "generate", "start")
  /\ IF RefusesToGenerate(p) THEN Ended(p, "failed") ELSE Go(p, "read")
  /\ UNCHANGED <<diskVars, world>>

(* The new bundle in hand, the old one is read and kept.  Any error of the *)
(* read is taken for there being none: one that is there and cannot be     *)
(* read is replaced all the same, and is not kept.                         *)
ReadOldBundle(p) ==
  /\ At(p, "generate", "read")
  /\ \/ /\ Exists(Bundle)
        /\ Prepare(p, [proc[p] EXCEPT !.old = seen[Bundle]], "name")
        /\ UNCHANGED settled
     \/ /\ Go(p, "replace")
        /\ settled' = IF Exists(Bundle) THEN settled \ {seen[Bundle].of} ELSE settled
  /\ UNCHANGED <<diskVars, count, clock, registered, theirs, cut>>

(* A mutation of NameBackup: one kept in the same second is replaced. *)
NameBackupAnyway(p) ==
  /\ At(p, "generate", "name")
  /\ Become(p, [proc[p] EXCEPT !.at = "keep", !.name = clock])
  /\ UNCHANGED <<diskVars, world>>

(* Named by the second, and not over one kept in the same second. *)
NameBackup(p) ==
  /\ At(p, "generate", "name")
  /\ IF Exists(clock) THEN Ended(p, "failed")
                      ELSE Become(p, [proc[p] EXCEPT !.at = "keep", !.name = clock])
  /\ UNCHANGED <<diskVars, world>>

KeepBundle(p) ==
  /\ At(p, "generate", "keep")
  /\ Rename(proc[p].name, proc[p].old)
  /\ Go(p, "replace")
  /\ UNCHANGED world

ReplaceBundle(p) ==
  /\ At(p, "generate", "replace")
  /\ Rename(Bundle, File("bundle", proc[p].serial))
  /\ Ended(p, "done")
  /\ UNCHANGED world

GenerateStep(p) ==
  CheckBundle(p) \/ ReadOldBundle(p) \/ NameBackup(p) \/ KeepBundle(p) \/ ReplaceBundle(p)
=============================================================================
