----------------------------- MODULE ClusterDir -----------------------------
(***************************************************************************)
(* The commands of a cluster directory together: two at once, one after    *)
(* the other, killed, failing, or dying with the machine.                  *)
(***************************************************************************)
EXTENDS Generate, Scaffold, Rendering

Fresh == [p \in Paths |-> NoFile]

(* A place for init to make or to fill, or a cluster's directory, with its *)
(* bundle under either name or none yet, and a .gitignore of anybody's.    *)
Init ==
  /\ \/ \E there \in BOOLEAN :
          seen = [Fresh EXCEPT ![Dir] = IF there THEN File("dir", 0) ELSE NoFile]
     \/ \E at \in {Dir, Bundle, Legacy}, ignore \in {"none", "rule", "edited", "operator"} :
          seen = [[Fresh EXCEPT ![at] = File("bundle", 0)]
                    EXCEPT ![Dir] = File("dir", 0), ![ConfigFile] = File("operator", 0),
                           ![Ignore] = File(ignore, 0)]
  /\ kept = seen /\ dirty = {}
  /\ proc = [p \in Procs |-> Idle]
  /\ count = 0 /\ clock = 1 /\ registered = {} /\ settled = {} /\ cut = {}
  /\ theirs = {p \in Paths : seen[p].kind = "operator"}

(* The bundle in use: there before any generate that runs, and on disk.    *)
Settled == {b \in 0 .. MaxCommands :
              /\ seen[Bundle] = File("bundle", b) /\ kept[Bundle] = seen[Bundle]
              /\ \A p \in Procs : ~Runs(p, "generate")}

(* Every command but init loads the config. *)
Type(p) ==
  /\ proc[p].at \in Over /\ count < MaxCommands
  /\ \E cmd \in {"generate", "init", "render", "reach"}, flag \in BOOLEAN :
       /\ cmd # "init" => seen[ConfigFile].kind \in {"operator", "init"}
       /\ cmd = "reach" => ~flag
       /\ Become(p, [Idle EXCEPT !.cmd = cmd, !.at = "start", !.serial = count + 1, !.flag = flag])
       /\ settled' = IF cmd = "generate" THEN settled \cup Settled ELSE settled
  /\ count' = count + 1
  /\ UNCHANGED <<diskVars, clock, registered, theirs, cut>>

(* The operator writes one of the files init would. *)
Edit ==
  /\ Exists(Dir)
  /\ \E q \in {ConfigFile, SopsFile} :
       /\ ~Exists(q)
       /\ seen' = [seen EXCEPT ![q] = File("operator", 0)]
       /\ theirs' = theirs \cup {q}
  /\ UNCHANGED <<dirty, kept, proc, count, clock, registered, settled, cut>>

Tick == clock < MaxSeconds /\ clock' = clock + 1
        /\ UNCHANGED <<diskVars, proc, count, registered, theirs, settled, cut>>

WriteBack == Flush /\ UNCHANGED <<proc, world>>

Next ==
  \/ \E p \in Procs :
       \/ Type(p) \/ GenerateStep(p) \/ ScaffoldStep(p) \/ RenderStep(p)
       \/ PrepareOutput(p) \/ WriteIgnore(p) \/ Fail(p) \/ Kill(p)
  \/ Edit \/ Tick \/ WriteBack \/ PowerLoss

Spec == Init /\ [][Next]_vars

-----------------------------------------------------------------------------
(* What a cluster directory may rely on.                                   *)

TypeOK == DiskTypeOK /\ CommandsTypeOK

Holds(b) == \E p \in {Bundle, Legacy} \cup Backups : seen[p] = File("bundle", b)

(* The files that are only ever replaced, and what replaces them.          *)
Replaced == {Bundle, Legacy, Talosconfig} \cup Nodes \cup Backups
Finished == {f \in Content : f.kind \in {"bundle", "config", "submitted", "talosconfig"}}

Store == INSTANCE AtomicFiles WITH
  Names <- Replaced, Versions <- Finished, Nothing <- NoFile,
  files <- [q \in Replaced |-> seen[q]], lasting <- [q \in Replaced |-> kept[q]]

(* An init that failed has left none of its files, and no init has touched *)
(* what somebody else wrote.                                               *)
InitUndone ==
  /\ \A p \in Procs, q \in Paths :
       At(p, "init", "failed") => seen[q] # File("init", proc[p].serial)
  /\ \A q \in theirs : seen[q].kind = "operator"

(* Being written in place, or left cut short: a command failed there, was  *)
(* killed, or the power went before the contents were on disk.             *)
HalfWritten(q) == q \in cut \/ \E p \in Procs : Writing(p, q)

(* No file written in place is empty for any other reason.                 *)
InPlaceWhole == \A q \in InPlace : seen[q].kind = "empty" => HalfWritten(q)

(* Secrets lie beside a .gitignore that hides them, unless talman is       *)
(* rewriting it or a rewriting was cut short: that one is empty, and hides *)
(* nothing until the operator removes it, as every command that would      *)
(* write more secrets refuses it.                                          *)
Guarded ==
  (\E p \in {Talosconfig} \cup Nodes \cup Backups : Exists(p)) =>
    seen[Ignore].kind = "rule" \/ HalfWritten(Ignore)

(* However commands interleave, fail, are killed or die with the machine:  *)
(* the files that are replaced (bundles, configs and the talosconfig) are  *)
(* never half done, as together the commands implement AtomicFiles; those  *)
(* written in place (talman.yaml, .sops.yaml, the .gitignore) are so only  *)
(* while they are written or when that was cut short, and an init that     *)
(* failed has left none; and secrets lie beside the rule that hides them   *)
(* but for the .gitignore's own such moments.                              *)
NothingHalfDone == Store!Spec /\ [](InitUndone /\ InPlaceWhole /\ Guarded)

(* A bundle that was in place before any generate that runs, and that they *)
(* could read, is never lost, however many generate at once: it is in use  *)
(* or kept.  One that could not be read is not kept (ReadOldBundle).  And  *)
(* none is put beside one under the old name.                              *)
BundleKept ==
  /\ \A b \in settled : Holds(b)
  /\ Exists(Legacy) => ~Exists(Bundle)

(* A config rendered with --submit names a schematic its factory has.      *)
Registered ==
  \A n \in Nodes : seen[n].kind = "submitted" => <<FactoryOf[n], SchematicOf[n]>> \in registered
=============================================================================
