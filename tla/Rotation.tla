------------------------------ MODULE Rotation ------------------------------
(***************************************************************************)
(* Rotating the CAs (internal/cli/rotate.go): talosctl rotates them on the *)
(* nodes, and talman then brings the secrets bundle and the talosconfig in *)
(* line.  Any step may fail, and talman may be killed between any two; the *)
(* operator runs rotate-ca, rotate-ca --finish, render and apply as they   *)
(* like, one at a time.                                                    *)
(*                                                                         *)
(* CAs are numbered by the rotation that made them, 0 the first.  What     *)
(* talosctl does to the nodes is outside this repository: it is taken from *)
(* what rotate.go counts on, that the old Talos CA stops being accepted    *)
(* only when the new talosconfig is written, and the Kubernetes CA follows.*)
(***************************************************************************)
EXTENDS Naturals

CONSTANTS MaxRotations  \* bound: how many rotations are started

ASSUME RotationsAssumption == MaxRotations \in Nat \ {0}

CA == 0 .. MaxRotations
None == MaxRotations + 1
Bundles == [talos : CA, k8s : CA]

VARIABLES
  talos,     \* the Talos CAs in the control planes' machine configs
  k8s,       \* the Kubernetes CAs there
  accepted,  \* the Talos CAs whose clients the nodes accept
  tc,        \* the CA of the talosconfig
  rotated,   \* the CA of talosconfig.rotated, or None
  bundle,    \* the secrets bundle
  kept,      \* the bundles kept in the output directory
  ever,      \* history: every bundle there has been
  runs,      \* rotations started
  pc,        \* where the run is
  flags,     \* what it rotates, or --finish
  read,      \* the bundle it read back from a control plane
  hint       \* what its error says to do: "again", "finish", or "none"

cluster == <<talos, k8s, accepted>>
files == <<tc, rotated, bundle, kept, ever>>
vars == <<cluster, files, runs, pc, flags, read, hint>>

Flags == [talos : BOOLEAN, k8s : BOOLEAN, finish : BOOLEAN]
PcState == {"idle", "talos", "swapped", "k8s", "rolling", "rolled", "complete",
            "extract", "keep", "write", "rename", "done"}

TypeOK ==
  /\ talos \in (SUBSET CA) \ {{}} /\ k8s \in (SUBSET CA) \ {{}}
  /\ accepted \in (SUBSET CA) \ {{}}
  /\ tc \in CA /\ rotated \in CA \cup {None}
  /\ bundle \in Bundles /\ read \in Bundles
  /\ kept \subseteq Bundles /\ ever \subseteq Bundles
  /\ runs \in CA
  /\ pc \in PcState /\ flags \in Flags
  /\ hint \in {"again", "finish", "none"}

Init ==
  /\ talos = {0} /\ k8s = {0} /\ accepted = {0}
  /\ tc = 0 /\ rotated = None
  /\ bundle = [talos |-> 0, k8s |-> 0]
  /\ read = bundle
  /\ kept = {} /\ ever = {bundle}
  /\ runs = 0
  /\ pc = "idle" /\ hint = "none"
  /\ flags = [talos |-> FALSE, k8s |-> FALSE, finish |-> FALSE]

Idle == pc \in {"idle", "done"}

GoTo(p) == pc' = p /\ UNCHANGED <<runs, flags, hint>>

-----------------------------------------------------------------------------
(* The commands.                                                           *)

(***************************************************************************)
(* rotate-ca.  Refused over a rotation that did not finish, and when the   *)
(* bundle cannot be read back with the talosconfig in place.               *)
(***************************************************************************)
Rotate(f) ==
  /\ Idle
  /\ runs < MaxRotations
  /\ ~f.finish /\ (f.talos \/ f.k8s)
  /\ rotated = None
  /\ tc \in accepted
  /\ runs' = runs + 1
  /\ flags' = f /\ hint' = "none"
  /\ pc' = IF f.talos THEN "talos" ELSE "k8s"
  /\ UNCHANGED <<cluster, files, read>>

(* rotate-ca --finish: the second half alone. *)
Finish ==
  /\ Idle
  /\ flags' = [talos |-> FALSE, k8s |-> FALSE, finish |-> TRUE]
  /\ hint' = "none"
  /\ pc' = IF rotated # None THEN "complete" ELSE "extract"
  /\ UNCHANGED <<cluster, files, runs, read>>

(* render writes the talosconfig the bundle's CA signs. *)
Render ==
  /\ Idle
  /\ tc' = bundle.talos
  /\ pc' = "idle" /\ hint' = "none"
  /\ UNCHANGED <<cluster, rotated, bundle, kept, ever, runs, flags, read>>

(* apply puts the bundle's CAs into the nodes' configs, if it reaches them. *)
Apply ==
  /\ Idle
  /\ tc \in accepted
  /\ talos' = {bundle.talos} /\ accepted' = {bundle.talos}
  /\ k8s' = {bundle.k8s}
  /\ pc' = "idle" /\ hint' = "none"
  /\ UNCHANGED <<files, runs, flags, read>>

-----------------------------------------------------------------------------
(* talosctl rotate-ca.                                                     *)

(* The new Talos CA is accepted, and issues on some control planes or all. *)
ToolTalos ==
  /\ pc = "talos"
  /\ accepted' = accepted \cup {runs}
  /\ talos' \in {talos \cup {runs}, {runs}}
  /\ GoTo("swapped")
  /\ UNCHANGED <<k8s, files, read>>

(* The old one is not accepted any more, and the talosconfig is written. *)
ToolTalosDone ==
  /\ pc = "swapped"
  /\ talos' = {runs} /\ accepted' = {runs}
  /\ rotated' = runs
  /\ GoTo(IF flags.k8s THEN "k8s" ELSE "rolled")
  /\ UNCHANGED <<k8s, tc, bundle, kept, ever, read>>

(* The Kubernetes CA, some control planes before others. *)
ToolK8s ==
  /\ pc = "k8s"
  /\ k8s' = k8s \cup {runs}
  /\ GoTo("rolling")
  /\ UNCHANGED <<talos, accepted, files, read>>

ToolK8sDone ==
  /\ pc = "rolling"
  /\ k8s' = {runs}
  /\ GoTo("rolled")
  /\ UNCHANGED <<talos, accepted, files, read>>

Tool == ToolTalos \/ ToolTalosDone \/ ToolK8s \/ ToolK8sDone

(* A mutation of PartialRotation: it goes by what was asked for. *)
PartialRotationByFlags == IF flags.talos THEN "again" ELSE "finish"

(* What an unfinished rotation is told: the file is the one clue. *)
PartialRotation == IF rotated = None THEN "again" ELSE "finish"

(* A mutation of ToolFails: the output of a failed talosctl is cleared away. *)
ToolFailsCleansUp ==
  /\ pc \in {"talos", "swapped", "k8s", "rolling", "rolled"}
  /\ pc' = "idle" /\ hint' = PartialRotation
  /\ rotated' = None
  /\ UNCHANGED <<cluster, tc, bundle, kept, ever, runs, flags, read>>

(* talosctl fails, or talman is told to stop while it runs. *)
ToolFails ==
  /\ pc \in {"talos", "swapped", "k8s", "rolling", "rolled"}
  /\ pc' = "idle" /\ hint' = PartialRotation
  /\ UNCHANGED <<cluster, files, runs, flags, read>>

-----------------------------------------------------------------------------
(* What talman does after it, and --finish does by itself.                 *)

(* talosctl succeeded. *)
Rolled ==
  /\ pc = "rolled"
  /\ GoTo(IF flags.talos THEN "complete" ELSE "extract")
  /\ UNCHANGED <<cluster, files, read>>

(* completeTalosconfig: the endpoints and nodes, in place. *)
Complete ==
  /\ pc = "complete"
  /\ GoTo("extract")
  /\ UNCHANGED <<cluster, files, read>>

(* The talosconfig the rest goes through: the rotated one when there is. *)
UsesRotated == IF flags.finish THEN rotated # None ELSE flags.talos

(* extractBundle: from whichever control plane answers. *)
Extract ==
  /\ pc = "extract"
  /\ (IF UsesRotated THEN rotated ELSE tc) \in accepted
  /\ \E t \in talos, k \in k8s : read' = [talos |-> t, k8s |-> k]
  /\ GoTo("keep")
  /\ UNCHANGED <<cluster, files>>

(* A mutation of Keep: what is kept is the bundle that was read back. *)
KeepNew ==
  /\ pc = "keep"
  /\ kept' = kept \cup {read}
  /\ GoTo("write")
  /\ UNCHANGED <<cluster, tc, rotated, bundle, ever, read>>

(* keepBundle: the old bundle, before it is replaced. *)
Keep ==
  /\ pc = "keep"
  /\ kept' = kept \cup {bundle}
  /\ GoTo("write")
  /\ UNCHANGED <<cluster, tc, rotated, bundle, ever, read>>

(* A mutation of Write: there is always a talosconfig to put in place. *)
WriteThenRename ==
  /\ pc = "write"
  /\ bundle' = read
  /\ ever' = ever \cup {read}
  /\ GoTo("rename")
  /\ UNCHANGED <<cluster, tc, rotated, kept, read>>

(* The bundle is replaced, atomically. *)
Write ==
  /\ pc = "write"
  /\ bundle' = read
  /\ ever' = ever \cup {read}
  /\ GoTo(IF UsesRotated THEN "rename" ELSE "done")
  /\ UNCHANGED <<cluster, tc, rotated, kept, read>>

(* A mutation of Rename: the rotated talosconfig is left where it was. *)
RenameCopies ==
  /\ pc = "rename"
  /\ tc' = rotated
  /\ GoTo("done")
  /\ UNCHANGED <<cluster, rotated, bundle, kept, ever, read>>

(* Last, the rotated talosconfig takes the place of the old one. *)
Rename ==
  /\ pc = "rename"
  /\ tc' = rotated /\ rotated' = None
  /\ GoTo("done")
  /\ UNCHANGED <<cluster, bundle, kept, ever, read>>

(***************************************************************************)
(* A step fails.  A rotation whose bundle was not replaced says to finish  *)
(* it; the other errors name no command.                                   *)
(***************************************************************************)
Fail ==
  /\ pc \in {"complete", "extract", "keep", "write", "rename"}
  /\ pc' = "idle"
  /\ hint' = IF ~flags.finish /\ pc \in {"extract", "keep", "write"}
               THEN "finish" ELSE "none"
  /\ UNCHANGED <<cluster, files, runs, flags, read>>

(* talman is killed, and talosctl with it. *)
Crash ==
  /\ ~Idle
  /\ pc' = "idle" /\ hint' = "none"
  /\ UNCHANGED <<cluster, files, runs, flags, read>>

Next ==
  \/ (\E f \in Flags : Rotate(f)) \/ Finish \/ Render \/ Apply
  \/ Tool \/ ToolFails \/ Rolled
  \/ Complete \/ Extract \/ Keep \/ Write \/ Rename
  \/ Fail \/ Crash

Spec == Init /\ [][Next]_vars

-----------------------------------------------------------------------------
(* What a rotation promises.                                               *)

(* There is always a way back in: a talosconfig on disk the nodes accept,   *)
(* or a bundle that render makes one from.                                  *)
NotLockedOut == {tc, rotated, bundle.talos} \cap accepted # {}

(* A bundle that was replaced is kept, since it holds every key a rotation  *)
(* leaves alone.                                                            *)
BundlesKept == ever \subseteq kept \cup {bundle}

(* A run that succeeds leaves the talosconfig one the nodes accept, nothing *)
(* to finish, and the bundle what the control planes hold, once they agree. *)
InLineWhenDone ==
  pc = "done" =>
    /\ tc \in accepted
    /\ rotated = None
    /\ \A t \in CA : talos = {t} => bundle.talos = t
    /\ \A k \in CA : k8s = {k} => bundle.k8s = k

(* What an error says to do can be done: rotating again, with the           *)
(* talosconfig in place and not refused; or --finish, through a talosconfig *)
(* the nodes accept.                                                        *)
HintWorks ==
  /\ hint = "again" => rotated = None /\ tc \in accepted
  /\ hint = "finish" => (IF rotated # None THEN rotated ELSE tc) \in accepted
=============================================================================
