-------------------------------- MODULE Disk --------------------------------
(***************************************************************************)
(* The files of a cluster directory, as a process sees them and as a power *)
(* loss would leave them.  Names change in order, as in a journal: a power *)
(* loss takes back the last of them.  A file's contents are on disk once   *)
(* it was synced; until then a power loss may leave its name and none of   *)
(* its contents.                                                           *)
(***************************************************************************)
EXTENDS Naturals, Sequences, Functions

CONSTANTS
  Order,      \* the nodes, in the config's order
  MaxSeconds, \* bound: the seconds that tell backups apart
  MaxCommands \* bound: how many commands are run

CONSTANTS Dir, ConfigFile, SopsFile, Bundle, Legacy, Ignore, Talosconfig

ASSUME DiskAssumption ==
  /\ Order \in Seq(Range(Order))
  /\ IsInjective(<<Dir, ConfigFile, SopsFile, Bundle, Legacy, Ignore, Talosconfig>>)
  /\ {Dir, ConfigFile, SopsFile, Bundle, Legacy, Ignore, Talosconfig} \cap (Range(Order) \cup 1 .. MaxSeconds) = {}
  /\ Range(Order) \cap 1 .. MaxSeconds = {}
  /\ MaxSeconds \in Nat \ {0} /\ MaxCommands \in Nat

VARIABLES
  seen,   \* what each path holds
  dirty,  \* the paths whose contents were not synced
  kept    \* what each path would hold after a power loss

diskVars == <<seen, dirty, kept>>

Nodes == Range(Order)
Backups == 1 .. MaxSeconds  \* secrets-pre-generate-<time>.yaml, by their seconds
Paths == {Dir, ConfigFile, SopsFile, Bundle, Legacy, Ignore, Talosconfig} \cup Nodes \cup Backups

(* A file is of a kind, and by a command or from its bundle.               *)
Kinds == {"none", "empty", "dir", "operator", "init", "bundle", "config", "submitted",
          "talosconfig", "rule", "edited"}
Content == [kind : Kinds, of : 0 .. MaxCommands]
File(kind, of) == [kind |-> kind, of |-> of]
NoFile == File("none", 0)
Empty == File("empty", 0)
Exists(p) == seen[p] # NoFile

DiskTypeOK ==
  /\ seen \in [Paths -> Content] /\ kept \in [Paths -> Content]
  /\ dirty \subseteq Paths

(* A mutation of Rename: the temporary file was not synced. *)
RenameUnsynced(p, f) ==
  /\ Exists(Dir)
  /\ seen' = [seen EXCEPT ![p] = f]
  /\ dirty' = dirty \cup {p}
  /\ UNCHANGED kept

(* WriteAtomic's end: a file written and synced beside p takes its place.  *)
Rename(p, f) ==
  /\ Exists(Dir)
  /\ seen' = [seen EXCEPT ![p] = f]
  /\ dirty' = dirty \ {p}
  /\ UNCHANGED kept

(* Opened to be written in place: created, or cut to nothing. *)
Truncate(p) ==
  /\ Exists(Dir)
  /\ seen' = [seen EXCEPT ![p] = Empty]
  /\ dirty' = dirty \cup {p}
  /\ UNCHANGED kept

(* Written in place, and not synced. *)
Fill(p, f) ==
  /\ seen' = [seen EXCEPT ![p] = f]
  /\ dirty' = dirty \cup {p}
  /\ UNCHANGED kept

Remove(S) ==
  /\ seen' = [p \in Paths |-> IF p \in S THEN NoFile ELSE seen[p]]
  /\ dirty' = dirty \ S
  /\ UNCHANGED kept

(* The kernel's writeback: every name so far, and some of the contents.    *)
Flush ==
  \E late \in SUBSET dirty :
    /\ kept' = [p \in Paths |-> IF p \in late THEN Empty ELSE seen[p]]
    /\ dirty' = late
    /\ UNCHANGED seen

LosePower == seen' = kept /\ dirty' = {} /\ UNCHANGED kept
=============================================================================
