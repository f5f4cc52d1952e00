------------------------------ MODULE Snapshot ------------------------------
(***************************************************************************)
(* Saving an etcd snapshot: a name is picked in the output directory, a    *)
(* control plane that answers streams into a private directory beside it,  *)
(* and the finished file is linked into place.  Several talmans may do so  *)
(* in the same second, and pick the same name.                             *)
(***************************************************************************)
EXTENDS Naturals

CONSTANTS
  CPs,          \* the control planes
  Savers,       \* the talmans that save snapshots
  MaxNames      \* how many names the second they do it in has

Names == 1 .. MaxNames
Nobody == "nobody"

ASSUME SnapshotAssumption ==
  /\ Nobody \notin Savers
  /\ MaxNames \in Nat \ {0}

VARIABLES
  answering,   \* the nodes that answer the Talos API
  disk,        \* whose snapshot each name holds
  saver        \* how far each saver has come, and with which name

SaverTypeOK ==
  /\ disk \in [Names -> Savers \cup {Nobody}]
  /\ saver \in [Savers -> [pc : {"idle", "pick", "stream", "link", "saved", "failed"}, name : Names]]

SaverInit ==
  /\ disk = [i \in Names |-> Nobody]
  /\ saver = [s \in Savers |-> [pc |-> "idle", name |-> 1]]

Idle(s) == [saver EXCEPT ![s] = [pc |-> "idle", name |-> 1]]
StartsSaving(s) == [saver EXCEPT ![s].pc = "pick"]
Step(s, pc) == saver' = [saver EXCEPT ![s].pc = pc]

(* The first name nothing has yet, numbered from the second one on; the    *)
(* directory may not be there to write in.                                 *)
PickName(s) ==
  /\ saver[s].pc = "pick"
  /\ LET free == {i \in Names : disk[i] = Nobody}
     IN \/ \E i \in free :
             /\ \A j \in free : i <= j
             /\ saver' = [saver EXCEPT ![s] = [pc |-> "stream", name |-> i]]
        \/ Step(s, "failed")
  /\ UNCHANGED disk

(* From the first control plane that answers; talosctl may fail.           *)
Stream(s) ==
  /\ saver[s].pc = "stream"
  /\ \/ CPs \cap answering # {} /\ Step(s, "link")
     \/ Step(s, "failed")
  /\ UNCHANGED disk

(* A mutation of Link: moved into place with a rename, which replaces. *)
LinkRenames(s) ==
  /\ saver[s].pc = "link"
  /\ Step(s, "saved")
  /\ disk' = [disk EXCEPT ![saver[s].name] = s]

(* A link refuses a name that has come to exist. *)
Link(s) ==
  /\ saver[s].pc = "link"
  /\ LET i == saver[s].name
     IN \/ disk[i] = Nobody /\ Step(s, "saved") /\ disk' = [disk EXCEPT ![i] = s]
        \/ disk[i] # Nobody /\ Step(s, "failed") /\ UNCHANGED disk

Saves(s) == PickName(s) \/ Stream(s) \/ Link(s)

Saved(s) == saver[s].pc = "saved" /\ disk[saver[s].name] = s
=============================================================================
