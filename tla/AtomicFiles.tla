----------------------------- MODULE AtomicFiles -----------------------------
(***************************************************************************)
(* What WriteAtomic promises (internal/render/write.go) of the files that  *)
(* are only ever replaced: whoever looks finds one whole version after     *)
(* another, or none while none was written, and a power loss goes back to  *)
(* the versions there were at some moment.                                 *)
(***************************************************************************)
CONSTANTS Names,    \* the files
          Versions, \* what a writer may put in one's place
          Nothing   \* what one holds that was not written

VARIABLES files,    \* what each file holds
          lasting   \* and what a power loss would leave of it

AnyVersions == [Names -> Versions \cup {Nothing}]

Init == files \in AnyVersions /\ lasting = files

(* One file gets a new version, and no other changes. *)
Replace(n) ==
  /\ files'[n] \in Versions
  /\ files' = [files EXCEPT ![n] = files'[n]]
  /\ UNCHANGED lasting

WriteBack == lasting' = files /\ UNCHANGED files

LosePower == files' = lasting /\ UNCHANGED lasting

Next ==
  \/ \E n \in Names : Replace(n)
  \/ WriteBack
  \/ LosePower

Spec == Init /\ [][Next]_<<files, lasting>>
=============================================================================
