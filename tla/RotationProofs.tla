--------------------------- MODULE RotationProofs ---------------------------
(***************************************************************************)
(* What Rotation promises, for any number of rotations.                    *)
(*                                                                         *)
(* The way back in is not tc, which render may overwrite at any time with  *)
(* one for an old bundle.  It is rotated or the bundle, one of which holds *)
(* an accepted CA at every step; and that survives the bundle's            *)
(* replacement because what a control plane holds is always accepted, so   *)
(* what was read back from one is.                                         *)
(***************************************************************************)
EXTENDS Rotation, TLAPS

(* A control plane's own CA is always one the nodes accept. *)
OwnAccepted == talos \subseteq accepted

(* rotated or the bundle holds a CA the nodes accept. *)
WayIn == rotated \in accepted \/ bundle.talos \in accepted

(* What was read back is accepted, and so is the bundle it became. *)
ReadAccepted ==
  /\ pc \in {"keep", "write"} => read.talos \in accepted
  /\ pc = "rename" => bundle.talos \in accepted

RotationInv == OwnAccepted /\ WayIn /\ ReadAccepted

(* Every step keeps a way back in: Init, then one case per action. *)
LEMMA RotationInvariant == Spec => []RotationInv
<1>1. Init => RotationInv
  BY DEF Init, RotationInv, OwnAccepted, WayIn, ReadAccepted
<1>2. RotationInv /\ [Next]_vars => RotationInv'
  <2> SUFFICES ASSUME RotationInv, [Next]_vars PROVE RotationInv'
    OBVIOUS
  <2> USE DEF RotationInv, OwnAccepted, WayIn, ReadAccepted, cluster, files, GoTo, Idle
  <2>1. ASSUME NEW f \in Flags, Rotate(f) PROVE RotationInv'
    BY <2>1 DEF Rotate
  <2>2. CASE Finish
    BY <2>2 DEF Finish
  <2>3. CASE Render
    BY <2>3 DEF Render
  <2>4. CASE Apply
    BY <2>4 DEF Apply
  <2>5. CASE ToolTalos
    BY <2>5 DEF ToolTalos
  <2>6. CASE ToolTalosDone
    BY <2>6 DEF ToolTalosDone
  <2>7. CASE ToolK8s \/ ToolK8sDone
    BY <2>7 DEF ToolK8s, ToolK8sDone
  <2>8. CASE ToolFails \/ Fail \/ Crash
    BY <2>8 DEF ToolFails, Fail, Crash
  <2>9. CASE Rolled \/ Complete
    BY <2>9 DEF Rolled, Complete
  <2>10. CASE Extract
    <3>1. PICK t \in talos, k \in k8s : read' = [talos |-> t, k8s |-> k]
      BY <2>10 DEF Extract
    <3>2. read'.talos \in accepted
      BY <3>1
    <3> QED
      BY <2>10, <3>2 DEF Extract
  <2>11. CASE Keep
    BY <2>11 DEF Keep
  <2>12. CASE Write
    BY <2>12 DEF Write
  <2>13. CASE Rename
    BY <2>13 DEF Rename
  <2>14. CASE UNCHANGED vars
    BY <2>14 DEF vars
  <2> QED
    BY <2>1, <2>2, <2>3, <2>4, <2>5, <2>6, <2>7, <2>8, <2>9, <2>10, <2>11,
       <2>12, <2>13, <2>14 DEF Next, Tool
<1> QED
  BY <1>1, <1>2, PTL DEF Spec

(***************************************************************************)
(* A rotation that fails or is killed at any step leaves a talosconfig the *)
(* nodes accept, or a bundle that render makes one from (rotate.go never   *)
(* clears talosconfig.rotated, and replaces the bundle before it).         *)
(***************************************************************************)
THEOREM AlwaysAWayIn == Spec => []NotLockedOut
<1>1. RotationInv => NotLockedOut
  BY DEF RotationInv, WayIn, NotLockedOut
<1> QED
  BY <1>1, RotationInvariant, PTL

-----------------------------------------------------------------------------
(* The old bundle is kept before it is replaced. *)
KeptInv == BundlesKept /\ (pc = "write" => bundle \in kept)

(***************************************************************************)
(* No bundle is ever lost: replaceBundle copies the old one before         *)
(* WriteAtomic replaces it, and nothing changes it in between.             *)
(***************************************************************************)
THEOREM NoBundleIsLost == Spec => []BundlesKept
<1>1. Init => KeptInv
  BY DEF Init, KeptInv, BundlesKept
<1>2. KeptInv /\ [Next]_vars => KeptInv'
  <2> SUFFICES ASSUME KeptInv, [Next]_vars PROVE KeptInv'
    OBVIOUS
  <2> USE DEF KeptInv, BundlesKept, cluster, files, GoTo, Idle
  <2>1. ASSUME NEW f \in Flags, Rotate(f) PROVE KeptInv'
    BY <2>1 DEF Rotate
  <2>2. CASE Finish \/ Render \/ Apply
    BY <2>2 DEF Finish, Render, Apply
  <2>3. CASE Tool
    BY <2>3 DEF Tool, ToolTalos, ToolTalosDone, ToolK8s, ToolK8sDone
  <2>4. CASE ToolFails \/ Fail \/ Crash
    BY <2>4 DEF ToolFails, Fail, Crash
  <2>5. CASE Rolled \/ Complete \/ Extract
    BY <2>5 DEF Rolled, Complete, Extract
  <2>6. CASE Keep
    BY <2>6 DEF Keep
  <2>7. CASE Write
    BY <2>7 DEF Write
  <2>8. CASE Rename
    BY <2>8 DEF Rename
  <2>9. CASE UNCHANGED vars
    BY <2>9 DEF vars
  <2> QED
    BY <2>1, <2>2, <2>3, <2>4, <2>5, <2>6, <2>7, <2>8, <2>9 DEF Next
<1>3. KeptInv => BundlesKept
  BY DEF KeptInv
<1> QED
  BY <1>1, <1>2, <1>3, PTL DEF Spec

-----------------------------------------------------------------------------
(* Hints.                                                                  *)

(* What a rotation, as against --finish, leaves for the next step: with the *)
(* Talos CA rotated, a rotated talosconfig the nodes accept; without, the   *)
(* one in place, and no other.                                              *)
HalfDone ==
  IF flags.talos THEN rotated \in accepted ELSE rotated = None /\ tc \in accepted

HintInv ==
  /\ ~Idle => hint = "none"
  /\ pc \in {"talos", "swapped"} => rotated = None /\ tc \in accepted
  /\ pc \in {"talos", "swapped"} => ~flags.finish /\ flags.talos
  /\ pc \in {"k8s", "rolling", "rolled"} => ~flags.finish /\ HalfDone
  /\ pc \in {"complete", "extract", "keep", "write"} /\ ~flags.finish => HalfDone
  /\ pc = "rename" => rotated # None
  /\ HintWorks

IInv == TypeOK /\ HintInv

USE RotationsAssumption

(* Init, and one case per action: types and hints at once, since rename is  *)
(* typed only because there is a rotated talosconfig to rename.             *)
LEMMA HintStart == Init => IInv
<1>1. 0 \in CA /\ None \notin CA
  BY DEF CA, None
<1> QED
  BY <1>1 DEF Init, IInv, TypeOK, HintInv, HintWorks, Idle, Bundles, Flags, PcState

LEMMA HintStep == IInv /\ [Next]_vars => IInv'
<1> SUFFICES ASSUME IInv, [Next]_vars PROVE IInv'
  OBVIOUS
<1> USE DEF IInv, TypeOK, HintInv, HintWorks, HalfDone, Idle, GoTo, cluster, files,
            Flags, PcState
<1>0. runs \in CA /\ None \notin CA /\ None \notin accepted
  BY DEF CA, None
<1>1. ASSUME NEW f \in Flags, Rotate(f) PROVE IInv'
  <2>1. runs + 1 \in CA
    BY <1>1 DEF Rotate, CA
  <2> QED
    BY <1>0, <1>1, <2>1 DEF Rotate
<1>2. CASE Finish
  BY <1>0, <1>2 DEF Finish
<1>3. CASE Render \/ Apply
  <2>1. bundle.talos \in CA /\ bundle.k8s \in CA
    BY DEF Bundles
  <2> QED
    BY <1>0, <1>3, <2>1 DEF Render, Apply
<1>4. CASE ToolTalos
  BY <1>0, <1>4 DEF ToolTalos
<1>5. CASE ToolTalosDone
  BY <1>0, <1>5 DEF ToolTalosDone
<1>6. CASE ToolK8s \/ ToolK8sDone
  BY <1>0, <1>6 DEF ToolK8s, ToolK8sDone
<1>7. CASE ToolFails
  BY <1>0, <1>7 DEF ToolFails, PartialRotation
<1>8. CASE Rolled \/ Complete
  BY <1>0, <1>8 DEF Rolled, Complete
<1>9. CASE Extract
  <2>1. PICK t \in talos, k \in k8s : read' = [talos |-> t, k8s |-> k]
    BY <1>9 DEF Extract
  <2>2. read' \in Bundles
    BY <2>1 DEF Bundles
  <2> QED
    BY <1>0, <1>9, <2>2 DEF Extract
<1>10. CASE Keep
  BY <1>0, <1>10 DEF Keep
<1>11. CASE Write
  BY <1>0, <1>11 DEF Write, UsesRotated
<1>12. CASE Rename
  BY <1>0, <1>12 DEF Rename
<1>13. CASE Fail
  BY <1>0, <1>13 DEF Fail
<1>14. CASE Crash
  BY <1>0, <1>14 DEF Crash
<1>15. CASE UNCHANGED vars
  BY <1>15 DEF vars
<1> QED
  BY <1>1, <1>2, <1>3, <1>4, <1>5, <1>6, <1>7, <1>8, <1>9, <1>10, <1>11,
     <1>12, <1>13, <1>14, <1>15 DEF Next, Tool

(***************************************************************************)
(* Whatever a rotation's error says to do can be done: partialRotation's   *)
(* one clue, the file, tells right whenever it is asked.                   *)
(***************************************************************************)
THEOREM HintsWork == Spec => []HintWorks
<1>1. IInv => HintWorks
  BY DEF IInv, HintInv
<1> QED
  BY <1>1, HintStart, HintStep, PTL DEF Spec

(***************************************************************************)
(* Type correctness of a rotation: tc is always some CA's, also after the  *)
(* rename.                                                                 *)
(***************************************************************************)
THEOREM RotationTyping == Spec => []TypeOK
<1>1. IInv => TypeOK
  BY DEF IInv
<1> QED
  BY <1>1, HintStart, HintStep, PTL DEF Spec

-----------------------------------------------------------------------------
(* In line when done.                                                      *)

(* From the question put to a control plane on, nothing but files changes: *)
(* what was read back is still what that one holds, and the talosconfig it *)
(* was asked through is still accepted.                                    *)
LineInv ==
  /\ pc \in {"keep", "write"} =>
       /\ read.talos \in talos /\ read.k8s \in k8s
       /\ (IF UsesRotated THEN rotated ELSE tc) \in accepted
  /\ pc = "rename" => bundle.talos \in talos /\ bundle.k8s \in k8s /\ rotated \in accepted
  /\ InLineWhenDone

(***************************************************************************)
(* A rotation, or its --finish, that says it is done leaves a talosconfig  *)
(* that is accepted and nothing to finish, and a bundle that says what the *)
(* control planes do: Rename is the last step, and is skipped only where   *)
(* there is no rotated talosconfig.                                        *)
(***************************************************************************)
THEOREM DoneIsInLine == Spec => []InLineWhenDone
<1>1. Init => LineInv
  BY DEF Init, LineInv, InLineWhenDone
<1>2. IInv /\ LineInv /\ [Next]_vars => LineInv'
  <2> SUFFICES ASSUME IInv, LineInv, [Next]_vars PROVE LineInv'
    OBVIOUS
  <2> USE DEF LineInv, InLineWhenDone, GoTo, cluster, files, UsesRotated
  <2>1. CASE (\E f \in Flags : Rotate(f)) \/ Finish \/ Render \/ Apply
    BY <2>1 DEF Rotate, Finish, Render, Apply
  <2>2. CASE Tool
    BY <2>2 DEF Tool, ToolTalos, ToolTalosDone, ToolK8s, ToolK8sDone
  <2>3. CASE ToolFails \/ Fail \/ Crash
    BY <2>3 DEF ToolFails, Fail, Crash
  <2>4. CASE Rolled \/ Complete
    BY <2>4 DEF Rolled, Complete
  <2>5. CASE Extract
    <3>1. PICK t \in talos, k \in k8s : read' = [talos |-> t, k8s |-> k]
      BY <2>5 DEF Extract
    <3>2. read'.talos \in talos /\ read'.k8s \in k8s
      BY <3>1
    <3> QED
      BY <2>5, <3>2 DEF Extract
  <2>6. CASE Keep
    BY <2>6 DEF Keep
  <2>7. CASE Write
    <3>1. ~UsesRotated => rotated = None /\ tc \in accepted
      BY <2>7 DEF Write, IInv, HintInv, HalfDone
    <3>2. /\ \A t \in CA : talos = {t} => read.talos = t
          /\ \A k \in CA : k8s = {k} => read.k8s = k
      BY <2>7 DEF Write
    <3> QED
      BY <2>7, <3>1, <3>2 DEF Write
  <2>8. CASE Rename
    BY <2>8 DEF Rename
  <2>9. CASE UNCHANGED vars
    BY <2>9 DEF vars
  <2> QED
    BY <2>1, <2>2, <2>3, <2>4, <2>5, <2>6, <2>7, <2>8, <2>9 DEF Next
<1>3. LineInv => InLineWhenDone
  BY DEF LineInv
<1> QED
  BY <1>1, <1>2, <1>3, HintStart, HintStep, PTL DEF Spec
=============================================================================
