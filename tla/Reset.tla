------------------------------- MODULE Reset -------------------------------
(***************************************************************************)
(* `talman reset`: workers before control planes, one at a time, each      *)
(* leaving its etcd first unless the whole control plane goes, stopping at *)
(* the first failure with the command that carries on.  Batches of workers *)
(* are Rollout's.                                                          *)
(***************************************************************************)
EXTENDS Operator

Graceful == ~Has("graceful=false")

(* Every control plane is selected, and --graceful was left alone. *)
Destroying == Graceful /\ ~Has("graceful") /\ CPs \subseteq cmd.on

(* The control planes of a teardown do not try to leave etcd. *)
NodeGraceful(n) == Graceful /\ (Destroying => n \in Workers)

Order ==
  /\ pc = "order"
  /\ todo' = cmd.on
  /\ pc' = IF Has("yes") THEN "reset" ELSE "agree"
  /\ UNCHANGED <<machines, cmd, probe, modes, turn, built, asked, hint, doomed, typed>>

(* The operator types the cluster's name, or does not. *)
Agree ==
  /\ pc = "agree"
  /\ GoesTo("reset") \/ Ends(NoCommand)
  /\ UNCHANGED machines

(* A mutation of HintFlags: the resumed run is not told it is a teardown. *)
HintFlagsForgotten(left) == cmd.flags \ {"yes"}

(* Only control planes left are no longer every one, so the resumed run is *)
(* told; it asks again before it wipes.                                    *)
HintFlags(left) ==
  (cmd.flags \ {"yes"}) \cup (IF Destroying /\ left \subseteq CPs THEN {"graceful=false"} ELSE {})

ResetHint == [cmd EXCEPT !.on = todo, !.flags = HintFlags(todo)]

(* n is wiped if it can be asked and, leaving, if its etcd lets it go.     *)
LetsGo(n) == n \in CPs /\ NodeGraceful(n) /\ etcd[n] # 0 => CanLeave(n)

WipeOne(n) ==
  /\ pc = "reset"
  /\ ModeOf(n) = "running" /\ LetsGo(n)
  /\ Wiped(n, NodeGraceful(n))
  /\ \/ /\ todo # {n}
        /\ todo' = todo \ {n}
        /\ UNCHANGED <<faults, cmd, pc, probe, modes, turn, built, asked, hint, doomed, typed>>
     \/ todo = {n} /\ Ends(NoCommand) /\ UNCHANGED faults
     \/ Fault /\ Ends(ResetHint)

WipeFails(n) ==
  /\ pc = "reset"
  /\ ModeOf(n) # "running" \/ ~LetsGo(n)
  /\ Ends(ResetHint)
  /\ UNCHANGED machines

ResetStep ==
  \/ Order \/ Agree
  \/ \E n \in todo : IsNext(n) /\ (WipeOne(n) \/ WipeFails(n))
=============================================================================
