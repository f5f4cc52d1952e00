----------------------------- MODULE Transcript -----------------------------
(***************************************************************************)
(* What a batch's output promises (internal/cli/parallel.go, inOrder): the *)
(* nodes speak when they like, and the reader sees them in the batch's     *)
(* order, the first that is not finished as far as it has spoken.          *)
(***************************************************************************)
EXTENDS Naturals, SequencesExt

CONSTANTS N,       \* nodes of the batch, 1..N in its order
          MaxSays  \* bound: how often a node speaks

Node == 1 .. N

VARIABLES said,      \* how often each node has spoken
          finished,  \* the nodes that are finished
          out        \* what the reader has seen: <<node, which>> each

(* All that node p has said. *)
Block(p, s) == [k \in 1 .. s[p] |-> <<p, k>>]

(* The nodes that may be seen: no node before them is unfinished. *)
Shown(p, f) == \A q \in Node : q < p => q \in f

Visible(s, f) ==
  FlattenSeq([p \in Node |-> IF Shown(p, f) THEN Block(p, s) ELSE << >>])

Init ==
  /\ said = [p \in Node |-> 0]
  /\ finished = {}
  /\ out = << >>

Speak(p) ==
  /\ p \notin finished /\ said[p] < MaxSays
  /\ said' = [said EXCEPT ![p] = @ + 1]
  /\ out' = Visible(said', finished)
  /\ UNCHANGED finished

Finish(p) ==
  /\ p \notin finished
  /\ finished' = finished \cup {p}
  /\ out' = Visible(said, finished')
  /\ UNCHANGED said

Next == \E p \in Node : Speak(p) \/ Finish(p)

Spec == Init /\ [][Next]_<<said, finished, out>>
=============================================================================
