------------------------------- MODULE InOrder -------------------------------
(***************************************************************************)
(* The fan-out of a pass (eachNode) and the order its output is printed in *)
(* (inOrder), both in internal/cli/parallel.go.  A node's goroutine takes  *)
(* a slot, speaks as it works, and finishes; say and finish hold the lock, *)
(* so each is one step.                                                    *)
(***************************************************************************)
EXTENDS Naturals, SequencesExt, FiniteSets

CONSTANTS N,       \* nodes of the batch, 1..N in its order
          MaxSays  \* bound: how often a node speaks

ASSUME BatchAssumption == N \in Nat \ {0} /\ MaxSays \in Nat

Node == 1 .. N

VARIABLES
  parallel, \* slots: how many run at a time
  running,  \* nodes that hold one
  said,     \* how often each node has spoken
  next,     \* the node at the head of the order, N + 1 past the last
  held,     \* what each node has said that is not printed
  done,     \* the nodes that are finished
  out       \* what is printed

outputVars == <<parallel, running, said, next, held, done, out>>

Line == Node \X (1 .. MaxSays)

OutputTypeOK ==
  /\ parallel \in Node
  /\ running \subseteq Node /\ done \subseteq Node
  /\ said \in [Node -> 0 .. MaxSays]
  /\ next \in 1 .. N + 1
  /\ held \in [Node -> Seq(Line)]
  /\ out \in Seq(Line)

OutputInit ==
  /\ parallel \in Node
  /\ running = {} /\ done = {}
  /\ said = [p \in Node |-> 0]
  /\ next = 1
  /\ held = [p \in Node |-> << >>]
  /\ out = << >>

(* A slot is free, and the node's goroutine takes it. *)
Start(p) ==
  /\ p \notin running \cup done
  /\ Cardinality(running) < parallel
  /\ running' = running \cup {p}
  /\ UNCHANGED <<parallel, said, next, held, done, out>>

(* A mutation of Say: what a node says is held until it has finished. *)
SayHeld(p) ==
  /\ p \in running /\ said[p] < MaxSays
  /\ said' = [said EXCEPT ![p] = @ + 1]
  /\ held' = [held EXCEPT ![p] = Append(@, <<p, said'[p]>>)]
  /\ UNCHANGED <<parallel, running, next, done, out>>

(* The head of the order is printed as it speaks, the others are held. *)
Say(p) ==
  /\ p \in running /\ said[p] < MaxSays
  /\ said' = [said EXCEPT ![p] = @ + 1]
  /\ LET text == <<p, said'[p]>>
     IN  IF next = p
           THEN out' = Append(out, text) /\ UNCHANGED held
           ELSE held' = [held EXCEPT ![p] = Append(@, text)] /\ UNCHANGED out
  /\ UNCHANGED <<parallel, running, next, done>>

(* A mutation of NewHead: a node done meanwhile is not skipped. *)
NewHeadOne(d) == IF next \in d THEN next + 1 ELSE next

(* A mutation of NewHead: the end of the order counts as a node. *)
NewHeadPast(d) ==
  LET gone == d \cup {N + 1}
  IN  CHOOSE h \in next .. N + 2 : h \notin gone /\ \A p \in next .. h - 1 : p \in gone

(* The head, once d are done: the first from here on that is not. *)
NewHead(d) ==
  CHOOSE h \in next .. N + 1 : h \notin d /\ \A p \in next .. h - 1 : p \in d

(***************************************************************************)
(* The node is done, and gives its slot up.  Each node that becomes the    *)
(* head is printed as far as it has spoken.                                *)
(***************************************************************************)
Finish(p) ==
  /\ p \in running
  /\ running' = running \ {p}
  /\ done' = done \cup {p}
  /\ next' = NewHead(done')
  /\ LET heads == {q \in Node : next < q /\ q <= next'}
     IN  /\ out' = out \o FlattenSeq([q \in Node |-> IF q \in heads THEN held[q]
                                                                    ELSE << >>])
         /\ held' = [q \in Node |-> IF q \in heads THEN << >> ELSE held[q]]
  /\ UNCHANGED <<parallel, said>>

OutputNext == \E p \in Node : Start(p) \/ Say(p) \/ Finish(p)

OutputSpec == OutputInit /\ [][OutputNext]_outputVars

(* A node does finish: finish is deferred, and its command ends. *)
OutputFairSpec == OutputSpec /\ \A p \in Node : WF_outputVars(Start(p)) /\ WF_outputVars(Finish(p))

-----------------------------------------------------------------------------
Reader == INSTANCE Transcript WITH finished <- done

(* However the nodes interleave, the reader sees each node's lines          *)
(* together, in the batch's order, and the first unfinished one's as it     *)
(* speaks: nothing is lost, doubled, or held longer than it has to be.      *)
ReadsInOrder == Reader!Spec

(* A batch ends with all of its nodes finished and nothing held back,       *)
(* however few the slots.                                                   *)
NothingHeldBack == <>[](done = Node /\ \A p \in Node : held[p] = << >>)
=============================================================================
