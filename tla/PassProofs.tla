----------------------------- MODULE PassProofs -----------------------------
(***************************************************************************)
(* The goroutines of a pass, cut short and at work.                        *)
(*                                                                         *)
(* Interrupt, for any number of goroutines, each with any number of jobs,  *)
(* and signals at any moment: no child outlives talman, no secret listed   *)
(* in time stays on disk, and the exit code is the first signal's.         *)
(*                                                                         *)
(* InOrder, for any number of nodes, slots and lines: what is printed is   *)
(* in the batch's order and as soon as it may be, which is Transcript.     *)
(***************************************************************************)
EXTENDS Interrupt, InOrder, SequenceTheorems, WellFoundedInduction, TLAPS

USE JobsAssumption

-----------------------------------------------------------------------------
(* The handler, which only goes forward.                                   *)

Armed == {"armed", "draining", "drained", "swept"}
Killing == {"draining", "drained", "swept"}

(* What the handler has done by where it is. *)
HandlerInv ==
  /\ first = "none" <=> handler = "waiting"
  /\ cancelled <=> handler \in Armed
  /\ killing <=> handler \in Killing

Typed == TypeOK /\ HandlerInv

(* A worker's step leaves the handler alone, and the other workers. *)
LEMMA WorkSteps ==
  ASSUME TypeOK, NEW w \in Workers, Work(w)
  PROVE  /\ TypeOK'
         /\ UNCHANGED <<handler, first, cancelled, killing, exit, timedOut>> /\ exit = "no"
         /\ \A v \in Workers \ {w} :
              /\ at'[v] = at[v] /\ temp'[v] = temp[v]
              /\ (v \in listed' <=> v \in listed) /\ (v \in late' <=> v \in late)
              /\ (v \in alive' <=> v \in alive)
<1> USE DEF TypeOK, Places, Move
<1>1. UNCHANGED <<handler, first, cancelled, killing, exit, timedOut>> /\ exit = "no"
  BY DEF Work
<1>2. CASE Create(w)
  <2>1. jobs[w] - 1 \in 0 .. MaxJobs
    BY <1>2 DEF Create
  <2> QED
    BY <1>1, <1>2, <2>1 DEF Create
<1>3. CASE Register(w)
  BY <1>1, <1>3 DEF Register
<1>4. CASE Write(w)
  BY <1>1, <1>4 DEF Write
<1>5. CASE RunChild(w)
  BY <1>1, <1>5 DEF RunChild
<1>6. CASE Fork(w)
  BY <1>1, <1>6 DEF Fork
<1>7. CASE Adopt(w)
  BY <1>1, <1>7 DEF Adopt
<1>8. CASE Reap(w)
  BY <1>1, <1>8 DEF Reap
<1>9. CASE CleanUp(w)
  BY <1>1, <1>9 DEF CleanUp
<1> QED
  BY <1>2, <1>3, <1>4, <1>5, <1>6, <1>7, <1>8, <1>9 DEF Work

LEMMA InitTyped == Init => Typed
<1> SUFFICES ASSUME Init PROVE Typed
  OBVIOUS
<1>1. MaxJobs \in 0 .. MaxJobs
  OBVIOUS
<1>2. TypeOK
  BY <1>1 DEF Init, TypeOK, Places
<1>3. HandlerInv
  BY DEF Init, HandlerInv, Armed, Killing
<1> QED
  BY <1>2, <1>3 DEF Typed

LEMMA NextTyped == Typed /\ [Next]_vars => Typed'
<1> SUFFICES ASSUME Typed, [Next]_vars PROVE Typed'
  OBVIOUS
<1> USE DEF Typed, HandlerInv, Armed, Killing
<1>1. ASSUME NEW w \in Workers, Work(w) PROVE Typed'
  BY <1>1, WorkSteps
<1>2. ASSUME NEW w \in Workers, ChildEnds(w) PROVE Typed'
  BY <1>2 DEF ChildEnds, jobVars, TypeOK
<1>3. ASSUME NEW sig \in Signals, FirstSignal(sig) PROVE Typed'
  BY <1>3 DEF FirstSignal, jobVars, TypeOK, Signals
<1>4. ASSUME NEW sig \in Signals, SecondSignal(sig) PROVE Typed'
  BY <1>4 DEF SecondSignal, jobVars, TypeOK
<1>5. CASE Cancel
  BY <1>5 DEF Cancel, jobVars, TypeOK
<1>6. CASE Drain
  BY <1>6 DEF Drain, jobVars, TypeOK
<1>7. CASE Sweep
  BY <1>7 DEF Sweep, TypeOK
<1>8. CASE ForcedExit \/ Return
  BY <1>8 DEF ForcedExit, Return, jobVars, TypeOK
<1>9. CASE UNCHANGED vars
  BY <1>9 DEF vars, jobVars, TypeOK
<1> QED
  BY <1>1, <1>2, <1>3, <1>4, <1>5, <1>6, <1>7, <1>8, <1>9 DEF Next, Handler

(* Type correctness of an interrupted run: an exit code is some signal's   *)
(* only if there was one, which Cancel waits for FirstSignal to note.      *)
THEOREM Typing == Spec => []TypeOK
<1>1. Typed => TypeOK
  BY DEF Typed
<1> QED
  BY <1>1, InitTyped, NextTyped, PTL DEF Spec

(* Once its context is cancelled a run can exit with its first signal's    *)
(* code only: the signal is noted before Cancel, a return then asks for    *)
(* it, a forced exit comes after Cancel, and no second signal renames it.  *)
THEOREM FirstSignalNames == Spec => ExitCodeIsTheFirst
<1>1. Typed /\ [Next]_vars =>
        [ /\ first # "none" => first' = first
          /\ cancelled => exit' = exit \/ (exit' = first /\ first \in Signals) ]_vars
  <2> SUFFICES ASSUME Typed, Next
               PROVE  /\ first # "none" => first' = first
                      /\ cancelled => exit' = exit \/ (exit' = first /\ first \in Signals)
    OBVIOUS
  <2>1. first # "none" => handler # "waiting"
    BY DEF Typed, HandlerInv
  <2>2. cancelled => first \in Signals
    BY DEF Typed, HandlerInv, TypeOK, Armed
  <2>3. ASSUME NEW w \in Workers, Work(w) \/ ChildEnds(w)
        PROVE  UNCHANGED <<first, exit>>
    BY <2>3 DEF Work, ChildEnds
  <2>4. ASSUME NEW sig \in Signals, FirstSignal(sig) \/ SecondSignal(sig)
        PROVE  exit' = exit /\ (first # "none" => first' = first)
    BY <2>1, <2>4 DEF FirstSignal, SecondSignal
  <2>5. CASE Cancel \/ Drain \/ Sweep
    BY <2>5 DEF Cancel, Drain, Sweep
  <2>6. CASE ForcedExit \/ Return
    <3>1. first' = first
      BY <2>6 DEF ForcedExit, Return
    <3>2. cancelled => exit' = first
      BY <2>6 DEF ForcedExit, Return
    <3> QED
      BY <2>2, <3>1, <3>2
  <2> QED
    BY <2>3, <2>4, <2>5, <2>6 DEF Next, Handler
<1> QED
  BY <1>1, InitTyped, NextTyped, PTL DEF Spec, ExitCodeIsTheFirst

-----------------------------------------------------------------------------
(* No child outlives talman.                                               *)

(* A child lives only while its goroutine waits for it.  Once a forced     *)
(* exit kills, that is only until the goroutine is back under the lock;    *)
(* and where the starts in flight have been waited for, there are none.    *)
ChildInv ==
  /\ \A w \in alive : at[w] \in {"forked", "running"}
  /\ killing => \A w \in alive : at[w] = "forked"
  /\ handler \in {"drained", "swept"} /\ ~timedOut =>
       \A w \in Workers : at[w] \notin {"starting", "forked"}
  /\ NoOrphans

LEMMA ChildStep == Typed /\ ChildInv /\ [Next]_vars => ChildInv'
<1> SUFFICES ASSUME Typed, ChildInv, [Next]_vars PROVE ChildInv'
  OBVIOUS
<1> USE DEF Typed, HandlerInv, ChildInv, NoOrphans, Armed, Killing
<1>0. alive \subseteq Workers
  BY DEF TypeOK
<1>1. ASSUME NEW w \in Workers, Work(w) PROVE ChildInv'
  <2>1. /\ UNCHANGED <<handler, cancelled, killing, exit, timedOut>> /\ exit = "no"
        /\ \A v \in Workers \ {w} : at'[v] = at[v] /\ (v \in alive' <=> v \in alive)
        /\ alive' \subseteq Workers
    BY <1>1, WorkSteps DEF TypeOK
  <2>2. /\ w \in alive' => at'[w] \in {"forked", "running"} /\ (killing => at'[w] = "forked")
        /\ killing /\ at'[w] \in {"starting", "forked"} => at[w] \in {"starting", "forked"}
    <3> USE DEF Move, TypeOK
    <3>1. CASE Create(w) \/ Register(w) \/ Write(w) \/ CleanUp(w)
      BY <1>0, <3>1 DEF Create, Register, Write, CleanUp
    <3>2. CASE RunChild(w)
      BY <3>2 DEF RunChild
    <3>3. CASE Fork(w)
      BY <3>3 DEF Fork
    <3>4. CASE Adopt(w) \/ Reap(w)
      BY <3>4 DEF Adopt, Reap
    <3> QED
      BY <1>1, <3>1, <3>2, <3>3, <3>4 DEF Work
  <2> QED
    BY <1>0, <2>1, <2>2
<1>2. ASSUME NEW w \in Workers, ChildEnds(w) PROVE ChildInv'
  BY <1>2 DEF ChildEnds, jobVars
<1>3. ASSUME NEW sig \in Signals, FirstSignal(sig) PROVE ChildInv'
  BY <1>3 DEF FirstSignal, jobVars
<1>4. ASSUME NEW sig \in Signals, SecondSignal(sig) PROVE ChildInv'
  BY <1>0, <1>4 DEF SecondSignal, jobVars
<1>5. CASE Cancel \/ Sweep
  BY <1>5 DEF Cancel, Sweep, jobVars
<1>6. CASE Drain
  BY <1>6 DEF Drain, jobVars
<1>7. CASE ForcedExit
  BY <1>0, <1>7 DEF ForcedExit, jobVars
<1>8. CASE Return
  BY <1>0, <1>8 DEF Return, jobVars
<1>9. CASE UNCHANGED vars
  BY <1>9 DEF vars, jobVars
<1> QED
  BY <1>1, <1>2, <1>3, <1>4, <1>5, <1>6, <1>7, <1>8, <1>9 DEF Next, Handler

(* No child is left behind when talman exits, unless startDrain ran out:   *)
(* RunChild and Adopt hold the lock that killRunning does, so a start that *)
(* it does not see is refused, waited for, or killed when it is back.      *)
THEOREM ChildrenEnd == Spec => []NoOrphans
<1>1. Init => ChildInv
  BY DEF Init, ChildInv, NoOrphans
<1>2. ChildInv => NoOrphans
  BY DEF ChildInv
<1> QED
  BY <1>1, <1>2, InitTyped, NextTyped, ChildStep, PTL DEF Spec

-----------------------------------------------------------------------------
(* No secret stays on disk.                                                *)

(* A worker that has listed its temporary file, if the file is there yet.  *)
Holds(w) ==
  at[w] \in {"held", "written", "starting", "forked", "running", "finished"} /\ temp[w] # "none"

(* What a worker holds is on the list a forced exit sweeps, or was put     *)
(* there too late for it; before, it holds no secret, and after, no file.  *)
TempInv ==
  /\ \A w \in Workers :
       /\ Holds(w) => w \in (IF handler = "swept" THEN late ELSE listed)
       /\ at[w] = "made" => temp[w] = "empty"
       /\ at[w] \in {"idle", "made"} => w \notin listed
       /\ at[w] \in {"idle", "removed"} => temp[w] = "none"
  /\ SweptClean

LEMMA TempStep == Typed /\ TempInv /\ [Next]_vars => TempInv'
<1> SUFFICES ASSUME Typed, TempInv, [Next]_vars PROVE TempInv'
  OBVIOUS
<1> USE DEF Typed, TempInv, Holds, SweptClean, Places
<1>1. ASSUME NEW w \in Workers, Work(w) PROVE TempInv'
  <2>1. /\ UNCHANGED <<handler, exit>> /\ exit = "no"
        /\ \A v \in Workers \ {w} :
             /\ at'[v] = at[v] /\ temp'[v] = temp[v]
             /\ (v \in listed' <=> v \in listed) /\ (v \in late' <=> v \in late)
    BY <1>1, WorkSteps
  <2>2. /\ Holds(w)' => w \in (IF handler = "swept" THEN late' ELSE listed')
        /\ at'[w] = "made" => temp'[w] = "empty"
        /\ at'[w] \in {"idle", "made"} => w \notin listed'
        /\ at'[w] \in {"idle", "removed"} => temp'[w] = "none"
    <3> USE DEF Move, TypeOK
    <3>1. CASE Create(w)
      BY <3>1 DEF Create
    <3>2. CASE Register(w)
      BY <3>2 DEF Register
    <3>3. CASE Write(w)
      BY <3>3 DEF Write
    <3>4. CASE RunChild(w) \/ Fork(w) \/ Adopt(w) \/ Reap(w)
      BY <3>4 DEF RunChild, Fork, Adopt, Reap
    <3>5. CASE CleanUp(w)
      BY <3>5 DEF CleanUp
    <3> QED
      BY <1>1, <3>1, <3>2, <3>3, <3>4, <3>5 DEF Work
  <2> QED
    BY <2>1, <2>2
<1>2. ASSUME NEW w \in Workers, ChildEnds(w) PROVE TempInv'
  BY <1>2 DEF ChildEnds, jobVars
<1>3. ASSUME NEW sig \in Signals, FirstSignal(sig) \/ SecondSignal(sig) PROVE TempInv'
  BY <1>3 DEF FirstSignal, SecondSignal, jobVars
<1>4. CASE Cancel \/ Drain
  BY <1>4 DEF Cancel, Drain, jobVars
<1>5. CASE Sweep
  BY <1>5 DEF Sweep, TypeOK
<1>6. CASE ForcedExit \/ Return
  BY <1>6 DEF ForcedExit, Return, jobVars, TypeOK
<1>7. CASE UNCHANGED vars
  BY <1>7 DEF vars, jobVars
<1> QED
  BY <1>1, <1>2, <1>3, <1>4, <1>5, <1>6, <1>7 DEF Next, Handler

(* A secret on disk when talman exits was listed only after the sweep:     *)
(* CreateTemp lists a file before the secret goes in, and the cleanup      *)
(* unlists it only once it is gone.                                        *)
THEOREM SecretsSwept == Spec => []SweptClean
<1>1. Init => TempInv
  BY DEF Init, TempInv, Holds, SweptClean
<1>2. TempInv => SweptClean
  BY DEF TempInv
<1> QED
  BY <1>1, <1>2, InitTyped, NextTyped, TempStep, PTL DEF Spec

-----------------------------------------------------------------------------
(* The output of a batch: InOrder implements Transcript.  First, what is   *)
(* needed of flattening, which is defined by recursion along its blocks.   *)

(* The least of a set of numbers. *)
LEMMA LeastThereIs ==
  ASSUME NEW S \in SUBSET Nat, S # {}
  PROVE  \E n \in S : \A m \in S : n <= m
<1> DEFINE Less == OpToRel(<, Nat)
<1>1. \A v, w \in Nat : <<v, w>> \in Less <=> v < w
  BY DEF OpToRel
<1>2. IsWellFoundedOn(Less, Nat)
  BY NatLessThanWellFounded
<1> HIDE DEF Less
<1>3. PICK n \in S : \A v \in S : ~(<<v, n>> \in Less)
  BY <1>2, WFMin, Zenon
<1>4. ASSUME NEW m \in S PROVE n <= m
  <2>1. n \in Nat /\ m \in Nat /\ ~(m < n)
    BY <1>1, <1>3
  <2> QED
    BY <2>1
<1> QED
  BY <1>4

(* Induction over the natural numbers, of a set. *)
LEMMA InductionOfSet ==
  ASSUME NEW P, 0 \in P, \A n \in Nat : n \in P => n + 1 \in P
  PROVE  Nat \subseteq P
<1> SUFFICES ASSUME Nat \ P # {} PROVE FALSE
  OBVIOUS
<1>1. PICK n \in Nat \ P : \A m \in Nat \ P : n <= m
  BY LeastThereIs
<1>2. n # 0 /\ n - 1 \in Nat /\ ~(n <= n - 1) /\ n - 1 + 1 = n
  OBVIOUS
<1>3. n - 1 \in P
  BY <1>1, <1>2
<1> QED
  BY <1>2, <1>3

(* Concatenation, a block at a time. *)
Builds(f, s, n) == f = [i \in 1 .. n |-> IF i = 1 THEN s[i] ELSE f[i - 1] \o s[i]]

LEMMA Built ==
  ASSUME NEW s, NEW n \in Nat
  PROVE  \E f : Builds(f, s, n)
<1> DEFINE P == {m \in Nat : \E f : Builds(f, s, m)}
<1>1. 0 \in P
  <2> DEFINE f == [i \in 1 .. 0 |-> 0]
  <2>1. \A i \in 1 .. 0 : FALSE
    OBVIOUS
  <2>2. Builds(f, s, 0)
    BY <2>1 DEF Builds
  <2> QED
    BY <2>2
<1>2. ASSUME NEW m \in Nat, m \in P PROVE m + 1 \in P
  <2>1. PICK f : Builds(f, s, m)
    BY <1>2
  <2> DEFINE g == [i \in 1 .. m + 1 |-> IF i <= m THEN f[i] ELSE IF i = 1 THEN s[i] ELSE f[i - 1] \o s[i]]
  <2>2. ASSUME NEW i \in 1 .. m + 1
        PROVE  g[i] = IF i = 1 THEN s[i] ELSE g[i - 1] \o s[i]
    <3>1. CASE i <= m
      <4>1. f[i] = IF i = 1 THEN s[i] ELSE f[i - 1] \o s[i]
        <5>1. \A j \in 1 .. m : f[j] = IF j = 1 THEN s[j] ELSE f[j - 1] \o s[j]
          BY <2>1 DEF Builds
        <5> QED
          BY <3>1, <5>1
      <4>2. i # 1 => g[i - 1] = f[i - 1]
        BY <3>1
      <4> QED
        BY <3>1, <4>1, <4>2
    <3>2. CASE i = m + 1
      BY <2>1, <3>2 DEF Builds
    <3> QED
      BY <3>1, <3>2
  <2>3. Builds(g, s, m + 1)
    BY <2>2 DEF Builds
  <2> QED
    BY <2>3
<1> HIDE DEF P
<1>3. n \in P
  BY <1>1, <1>2, InductionOfSet
<1> QED
  BY <1>3 DEF P

Build(s) == CHOOSE f : Builds(f, s, Len(s))

LEMMA FlattenBuilds ==
  ASSUME NEW S, NEW n \in Nat \ {0}, NEW s \in [1 .. n -> Seq(S)]
  PROVE  /\ FlattenSeq(s) = Build(s)[n]
         /\ Build(s)[1] = s[1]
         /\ \A i \in 1 .. n : i + 1 \in 1 .. n => Build(s)[i + 1] = Build(s)[i] \o s[i + 1]
         /\ \A i \in 1 .. n : Build(s)[i] \in Seq(S)
<1>1. s \in Seq(Seq(S)) /\ Len(s) = n
  OBVIOUS
<1>2. FlattenSeq(s) = Build(s)[n]
  BY <1>1 DEF FlattenSeq, Build, Builds
<1>3. Builds(Build(s), s, n)
  BY <1>1, Built DEF Build
<1>4. \A i \in 1 .. n : Build(s)[i] = IF i = 1 THEN s[i] ELSE Build(s)[i - 1] \o s[i]
  BY <1>3 DEF Builds
<1> HIDE DEF Build
<1>5. Build(s)[1] = s[1]
  BY <1>4
<1>6. ASSUME NEW i \in 1 .. n, i + 1 \in 1 .. n
      PROVE  Build(s)[i + 1] = Build(s)[i] \o s[i + 1]
  <2>1. i + 1 # 1 /\ (i + 1) - 1 = i
    OBVIOUS
  <2>2. Build(s)[i + 1] = IF i + 1 = 1 THEN s[i + 1] ELSE Build(s)[(i + 1) - 1] \o s[i + 1]
    BY <1>4, <1>6
  <2> QED
    BY <2>1, <2>2
<1> DEFINE P == {m \in Nat : m + 1 \in 1 .. n => Build(s)[m + 1] \in Seq(S)}
<1>7. 0 \in P
  BY <1>5
<1>8. ASSUME NEW m \in Nat, m \in P PROVE m + 1 \in P
  <2> SUFFICES ASSUME m + 2 \in 1 .. n PROVE Build(s)[m + 2] \in Seq(S)
    OBVIOUS
  <2>1. m + 1 \in 1 .. n /\ m + 2 = (m + 1) + 1
    OBVIOUS
  <2>2. Build(s)[m + 2] = Build(s)[m + 1] \o s[m + 2]
    BY <1>6, <2>1
  <2>3. Build(s)[m + 1] \in Seq(S) /\ s[m + 2] \in Seq(S)
    BY <1>8, <2>1
  <2> QED
    BY <2>2, <2>3
<1> HIDE DEF P
<1>9. Nat \subseteq P
  BY <1>7, <1>8, InductionOfSet
<1>10. ASSUME NEW i \in 1 .. n PROVE Build(s)[i] \in Seq(S)
  <2>1. i - 1 \in P /\ i - 1 + 1 = i
    BY <1>9
  <2> QED
    BY <2>1 DEF P
<1> QED
  BY <1>2, <1>5, <1>6, <1>10

(* Concatenation, by its laws alone. *)
Cat(x, y) == x \o y
Nil == << >>

LEMMA CatNil == \A S : \A x \in Seq(S) : Cat(x, Nil) = x /\ Cat(Nil, x) = x
  BY ConcatEmptySeq DEF Cat, Nil

LEMMA CatCat ==
  \A S : \A x, y, z \in Seq(S) : Cat(x, y) \in Seq(S) /\ Cat(Cat(x, y), z) = Cat(x, Cat(y, z))
<1>1. ASSUME NEW S, NEW x \in Seq(S), NEW y \in Seq(S), NEW z \in Seq(S)
      PROVE  (x \o y) \o z = x \o (y \o z)
  BY ConcatAssociative
<1>2. ASSUME NEW S, NEW x \in Seq(S), NEW y \in Seq(S)
      PROVE  x \o y \in Seq(S)
  OBVIOUS
<1> QED
  BY <1>1, <1>2 DEF Cat

(* Two pairs, of which the middle two can change places as one is empty.  *)
LEMMA CatPairs ==
  ASSUME NEW S, NEW x \in Seq(S), NEW y \in Seq(S), NEW u \in Seq(S), NEW v \in Seq(S),
         y = Nil \/ u = Nil
  PROVE  Cat(Cat(x, y), Cat(u, v)) = Cat(Cat(x, u), Cat(y, v))
<1>1. Cat(Cat(x, u), v) = Cat(x, Cat(u, v)) /\ Cat(Cat(x, y), v) = Cat(x, Cat(y, v))
  BY CatCat, SMT
<1>2. Cat(x, Nil) = x /\ Cat(Nil, v) = v
  BY CatNil, Zenon
<1>3. CASE y = Nil
  BY <1>1, <1>2, <1>3, Zenon
<1>4. CASE u = Nil
  BY <1>1, <1>2, <1>4, Zenon
<1> QED
  BY <1>3, <1>4

(* B accumulates the blocks of s, n of them, from the first on. *)
Accumulates(B, s, S, n) ==
  /\ FlattenSeq(s) = B[n]
  /\ B[1] = s[1]
  /\ \A i \in 1 .. n : i + 1 \in 1 .. n => B[i + 1] = Cat(B[i], s[i + 1])
  /\ \A i \in 1 .. n : B[i] \in Seq(S)

LEMMA Accumulated ==
  ASSUME NEW S, NEW n \in Nat \ {0}, NEW s \in [1 .. n -> Seq(S)]
  PROVE  \E B : Accumulates(B, s, S, n)
<1> DEFINE b == Build(s)
<1>1. /\ FlattenSeq(s) = b[n]
      /\ b[1] = s[1]
      /\ \A i \in 1 .. n : i + 1 \in 1 .. n => b[i + 1] = b[i] \o s[i + 1]
      /\ \A i \in 1 .. n : b[i] \in Seq(S)
  BY FlattenBuilds
<1> HIDE DEF b
<1>2. Accumulates(b, s, S, n)
  BY <1>1 DEF Accumulates, Cat
<1> QED
  BY <1>2

(* What holds of the first block, and of each with the one before it.     *)
LEMMA FlattenInduction ==
  ASSUME NEW n \in Nat \ {0}, NEW P, 1 \in P, \A i \in 1 .. n : i + 1 \in 1 .. n /\ i \in P => i + 1 \in P
  PROVE  1 .. n \subseteq P
<1> DEFINE Q == {m \in Nat : m + 1 \in 1 .. n => m + 1 \in P}
<1>1. 0 \in Q
  OBVIOUS
<1>2. ASSUME NEW m \in Nat, m \in Q PROVE m + 1 \in Q
  <2> SUFFICES ASSUME m + 2 \in 1 .. n PROVE m + 2 \in P
    OBVIOUS
  <2>1. m + 1 \in 1 .. n /\ m + 2 = (m + 1) + 1
    OBVIOUS
  <2>2. m + 1 \in P
    BY <1>2, <2>1
  <2> QED
    BY <2>1, <2>2
<1> HIDE DEF Q
<1>3. Nat \subseteq Q
  BY <1>1, <1>2, InductionOfSet
<1>4. ASSUME NEW i \in 1 .. n PROVE i \in P
  <2>1. i - 1 \in Q /\ i - 1 + 1 = i
    BY <1>3
  <2> QED
    BY <2>1 DEF Q
<1> QED
  BY <1>4

(* c's blocks are those of a and b, and nothing of a is left where b has   *)
(* begun. *)
Joins(c, a, b, S, n) ==
  /\ a \in [1 .. n -> Seq(S)] /\ b \in [1 .. n -> Seq(S)] /\ c \in [1 .. n -> Seq(S)]
  /\ \A i \in 1 .. n : c[i] = a[i] \o b[i]
  /\ \A i, j \in 1 .. n : i < j /\ b[i] # << >> => a[j] = << >>

LEMMA FlattenJoined ==
  ASSUME NEW S, NEW n \in Nat \ {0}, NEW a, NEW b, NEW c, Joins(c, a, b, S, n)
  PROVE  FlattenSeq(c) = Cat(FlattenSeq(a), FlattenSeq(b))
<1> USE DEF Joins
<1>1. PICK A : Accumulates(A, a, S, n)
  BY Accumulated
<1>2. PICK B : Accumulates(B, b, S, n)
  BY Accumulated
<1>3. PICK C : Accumulates(C, c, S, n)
  BY Accumulated
<1>4. /\ \A i \in 1 .. n : c[i] = Cat(a[i], b[i])
      /\ \A i, j \in 1 .. n : i < j /\ b[i] # Nil => a[j] = Nil
  BY DEF Cat, Nil
<1> DEFINE P == {i \in 1 .. n : C[i] = Cat(A[i], B[i])
                               /\ (B[i] = Nil \/ \A j \in 1 .. n : i < j => a[j] = Nil)}
<1>5. 1 \in P
  <2>1. A[1] = a[1] /\ B[1] = b[1] /\ C[1] = Cat(a[1], b[1]) /\ 1 \in 1 .. n
    BY <1>1, <1>2, <1>3, <1>4 DEF Accumulates
  <2>2. b[1] = Nil \/ \A j \in 1 .. n : 1 < j => a[j] = Nil
    BY <1>4, <2>1
  <2> QED
    BY <2>1, <2>2
<1>6. ASSUME NEW i \in 1 .. n, i + 1 \in 1 .. n, i \in P PROVE i + 1 \in P
  <2>1. PICK k \in 1 .. n : k = i + 1
    BY <1>6
  <2>2. A[k] = Cat(A[i], a[k]) /\ A[i] \in Seq(S)
    BY <1>1, <2>1 DEF Accumulates
  <2>3. B[k] = Cat(B[i], b[k]) /\ B[i] \in Seq(S)
    BY <1>2, <2>1 DEF Accumulates
  <2>4. C[k] = Cat(C[i], c[k]) /\ c[k] = Cat(a[k], b[k])
    BY <1>3, <1>4, <2>1 DEF Accumulates
  <2>5. /\ C[i] = Cat(A[i], B[i])
        /\ B[i] = Nil \/ \A j \in 1 .. n : i < j => a[j] = Nil
    BY <1>6
  <2>6. a[k] \in Seq(S) /\ b[k] \in Seq(S)
    OBVIOUS
  <2>7. B[i] = Nil \/ a[k] = Nil
    BY <2>1, <2>5
  <2>8. Cat(Cat(A[i], B[i]), Cat(a[k], b[k])) = Cat(Cat(A[i], a[k]), Cat(B[i], b[k]))
    <3>1. A[i] \in Seq(S) /\ B[i] \in Seq(S) /\ a[k] \in Seq(S) /\ b[k] \in Seq(S)
      BY <2>2, <2>3, <2>6
    <3>2. PICK x \in Seq(S), y \in Seq(S), v \in Seq(S), w \in Seq(S) :
             x = A[i] /\ y = B[i] /\ v = a[k] /\ w = b[k]
      BY <3>1, Zenon
    <3>3. y = Nil \/ v = Nil
      BY <2>7, <3>2, Zenon
    <3>4. Cat(Cat(x, y), Cat(v, w)) = Cat(Cat(x, v), Cat(y, w))
      BY <3>3, CatPairs
    <3> QED
      BY <3>2, <3>4, Zenon
  <2>9. C[k] = Cat(A[k], B[k])
    BY <2>2, <2>3, <2>4, <2>5, <2>8, Zenon
  <2>10. B[k] = Nil \/ \A j \in 1 .. n : k < j => a[j] = Nil
    <3>1. CASE B[i] = Nil
      <4>1. B[k] = b[k]
        BY <2>3, <2>6, <3>1, CatNil, Zenon
      <4> QED
        BY <1>4, <4>1
    <3>2. CASE B[i] # Nil
      <4>1. \A j \in 1 .. n : i < j => a[j] = Nil
        BY <2>5, <3>2, Zenon
      <4> QED
        BY <2>1, <4>1
    <3> QED
      BY <3>1, <3>2
  <2> QED
    BY <2>1, <2>9, <2>10
<1> HIDE DEF P
<1>7. 1 .. n \subseteq P
  BY <1>5, <1>6, FlattenInduction, Zenon
<1>8. C[n] = Cat(A[n], B[n])
  <2>1. n \in P
    BY <1>7
  <2> QED
    BY <2>1 DEF P
<1>9. FlattenSeq(a) = A[n] /\ FlattenSeq(b) = B[n] /\ FlattenSeq(c) = C[n]
  BY <1>1, <1>2, <1>3 DEF Accumulates
<1> QED
  BY <1>8, <1>9, Zenon

(* One block alone. *)
Alone(p, s, S, n) ==
  /\ p \in 1 .. n /\ s \in [1 .. n -> Seq(S)]
  /\ \A i \in 1 .. n \ {p} : s[i] = << >>

LEMMA FlattenAlone ==
  ASSUME NEW S, NEW n \in Nat \ {0}, NEW s, NEW p, Alone(p, s, S, n)
  PROVE  FlattenSeq(s) = s[p]
<1> USE DEF Alone
<1>1. PICK B : Accumulates(B, s, S, n)
  BY Accumulated
<1> DEFINE P == {i \in 1 .. n : B[i] = IF i < p THEN Nil ELSE s[p]}
<1>2. 1 \in P
  <2>1. B[1] = s[1] /\ 1 \in 1 .. n
    BY <1>1 DEF Accumulates
  <2>2. CASE p = 1
    BY <2>1, <2>2
  <2>3. CASE p # 1
    <3>1. s[1] = Nil /\ 1 < p
      BY <2>1, <2>3 DEF Nil
    <3> QED
      BY <2>1, <3>1
  <2> QED
    BY <2>2, <2>3
<1>3. ASSUME NEW i \in 1 .. n, i + 1 \in 1 .. n, i \in P PROVE i + 1 \in P
  <2>1. PICK k \in 1 .. n : k = i + 1
    BY <1>3
  <2>2. B[k] = Cat(B[i], s[k]) /\ B[i] \in Seq(S) /\ s[k] \in Seq(S)
    BY <1>1, <2>1 DEF Accumulates
  <2>3. B[i] = IF i < p THEN Nil ELSE s[p]
    BY <1>3
  <2> HIDE DEF P
  <2>4. CASE k = p
    <3>1. B[i] = Nil
      BY <2>1, <2>3, <2>4
    <3>2. B[k] = s[p] /\ ~(k < p)
      BY <2>2, <2>4, <3>1, CatNil
    <3> QED
      BY <2>1, <3>2 DEF P
  <2>5. CASE k # p
    <3>1. s[k] = Nil /\ (i < p <=> k < p)
      BY <2>1, <2>5 DEF Nil
    <3>2. B[k] = B[i]
      BY <2>2, <3>1, CatNil
    <3> QED
      BY <2>1, <2>3, <3>1, <3>2 DEF P
  <2> QED
    BY <2>4, <2>5
<1> HIDE DEF P
<1>4. 1 .. n \subseteq P
  BY <1>2, <1>3, FlattenInduction, Zenon
<1>5. B[n] = s[p]
  <2>1. n \in P
    BY <1>4
  <2> QED
    BY <2>1 DEF P
<1> QED
  BY <1>1, <1>5 DEF Accumulates

-----------------------------------------------------------------------------
(* What is printed and what is held, by the head of the order.             *)

USE BatchAssumption

Counts == [Node -> 0 .. MaxSays]

(* All that node p has said, and that part of it that is printed while the *)
(* head of the order is h. *)
Block(p, s) == [k \in 1 .. s[p] |-> <<p, k>>]
Shown(s, h) == [p \in Node |-> IF p <= h THEN Block(p, s) ELSE << >>]
Printed(s, h) == FlattenSeq(Shown(s, h))

LEMMA BlockTypes ==
  ASSUME NEW s \in Counts, NEW p \in Node
  PROVE  Block(p, s) \in Seq(Line)
<1>1. s[p] \in Nat /\ s[p] <= MaxSays
  BY DEF Counts
<1>2. ASSUME NEW k \in 1 .. s[p] PROVE <<p, k>> \in Line
  BY <1>1 DEF Line
<1> QED
  BY <1>1, <1>2 DEF Block

LEMMA ShownTypes ==
  ASSUME NEW s \in Counts, NEW h \in Nat
  PROVE  Shown(s, h) \in [1 .. N -> Seq(Line)]
  BY BlockTypes DEF Shown, Node

(* One more line of a node's. *)
LEMMA BlockGrows ==
  ASSUME NEW s \in Counts, NEW p \in Node, s[p] < MaxSays
  PROVE  LET t == [s EXCEPT ![p] = @ + 1]
         IN  /\ t \in Counts /\ <<p, t[p]>> \in Line
             /\ Block(p, t) = Append(Block(p, s), <<p, t[p]>>)
             /\ \A q \in Node \ {p} : Block(q, t) = Block(q, s)
<1> DEFINE t == [s EXCEPT ![p] = @ + 1]
<1>1. s[p] \in Nat /\ t[p] = s[p] + 1 /\ t \in Counts /\ t[p] \in 1 .. MaxSays
  BY DEF Counts
<1> HIDE DEF t
<1>2. <<p, t[p]>> \in Line
  BY <1>1 DEF Line
<1>3. \A q \in Node \ {p} : Block(q, t) = Block(q, s)
  BY DEF Block, Counts, t
<1>4. Block(p, t) = Append(Block(p, s), <<p, t[p]>>)
  BY <1>1 DEF Block
<1> QED
  BY <1>1, <1>2, <1>3, <1>4 DEF t

(* What Finish makes the head: the first node from here on not yet done.   *)
LEMMA HeadMoves ==
  ASSUME next \in 1 .. N + 1, NEW d \in SUBSET Node
  PROVE  LET h == NewHead(d)
         IN  /\ h \in next .. N + 1 /\ h \notin d
             /\ \A q \in Node : next <= q /\ q < h => q \in d
<1> DEFINE S == {h \in next .. N + 1 : h \notin d}
           h == NewHead(d)
<1>1. S \in SUBSET Nat /\ N + 1 \in S
  BY DEF Node
<1>2. PICK k \in S : \A m \in S : k <= m
  BY <1>1, LeastThereIs
<1>3. \A q \in next .. k - 1 : q \in d
  BY <1>2
<1>4. /\ h \in next .. N + 1 /\ h \notin d
      /\ \A q \in next .. h - 1 : q \in d
  BY <1>2, <1>3 DEF NewHead
<1> HIDE DEF h
<1>5. ASSUME NEW q \in Node, next <= q, q < h PROVE q \in d
  <2>1. h \in Nat /\ q \in Nat /\ next \in Nat
    BY <1>4 DEF Node
  <2>2. q \in next .. h - 1
    BY <1>5, <2>1
  <2> QED
    BY <1>4, <2>2
<1> QED
  BY <1>4, <1>5 DEF h

(***************************************************************************)
(* next is the first node that is not finished; what a node up to it has   *)
(* said is printed, and what a later one has said is held.                 *)
(***************************************************************************)
InOrderInv ==
  /\ OutputTypeOK
  /\ \A q \in Node : q < next => q \in done
  /\ next \notin done
  /\ running \cap done = {}
  /\ \A p \in Node : held[p] = IF p <= next THEN << >> ELSE Block(p, said)
  /\ out = Printed(said, next)

(* The reader's view of the same: where h is the first that is not done.   *)
LEMMA ReaderSees ==
  ASSUME NEW s, NEW d, NEW h \in 1 .. N + 1,
         \A q \in Node : q < h => q \in d, h \notin d
  PROVE  Reader!Visible(s, d) = Printed(s, h)
<1>1. ASSUME NEW p \in Node PROVE Reader!Shown(p, d) <=> p <= h
  BY DEF Reader!Shown, Reader!Node, Node
<1>2. [p \in Reader!Node |-> IF Reader!Shown(p, d) THEN Reader!Block(p, s) ELSE << >>]
        = Shown(s, h)
  BY <1>1 DEF Shown, Block, Reader!Block, Reader!Node, Node
<1>3. ASSUME NEW f PROVE Reader!FlattenSeq(f) = FlattenSeq(f)
  BY DEF FlattenSeq, Reader!FlattenSeq
<1> HIDE DEF FlattenSeq
<1>4. Reader!Visible(s, d) = Reader!FlattenSeq(Shown(s, h))
  BY <1>2, Zenon DEF Reader!Visible
<1> QED
  BY <1>3, <1>4 DEF Printed

LEMMA InitInOrder ==
  ASSUME OutputInit
  PROVE  InOrderInv /\ Reader!Init
<1>1. /\ said = [p \in Node |-> 0] /\ next = 1 /\ done = {} /\ running = {} /\ out = << >>
      /\ held = [p \in Node |-> << >>] /\ parallel \in Node
  BY DEF OutputInit, Node
<1>2. said \in Counts /\ next \in 1 .. N + 1
  BY <1>1 DEF Counts, Node
<1>3. ASSUME NEW p \in Node PROVE Block(p, said) = << >>
  BY <1>1 DEF Block
<1>4. Shown(said, next) \in [1 .. N -> Seq(Line)]
  BY <1>2, ShownTypes
<1>5. 1 \in 1 .. N /\ \A p \in 1 .. N : Shown(said, next)[p] = << >>
  BY <1>3 DEF Shown, Node
<1>6. Printed(said, next) = << >>
  <2>1. Alone(1, Shown(said, next), Line, N)
    BY <1>4, <1>5 DEF Alone
  <2> QED
    BY <1>5, <2>1, FlattenAlone, SMT DEF Printed
<1>7. OutputTypeOK
  BY <1>1, <1>2 DEF OutputTypeOK, Node, Line, Counts
<1>8. InOrderInv
  BY <1>1, <1>3, <1>6, <1>7 DEF InOrderInv, Node
<1>9. Reader!Init
  BY <1>1 DEF Reader!Init, Reader!Node, Node
<1> QED
  BY <1>8, <1>9

(* The parts of the types that the steps need. *)
LEMMA Parts ==
  ASSUME InOrderInv
  PROVE  /\ said \in Counts /\ next \in 1 .. N + 1 /\ parallel \in Node
         /\ running \subseteq Node /\ done \subseteq Node
         /\ held \in [Node -> Seq(Line)] /\ out \in Seq(Line)
  BY DEF InOrderInv, OutputTypeOK, Node, Line, Counts

(* A line of the head is printed at once, one of another is held.          *)
LEMMA SayKeeps ==
  ASSUME InOrderInv, NEW p \in Node, Say(p)
  PROVE  InOrderInv' /\ Reader!Speak(p)
<1>1. /\ p \in running /\ p \notin done /\ said[p] < MaxSays
      /\ said' = [said EXCEPT ![p] = @ + 1]
      /\ UNCHANGED <<parallel, running, next, done>>
  BY DEF Say, InOrderInv
<1>2. /\ said' \in Counts /\ <<p, said'[p]>> \in Line
      /\ Block(p, said') = Append(Block(p, said), <<p, said'[p]>>)
      /\ \A q \in Node \ {p} : Block(q, said') = Block(q, said)
  BY <1>1, Parts, BlockGrows
<1>3. next <= p
  BY <1>1, Parts DEF InOrderInv, Node
<1>4. ASSUME next = p
      PROVE  /\ out' = Printed(said', next') /\ out' \in Seq(Line) /\ held' \in [Node -> Seq(Line)]
             /\ \A q \in Node : held'[q] = IF q <= next' THEN << >> ELSE Block(q, said')
  <2>1. out' = Append(out, <<p, said'[p]>>) /\ held' = held
    BY <1>4 DEF Say
  <2> DEFINE line == <<p, said'[p]>>
             b == [q \in 1 .. N |-> IF q = p THEN <<line>> ELSE << >>]
  <2>2. line \in Line
    BY <1>2
  <2> HIDE DEF line
  <2>3. b \in [1 .. N -> Seq(Line)] /\ FlattenSeq(b) = <<line>>
    <3>1. b \in [1 .. N -> Seq(Line)] /\ p \in 1 .. N
      BY <2>2 DEF Node
    <3>2. b[p] = <<line>> /\ \A q \in 1 .. N \ {p} : b[q] = << >>
      BY <3>1
    <3> HIDE DEF b
    <3>3. FlattenSeq(b) = b[p]
      <4>1. Alone(p, b, Line, N)
        BY <3>1, <3>2 DEF Alone
      <4> QED
        BY <4>1, FlattenAlone, SMT
    <3> QED
      BY <3>1, <3>2, <3>3
  <2> DEFINE a == Shown(said, next)
             c == Shown(said', next)
  <2>4. a \in [1 .. N -> Seq(Line)] /\ c \in [1 .. N -> Seq(Line)]
    <3>1. said \in Counts /\ next \in Nat
      BY Parts
    <3> QED
      BY <1>2, <3>1, ShownTypes
  <2>5. \A q \in 1 .. N : c[q] = a[q] \o b[q]
    <3>1. ASSUME NEW q \in 1 .. N PROVE c[q] = a[q] \o b[q]
      <4>1. Block(q, said) \in Seq(Line)
        BY Parts, BlockTypes DEF Node
      <4>2. CASE q = p
        <5>1. c[q] = Append(Block(p, said), line) /\ a[q] = Block(p, said)
          BY <1>2, <1>4, <4>2, Parts DEF Shown, line, Node
        <5>2. Append(Block(p, said), line) = Block(p, said) \o <<line>>
          BY <2>2, <4>1, <4>2, AppendIsConcat
        <5> QED
          BY <4>2, <5>1, <5>2
      <4>3. CASE q # p
        <5>1. c[q] = a[q] /\ b[q] = << >>
          BY <1>2, <4>3 DEF Shown, Node
        <5> QED
          BY <2>4, <5>1, ConcatEmptySeq
      <4> QED
        BY <4>2, <4>3
    <3> QED
      BY <3>1
  <2>6. \A i, j \in 1 .. N : i < j /\ b[i] # << >> => a[j] = << >>
    BY <1>4, Parts DEF Shown, Node
  <2>7. Printed(said', next) = Printed(said, next) \o <<line>>
    <3>1. Printed(said, next) = FlattenSeq(a) /\ Printed(said', next) = FlattenSeq(c)
      BY DEF Printed
    <3> HIDE DEF a, b, c, FlattenSeq
    <3>2. FlattenSeq(c) = Cat(FlattenSeq(a), FlattenSeq(b))
      <4>1. Joins(c, a, b, Line, N)
        BY <2>3, <2>4, <2>5, <2>6 DEF Joins
      <4> QED
        BY <4>1, FlattenJoined, SMT
    <3> QED
      BY <2>3, <3>1, <3>2 DEF Cat
  <2>8. out' = Printed(said', next')
    BY <1>1, <2>1, <2>2, <2>7, Parts, AppendIsConcat DEF InOrderInv, line
  <2>9. ASSUME NEW q \in Node PROVE held'[q] = IF q <= next' THEN << >> ELSE Block(q, said')
    <3>1. held[q] = IF q <= next THEN << >> ELSE Block(q, said)
      BY DEF InOrderInv
    <3>2. q # p => Block(q, said') = Block(q, said)
      BY <1>2
    <3> QED
      BY <1>1, <1>4, <2>1, <3>1, <3>2, Parts DEF Node
  <2>10. out' \in Seq(Line) /\ held' \in [Node -> Seq(Line)]
    BY <2>1, <2>2, Parts DEF line
  <2> QED
    BY <2>8, <2>9, <2>10
<1>5. ASSUME next # p
      PROVE  /\ out' = Printed(said', next') /\ out' \in Seq(Line) /\ held' \in [Node -> Seq(Line)]
             /\ \A q \in Node : held'[q] = IF q <= next' THEN << >> ELSE Block(q, said')
  <2>1. held' = [held EXCEPT ![p] = Append(@, <<p, said'[p]>>)] /\ out' = out
    BY <1>5 DEF Say
  <2>2. next < p /\ held[p] = Block(p, said)
    BY <1>3, <1>5, Parts DEF InOrderInv, Node
  <2>3. Shown(said', next) = Shown(said, next)
    BY <1>2, <2>2, Parts DEF Shown, Node
  <2>4. out' = Printed(said', next')
    BY <1>1, <2>1, <2>3 DEF Printed, InOrderInv
  <2>5. ASSUME NEW q \in Node PROVE held'[q] = IF q <= next' THEN << >> ELSE Block(q, said')
    <3>1. held[q] = IF q <= next THEN << >> ELSE Block(q, said)
      BY DEF InOrderInv
    <3>2. CASE q = p
      <4>1. held'[p] = Append(held[p], <<p, said'[p]>>)
        BY <2>1, Parts
      <4>2. held'[p] = Block(p, said')
        BY <1>2, <2>2, <4>1
      <4> QED
        BY <1>1, <2>2, <3>2, <4>2, Parts DEF Node
    <3>3. CASE q # p
      BY <1>1, <1>2, <2>1, <3>1, <3>3, Parts
    <3> QED
      BY <3>2, <3>3
  <2>6. out' \in Seq(Line) /\ held' \in [Node -> Seq(Line)]
    BY <1>2, <2>1, Parts
  <2> QED
    BY <2>4, <2>5, <2>6
<1>6. /\ out' = Printed(said', next') /\ out' \in Seq(Line) /\ held' \in [Node -> Seq(Line)]
      /\ \A q \in Node : held'[q] = IF q <= next' THEN << >> ELSE Block(q, said')
  BY <1>4, <1>5
<1>7. OutputTypeOK'
  BY <1>1, <1>2, <1>6, Parts DEF OutputTypeOK, Node, Line, Counts
<1>8. InOrderInv'
  BY <1>1, <1>6, <1>7 DEF InOrderInv
<1>9. Reader!Visible(said', done) = Printed(said', next)
  <2>1. next \in 1 .. N + 1 /\ next \notin done /\ \A q \in Node : q < next => q \in done
    BY Parts DEF InOrderInv
  <2> QED
    BY <2>1, ReaderSees
<1> QED
  BY <1>1, <1>6, <1>8, <1>9 DEF Reader!Speak

(* A node that finishes makes the first unfinished one the head, and what  *)
(* is held of those between is printed, in their order.                    *)
LEMMA FinishKeeps ==
  ASSUME InOrderInv, NEW p \in Node, Finish(p)
  PROVE  InOrderInv' /\ Reader!Finish(p)
<1>1. /\ p \in running /\ p \notin done /\ running' = running \ {p} /\ done' = done \cup {p}
      /\ UNCHANGED <<parallel, said>> /\ next' = NewHead(done')
  BY DEF Finish, InOrderInv
<1>2. /\ next' \in 1 .. N + 1 /\ next <= next' /\ next' \notin done'
      /\ \A q \in Node : q < next' => q \in done'
  <2>1. done' \in SUBSET Node
    BY <1>1, Parts
  <2>2. /\ next' \in next .. N + 1 /\ next' \notin done'
        /\ \A q \in Node : next <= q /\ q < next' => q \in done'
    BY <1>1, <2>1, Parts, HeadMoves
  <2>3. next' \in 1 .. N + 1 /\ next <= next'
    BY <2>2, Parts
  <2>4. ASSUME NEW q \in Node, q < next' PROVE q \in done'
    <3>1. CASE q < next
      BY <1>1, <3>1 DEF InOrderInv
    <3>2. CASE ~(q < next)
      <4>1. q \in Nat /\ next \in Nat
        BY Parts DEF Node
      <4>2. next <= q
        BY <3>2, <4>1
      <4> QED
        BY <2>2, <2>4, <4>2
    <3> QED
      BY <3>1, <3>2
  <2> QED
    BY <2>2, <2>3, <2>4
<1> DEFINE a == Shown(said, next)
           b == [q \in Node |-> IF next < q /\ q <= next' THEN held[q] ELSE << >>]
           c == Shown(said, next')
<1>3. /\ out' = out \o FlattenSeq(b)
      /\ held' = [q \in Node |-> IF next < q /\ q <= next' THEN << >> ELSE held[q]]
  BY DEF Finish, Node
<1>4. a \in [1 .. N -> Seq(Line)] /\ c \in [1 .. N -> Seq(Line)]
  <2>1. said \in Counts /\ next \in Nat /\ next' \in Nat
    BY <1>2, Parts
  <2> QED
    BY <2>1, ShownTypes
<1>5. b \in [1 .. N -> Seq(Line)]
  BY Parts DEF Node
<1>6. ASSUME NEW q \in 1 .. N PROVE c[q] = a[q] \o b[q]
  <2>1. q \in Node /\ held[q] = IF q <= next THEN << >> ELSE Block(q, said)
    BY DEF InOrderInv, Node
  <2>2. a[q] \in Seq(Line) /\ b[q] \in Seq(Line)
    BY <1>4, <1>5
  <2>3. \/ c[q] = a[q] /\ b[q] = << >>
        \/ c[q] = b[q] /\ a[q] = << >>
    BY <1>2, <2>1, Parts DEF Shown, Node
  <2> HIDE DEF a, b, c
  <2> QED
    BY <2>2, <2>3, ConcatEmptySeq
<1>7. \A i, j \in 1 .. N : i < j /\ b[i] # << >> => a[j] = << >>
  BY <1>2, Parts DEF Shown, Node
<1>8. out' = Printed(said, next')
  <2>1. out = FlattenSeq(a) /\ Printed(said, next') = FlattenSeq(c)
    BY DEF Printed, InOrderInv
  <2> HIDE DEF a, b, c, FlattenSeq
  <2>2. FlattenSeq(c) = Cat(FlattenSeq(a), FlattenSeq(b))
    <3>1. Joins(c, a, b, Line, N)
      BY <1>4, <1>5, <1>6, <1>7 DEF Joins
    <3> QED
      BY <3>1, FlattenJoined, SMT
  <2> QED
    BY <1>3, <2>1, <2>2 DEF Cat
<1>9. ASSUME NEW q \in Node PROVE held'[q] = IF q <= next' THEN << >> ELSE Block(q, said')
  <2>1. held[q] = IF q <= next THEN << >> ELSE Block(q, said)
    BY DEF InOrderInv
  <2>2. held'[q] = IF next < q /\ q <= next' THEN << >> ELSE held[q]
    BY <1>3
  <2>3. next \in Nat /\ next' \in Nat /\ q \in Nat /\ next <= next' /\ said' = said
    BY <1>1, <1>2, Parts DEF Node
  <2> QED
    BY <2>1, <2>2, <2>3
<1>10. out' \in Seq(Line) /\ held' \in [Node -> Seq(Line)]
  <2>1. \E B : Accumulates(B, c, Line, N)
    BY <1>4, Accumulated
  <2>2. FlattenSeq(c) \in Seq(Line)
    BY <2>1 DEF Accumulates
  <2>3. out' \in Seq(Line)
    BY <1>8, <2>2 DEF Printed
  <2>4. held' \in [Node -> Seq(Line)]
    BY <1>3, Parts
  <2> QED
    BY <2>3, <2>4
<1>11. OutputTypeOK'
  BY <1>1, <1>2, <1>10, Parts DEF OutputTypeOK, Node, Line, Counts
<1>12. InOrderInv'
  BY <1>1, <1>2, <1>8, <1>9, <1>11 DEF InOrderInv
<1>13. Reader!Visible(said, done') = Printed(said, next')
  BY <1>2, ReaderSees
<1> QED
  BY <1>1, <1>8, <1>12, <1>13 DEF Reader!Finish

LEMMA InOrderStep ==
  ASSUME InOrderInv, [OutputNext]_outputVars
  PROVE  InOrderInv' /\ [Reader!Next]_<<said, done, out>>
<1>1. ASSUME NEW p \in Node, Start(p) PROVE InOrderInv' /\ UNCHANGED <<said, done, out>>
  <2>1. running' = running \cup {p} /\ p \notin done /\ UNCHANGED <<parallel, said, next, held, done, out>>
    BY <1>1 DEF Start
  <2>2. OutputTypeOK'
    BY <2>1 DEF InOrderInv, OutputTypeOK, Node
  <2> QED
    BY <2>1, <2>2 DEF InOrderInv
<1>2. ASSUME NEW p \in Node, Say(p) PROVE InOrderInv' /\ Reader!Next
  BY <1>2, SayKeeps DEF Reader!Next, Reader!Node, Node
<1>3. ASSUME NEW p \in Node, Finish(p) PROVE InOrderInv' /\ Reader!Next
  BY <1>3, FinishKeeps DEF Reader!Next, Reader!Node, Node
<1>4. CASE UNCHANGED outputVars
  BY <1>4 DEF outputVars, InOrderInv, OutputTypeOK
<1> QED
  BY <1>1, <1>2, <1>3, <1>4 DEF OutputNext, Node

(* Type correctness of a batch's output: next stays a node or the end of   *)
(* the order, so finish never looks past it.                               *)
THEOREM OutputTyping == OutputSpec => []OutputTypeOK
<1>1. OutputInit => InOrderInv
  BY InitInOrder
<1>2. InOrderInv /\ [OutputNext]_outputVars => InOrderInv'
  BY InOrderStep
<1>3. InOrderInv => OutputTypeOK
  BY DEF InOrderInv
<1> QED
  BY <1>1, <1>2, <1>3, PTL DEF OutputSpec

(* What inOrder prints is, at every moment, the batch's order as far as it *)
(* may be seen: a node at the head prints as it speaks, one that is not is *)
(* held, and finish prints what it is the last to hold back.               *)
THEOREM ReadInOrder == OutputSpec => ReadsInOrder
<1>1. OutputInit => InOrderInv /\ Reader!Init
  BY InitInOrder
<1>2. InOrderInv /\ [OutputNext]_outputVars => InOrderInv' /\ [Reader!Next]_<<said, done, out>>
  BY InOrderStep
<1> QED
  BY <1>1, <1>2, PTL DEF OutputSpec, ReadsInOrder, Reader!Spec

(* A batch all of whose nodes are finished holds nothing back: finish looks *)
(* past every node that is done, the last of the order included.            *)
THEOREM AllIsPrinted ==
  OutputSpec => [](done = Node => \A p \in Node : held[p] = << >>)
<1>1. OutputInit => InOrderInv
  BY InitInOrder
<1>2. InOrderInv /\ [OutputNext]_outputVars => InOrderInv'
  BY InOrderStep
<1>3. InOrderInv /\ done = Node => \A p \in Node : held[p] = << >>
  <2> SUFFICES ASSUME InOrderInv, done = Node, NEW p \in Node PROVE held[p] = << >>
    OBVIOUS
  <2>1. next \in 1 .. N + 1 /\ next \notin Node
    BY Parts DEF InOrderInv
  <2>2. p <= next
    BY <2>1 DEF Node
  <2> QED
    BY <2>2 DEF InOrderInv
<1> QED
  BY <1>1, <1>2, <1>3, PTL DEF OutputSpec
=============================================================================
