--------------------------- MODULE WaitReadyProofs ---------------------------
(***************************************************************************)
(* What WaitReady promises, for any window, deadline and dial timeout: it  *)
(* only takes that a reboot comes within the window and lasts longer than  *)
(* two polls are apart.                                                    *)
(***************************************************************************)
EXTENDS WaitReady, TLAPS

(* No clock is ahead, and the wait is nowhere for longer than it may be. *)
Clocks ==
  /\ since <= now /\ shaken <= now /\ began <= now
  /\ steady # None => steady <= now
  /\ ~rebooted => now <= RebootBy
  /\ pc \in Polling => now <= began + Patience
  /\ pc = "report" => steady = None

(* A time at or before the last turn of the loop, which in a window is when *)
(* the node last answered.                                                  *)
Heard ==
  IF pc = "sleep" THEN began
  ELSE IF pc = "first" THEN began - Poll
  ELSE began - Poll - Dial

(***************************************************************************)
(* In a window the node has been up from its start, or it has gone down    *)
(* since it last answered -- and then, if it is up again, so long after    *)
(* that this turn has found it down.                                       *)
(***************************************************************************)
WindowKept ==
  steady # None /\ pc \in {"sleep", "first", "second"} =>
    \/ up /\ since <= steady
    \/ ~up /\ since >= Heard
    \/ up /\ since >= Heard + MinDown

(* What a failed attempt leaves known: the node is away, or the route shut, *)
(* or something changed since.                                              *)
AwayKept ==
  /\ pc = "second" =>
       cancelled \/ ~up \/ prefers \notin open \/ shaken >= began
  /\ pc = "report" =>
       cancelled \/ ~up \/ open = {} \/ shaken >= began - Dial

(* The latest a window starts. *)
LastStart == Timeout + Poll + 2 * Dial

(* Where the deadline has not passed yet. *)
LateKept ==
  /\ steady # None => steady <= LastStart
  /\ pc \in {"sleep", "first", "second"} =>
       Heard <= IF steady = None THEN Timeout ELSE LastStart + Stabilize
  /\ pc = "report" => began <= LastStart + Stabilize + Poll + 2 * Dial

IInv ==
  /\ Clocks /\ WindowKept /\ AwayKept /\ LateKept
  /\ ReadyIsBack /\ FailedIsAway /\ EndsInTime

USE TimesAssumption, WindowAssumption, RebootAssumption

(* The other route is the other one. *)
LEMMA OtherRoute ==
  ASSUME prefers \in Routes
  PROVE  Other \in Routes /\ \A r \in Routes : r = prefers \/ r = Other
  BY DEF Other, Routes

(***************************************************************************)
(* Type correctness: the window's start is a time, and a rebooting node    *)
(* and an interrupted wait are where they can be.                          *)
(***************************************************************************)
THEOREM Typing == Spec => []TypeOK
<1>1. Init => TypeOK
  <2> SUFFICES ASSUME Init PROVE TypeOK
    OBVIOUS
  <2>1. now \in Nat /\ since \in Nat /\ shaken \in Nat /\ began \in Nat
    BY DEF Init
  <2>2. up \in BOOLEAN /\ rebooted \in BOOLEAN /\ cancelled \in BOOLEAN
    BY DEF Init
  <2> QED
    BY <2>1, <2>2 DEF Init, TypeOK, Polling, Over
<1>2. TypeOK /\ [Next]_vars => TypeOK'
  <2> SUFFICES ASSUME TypeOK, [Next]_vars PROVE TypeOK'
    OBVIOUS
  <2> USE DEF TypeOK, GoTo, Polling, Over
  <2>1. CASE GoDown \/ ComeBack \/ Reroute \/ Cancel \/ Tick
    <3>1. CASE GoDown \/ ComeBack
      BY <3>1 DEF GoDown, ComeBack
    <3>2. CASE Reroute
      BY <3>2 DEF Reroute
    <3>3. CASE Cancel
      BY <3>3 DEF Cancel, world
    <3>4. CASE Tick
      BY <3>4 DEF Tick, world
    <3> QED
      BY <2>1, <3>1, <3>2, <3>3, <3>4
  <2>2. CASE Wake \/ Reported
    BY <2>2 DEF Wake, Reported, Again, world
  <2>3. CASE AskFirst
    BY <2>3 DEF AskFirst, Answered, Again, world
  <2>4. CASE AskSecond
    BY <2>4, OtherRoute DEF AskSecond, Answered, WentAway, Again, world
  <2>5. CASE UNCHANGED vars
    BY <2>5 DEF vars, world
  <2> QED
    BY <2>1, <2>2, <2>3, <2>4, <2>5 DEF Next, Wait
<1> QED
  BY <1>1, <1>2, PTL DEF Spec

LEMMA Start == Init => IInv
  BY DEF Init, IInv, Clocks, WindowKept, AwayKept, LateKept, ReadyIsBack,
         FailedIsAway, EndsInTime, Heard, LastStart, Polling, Patience, None

(* The node, its routes, the clock and the signal: the wait stays put. *)
LEMMA WorldStep ==
  ASSUME TypeOK, TypeOK', IInv, GoDown \/ ComeBack \/ Reroute \/ Cancel \/ Tick
  PROVE  IInv'
<1> USE DEF IInv, TypeOK, Clocks, WindowKept, AwayKept, LateKept, ReadyIsBack,
            FailedIsAway, EndsInTime, Heard, LastStart, Polling, Over, None
<1>1. CASE GoDown
  BY <1>1 DEF GoDown, Patience
<1>2. CASE ComeBack
  BY <1>2 DEF ComeBack, Patience
<1>3. CASE Reroute
  BY <1>3 DEF Reroute, Patience
<1>4. CASE Cancel
  BY <1>4 DEF Cancel, Patience, world
<1>5. CASE Tick
  BY <1>5 DEF Tick, Patience, world
<1> QED
  BY <1>1, <1>2, <1>3, <1>4, <1>5

(***************************************************************************)
(* An answer: in a window, the node has been up since its start, for no    *)
(* outage fits between this answer and the one before.                     *)
(***************************************************************************)
LEMMA AnswerStep ==
  ASSUME TypeOK, TypeOK', IInv, pc \in {"first", "second"}, up, Answered, prefers' \in Routes,
         UNCHANGED <<now, world, cancelled>>
  PROVE  IInv'
<1>1. /\ now \in Nat /\ since \in Nat /\ since <= now
      /\ Heard \in Int /\ Heard <= now /\ now <= Heard + Poll + 2 * Dial
  BY DEF Heard, Patience, IInv, TypeOK, Clocks, Polling
<1>2. steady # None => since <= steady
  BY <1>1 DEF WindowKept, IInv
<1>3. PICK s \in Nat : steady' = s /\ since <= s /\ s <= now /\ s <= LastStart
  BY <1>1, <1>2 DEF Answered, LateKept, LastStart, IInv, TypeOK, Clocks, None
<1>4. now' = now /\ since' = since /\ up' /\ rebooted' = rebooted
      /\ LastStart \in Nat /\ s # None
  BY DEF world, LastStart, None
<1>5. CASE now - s >= Stabilize
  <2>1. pc' = "ready" /\ began' = now
    BY <1>3, <1>5 DEF Answered, GoTo
  <2>2. now > RebootBy /\ now >= since + Stabilize
    BY <1>1, <1>3, <1>5
  <2>3. rebooted
    BY <1>1, <2>2 DEF IInv, Clocks
  <2>4. ReadyIsBack'
    BY <1>4, <2>1, <2>2, <2>3 DEF ReadyIsBack
  <2>5. Clocks'
    BY <1>3, <1>4, <2>1, <2>3 DEF Clocks, Polling, IInv, TypeOK, world
  <2> QED
    BY <1>3, <1>4, <2>1, <2>4, <2>5 DEF IInv, WindowKept, AwayKept, LateKept,
       FailedIsAway, EndsInTime
<1>6. CASE ~(now - s >= Stabilize)
  <2>1. now < s + Stabilize /\ now <= LastStart + Stabilize
    BY <1>1, <1>3, <1>4, <1>6
  <2>2. ~(now > Limit(s))
    BY <1>1, <1>3, <1>4, <2>1 DEF Limit
  <2>3. pc' = "sleep" /\ began' = now
    BY <1>3, <2>2, <1>6 DEF Answered, Again, GoTo
  <2>4. Clocks'
    BY <1>1, <1>3, <1>4, <2>3 DEF Clocks, Polling, Patience, IInv, TypeOK, world
  <2>5. WindowKept' /\ LateKept'
    BY <1>1, <1>3, <1>4, <2>1, <2>3 DEF WindowKept, LateKept, Heard, LastStart
  <2> QED
    BY <1>4, <2>3, <2>4, <2>5 DEF IInv, AwayKept, ReadyIsBack, FailedIsAway,
       EndsInTime
<1> QED
  BY <1>5, <1>6

(* No answer: the wait fails only past the deadline. *)
LEMMA AwayStep ==
  ASSUME TypeOK, TypeOK', IInv, pc \in {"second", "report"}, Again(None), steady' = None,
         cancelled \/ ~up \/ open = {} \/ shaken >= began - Dial,
         UNCHANGED <<now, world, prefers, cancelled>>
  PROVE  IInv'
<1> USE DEF IInv, TypeOK, Clocks, Polling, Over, None, world, Again, Limit, GoTo,
            WindowKept, AwayKept, LateKept, ReadyIsBack, EndsInTime, Heard,
            LastStart, Patience
<1>1. began' = now /\ ((pc' = "sleep" /\ now <= Timeout) \/ (pc' = "failed" /\ now > Timeout))
  OBVIOUS
<1>2. FailedIsAway'
  BY <1>1 DEF FailedIsAway
<1> QED
  BY <1>1, <1>2

LEMMA WaitStep ==
  ASSUME TypeOK, TypeOK', IInv, Wait
  PROVE  IInv'
<1>1. CASE Wake
  <2>1. CASE cancelled /\ GoTo("interrupted")
    BY <1>1, <2>1 DEF Wake, GoTo, IInv, TypeOK, Clocks, WindowKept, AwayKept,
       LateKept, ReadyIsBack, FailedIsAway, EndsInTime, Polling, world
  <2>2. CASE now = began + Poll /\ GoTo("first")
    <3>1. pc = "sleep" /\ pc' = "first" /\ began' = now /\ Heard' = Heard
      BY <1>1, <2>2 DEF Wake, GoTo, Heard, IInv, TypeOK
    <3>2. WindowKept' /\ LateKept'
      BY <1>1, <3>1 DEF Wake, WindowKept, LateKept, IInv, LastStart, world
    <3> QED
      BY <1>1, <3>1, <3>2 DEF Wake, IInv, TypeOK, Clocks, AwayKept, ReadyIsBack,
         FailedIsAway, EndsInTime, Polling, Patience, world
  <2> QED
    BY <1>1, <2>1, <2>2 DEF Wake
<1>2. CASE AskFirst
  <2>1. CASE Answers(prefers)
    BY <1>2, <2>1, AnswerStep DEF AskFirst, Answers, IInv, TypeOK
  <2>2. CASE ~Answers(prefers)
    <3>1. pc = "first" /\ pc' = "second" /\ began' = now /\ UNCHANGED steady
      BY <1>2, <2>2 DEF AskFirst, GoTo
    <3>2. PICK h \in Int : Heard' = h /\ h <= Heard /\ Heard \in Int
      BY <1>2, <3>1 DEF AskFirst, Heard, Patience, Polling, IInv, TypeOK, Clocks
    <3>3. WindowKept' /\ LateKept'
      BY <1>2, <3>1, <3>2
         DEF AskFirst, WindowKept, LateKept, LastStart, IInv, TypeOK, world
    <3>4. AwayKept'
      BY <1>2, <2>2, <3>1 DEF AskFirst, Answers, AwayKept, world
    <3> QED
      BY <1>2, <3>1, <3>3, <3>4 DEF AskFirst, IInv, TypeOK, Clocks, ReadyIsBack,
         FailedIsAway, EndsInTime, Polling, Patience, world
  <2> QED
    BY <2>1, <2>2
<1>3. CASE AskSecond
  <2>1. CASE Answers(Other)
    BY <1>3, <2>1, AnswerStep, OtherRoute DEF AskSecond, Answers, IInv, TypeOK
  <2>2. CASE ~Answers(Other)
    <3>1. cancelled \/ ~up \/ open = {} \/ shaken >= began
      BY <1>3, <2>2, OtherRoute DEF AskSecond, Answers, IInv, TypeOK, AwayKept
    <3>2. CASE GoTo("report")
      BY <1>3, <2>2, <3>1, <3>2 DEF AskSecond, WentAway, GoTo, IInv, TypeOK, Clocks,
         WindowKept, AwayKept, LateKept, ReadyIsBack, FailedIsAway, EndsInTime,
         Heard, LastStart, Polling, Over, None, Patience, world
    <3>3. CASE Again(None)
      <4>1. shaken >= began => shaken >= began - Dial
        BY DEF IInv, TypeOK
      <4> QED
        BY <1>3, <2>2, <3>1, <3>3, <4>1, AwayStep DEF AskSecond, WentAway
    <3> QED
      BY <1>3, <2>2, <3>2, <3>3 DEF AskSecond, WentAway
  <2> QED
    BY <2>1, <2>2
<1>4. CASE Reported
  BY <1>4, AwayStep DEF Reported, IInv, Clocks, AwayKept
<1> QED
  BY <1>1, <1>2, <1>3, <1>4 DEF Wait

(* The invariant: the steps of the world, and those of the wait. *)
LEMMA Invariant == Spec => []IInv
<1>1. TypeOK /\ TypeOK' /\ IInv /\ [Next]_vars => IInv'
  <2>1. TypeOK /\ TypeOK' /\ IInv /\ Next => IInv'
    BY WorldStep, WaitStep DEF Next
  <2>2. IInv /\ UNCHANGED vars => IInv'
    BY DEF vars, world, IInv, Clocks, WindowKept, AwayKept, LateKept,
       ReadyIsBack, FailedIsAway, EndsInTime, Heard, Patience
  <2> QED
    BY <2>1, <2>2
<1> QED
  BY Start, <1>1, Typing, PTL DEF Spec

(***************************************************************************)
(* A node called ready has rebooted, if its config made it, and been up    *)
(* for the window since: what a roll-out relies on to touch the next.      *)
(***************************************************************************)
THEOREM ReadyMeansBack == Spec => []ReadyIsBack
<1>1. IInv => ReadyIsBack
  BY DEF IInv
<1> QED
  BY <1>1, Invariant, PTL

(* Only a node that was away fails, and only past the deadline.             *)
THEOREM OnlyTheAwayFail == Spec => []FailedIsAway
<1>1. IInv => FailedIsAway
  BY DEF IInv
<1> QED
  BY <1>1, Invariant, PTL

(* The wait ends by a time fixed when it starts.                            *)
THEOREM WaitIsBounded == Spec => []EndsInTime
<1>1. IInv => EndsInTime
  BY DEF IInv
<1> QED
  BY <1>1, Invariant, PTL
=============================================================================
