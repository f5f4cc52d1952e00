------------------------------- MODULE WaitReady -------------------------------
(***************************************************************************)
(* Waiting for a node to come back (Runner.WaitReady and askNode in        *)
(* internal/talosctl/state.go), which is all that lets apply go on to the  *)
(* next control plane.  The node has just been sent a config and reboots   *)
(* when it likes; it is polled, each poll by two routes, and is back once  *)
(* it has answered for the stabilization window.                           *)
(*                                                                         *)
(* Time is counted in ticks from the start of the wait.  The clock stops   *)
(* for steps that are due.                                                 *)
(***************************************************************************)
EXTENDS Integers

CONSTANTS
  Poll,       \* the pause between two polls (5 s)
  Stabilize,  \* --stabilize
  Timeout,    \* --timeout
  Dial,       \* the longest one attempt to reach a node takes to fail
  RebootBy,   \* a node that reboots on a config has gone down by then
  MinDown     \* the shortest time a node is away for

ASSUME TimesAssumption ==
  /\ Poll \in Nat \ {0} /\ Stabilize \in Nat /\ Timeout \in Nat /\ Dial \in Nat
  /\ RebootBy \in Nat /\ MinDown \in Nat

(* The window outlasts a reboot that is still to come. *)
ASSUME WindowAssumption == RebootBy < Stabilize

(* No reboot fits between two polls that both answer. *)
ASSUME RebootAssumption == MinDown > Poll + 2 * Dial

Routes == {"direct", "proxied"}
None == -1

VARIABLES
  now,
  up,         \* the node answers those who reach it
  since,      \* when it last came up or went down
  rebooted,   \* it has gone down since it got its config, or never will
  open,       \* the routes by which it can be reached
  shaken,     \* history: when the node or its routes last changed
  prefers,    \* routes[node]: the route that answered last
  pc,         \* where the wait is
  began,      \* when it got there
  steady,     \* steadySince, or None
  cancelled   \* the run has been interrupted

world == <<up, since, rebooted, open, shaken>>
vars == <<now, world, prefers, pc, began, steady, cancelled>>

Polling == {"sleep", "first", "second", "report"}
Over == {"ready", "failed", "interrupted"}

TypeOK ==
  /\ now \in Nat /\ since \in Nat /\ shaken \in Nat /\ began \in Nat
  /\ up \in BOOLEAN /\ rebooted \in BOOLEAN /\ cancelled \in BOOLEAN
  /\ open \subseteq Routes /\ prefers \in Routes
  /\ pc \in Polling \cup Over
  /\ steady \in Nat \cup {None}

Init ==
  /\ now = 0 /\ since = 0 /\ shaken = 0 /\ began = 0
  /\ up \in BOOLEAN /\ rebooted \in BOOLEAN /\ (~up => rebooted)
  /\ open \in SUBSET Routes /\ prefers \in Routes
  /\ pc = "first" /\ steady = None
  /\ cancelled = FALSE

-----------------------------------------------------------------------------
(* The node, its routes and the clock.                                     *)

GoDown ==
  /\ pc \in Polling /\ up
  /\ up' = FALSE /\ rebooted' = TRUE
  /\ since' = now /\ shaken' = now
  /\ UNCHANGED <<now, open, prefers, pc, began, steady, cancelled>>

ComeBack ==
  /\ pc \in Polling /\ ~up
  /\ now >= since + MinDown
  /\ up' = TRUE
  /\ since' = now /\ shaken' = now
  /\ UNCHANGED <<now, rebooted, open, prefers, pc, began, steady, cancelled>>

(* A firewall, or the control planes that would proxy, come and go. *)
Reroute ==
  /\ pc \in Polling
  /\ open' \in SUBSET Routes
  /\ shaken' = now
  /\ UNCHANGED <<now, up, since, rebooted, prefers, pc, began, steady, cancelled>>

Cancel ==
  /\ pc \in Polling /\ ~cancelled
  /\ cancelled' = TRUE
  /\ UNCHANGED <<now, world, prefers, pc, began, steady>>

(* How long the wait may stay where it is. *)
Patience == IF pc = "sleep" THEN Poll ELSE Dial

Tick ==
  /\ pc \in Polling
  /\ now < began + Patience
  /\ rebooted \/ now < RebootBy
  /\ now' = now + 1
  /\ UNCHANGED <<world, prefers, pc, began, steady, cancelled>>

-----------------------------------------------------------------------------
(* A turn of the loop.                                                     *)

GoTo(p) == pc' = p /\ began' = now

(* The end of Sleep: its time is up, or the run is interrupted. *)
Wake ==
  /\ pc = "sleep"
  /\ \/ now = began + Poll /\ GoTo("first")
     \/ cancelled /\ GoTo("interrupted")
  /\ UNCHANGED <<now, world, prefers, steady, cancelled>>

(* What an attempt finds; a command of an interrupted run fails. *)
Answers(r) == up /\ r \in open /\ ~cancelled

(* A mutation of Limit: any window moves the deadline, not just one it cuts. *)
LimitFromNow(s) == now + Stabilize

(* The deadline, or the end of a window that it would cut short. *)
Limit(s) ==
  IF s # None /\ s + Stabilize > Timeout THEN s + Stabilize ELSE Timeout

(* The end of a turn: too late, or another poll. *)
Again(s) == IF now > Limit(s) THEN GoTo("failed") ELSE GoTo("sleep")

(* A mutation of Answered: one answer is enough. *)
AnsweredOnce == steady' = now /\ GoTo("ready")

(* A mutation of Answered: the window ends with the first answer. *)
AnsweredAtTheEnd ==
  /\ steady' = IF steady = None THEN now - Stabilize ELSE steady
  /\ IF now - steady' >= Stabilize THEN GoTo("ready") ELSE Again(steady')

(* The node answered: it is ready once it has for the whole window. *)
Answered ==
  /\ steady' = IF steady = None THEN now ELSE steady
  /\ IF now - steady' >= Stabilize THEN GoTo("ready") ELSE Again(steady')

(* The route that answered last, and if it fails the other one at once. *)
AskFirst ==
  /\ pc = "first"
  /\ IF Answers(prefers) THEN Answered ELSE GoTo("second") /\ UNCHANGED steady
  /\ UNCHANGED <<now, world, prefers, cancelled>>

(* A mutation of WentAway: the window goes on where it was. *)
WentAwayKeeps ==
  /\ UNCHANGED steady
  /\ GoTo("report") \/ Again(steady)

(***************************************************************************)
(* Neither answered: the window starts anew.  Every so often (30 s) the    *)
(* maintenance service is asked too, for the sake of the report.           *)
(***************************************************************************)
WentAway ==
  /\ steady' = None
  /\ GoTo("report") \/ Again(None)

Other == CHOOSE r \in Routes : r # prefers

(* A mutation of AskSecond: the route that failed is tried once more. *)
AskSecondSame ==
  /\ pc = "second"
  /\ IF Answers(prefers) THEN Answered ELSE WentAway
  /\ UNCHANGED <<now, world, prefers, cancelled>>

AskSecond ==
  /\ pc = "second"
  /\ \/ Answers(Other) /\ prefers' = Other /\ Answered
     \/ ~Answers(Other) /\ UNCHANGED prefers /\ WentAway
  /\ UNCHANGED <<now, world, cancelled>>

(* awayBecause has its answer, whatever it is. *)
Reported ==
  /\ pc = "report"
  /\ Again(steady)
  /\ UNCHANGED <<now, world, prefers, steady, cancelled>>

Wait == Wake \/ AskFirst \/ AskSecond \/ Reported

Next == GoDown \/ ComeBack \/ Reroute \/ Cancel \/ Tick \/ Wait

Spec == Init /\ [][Next]_vars

-----------------------------------------------------------------------------
(* What the wait promises.                                                 *)

(* "Continuously, not once": a node called ready has been through the       *)
(* reboot its config asked for, and has been up for the window since.       *)
ReadyIsBack ==
  pc = "ready" => rebooted /\ up /\ now >= since + Stabilize

(* Only a node that was away fails, and only after the deadline: one that   *)
(* answers keeps its whole window, and one whose route changed is still     *)
(* asked by the other.                                                      *)
FailedIsAway ==
  pc = "failed" =>
    /\ now > Timeout
    /\ cancelled \/ ~up \/ open = {} \/ now <= shaken + 2 * Dial

(* The wait is over by then: the deadline moves for one window at most,     *)
(* however often the node comes and goes.                                   *)
EndsInTime == now <= Timeout + Stabilize + 2 * Poll + 5 * Dial
=============================================================================
