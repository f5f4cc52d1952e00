------------------------------ MODULE Interrupt ------------------------------
(***************************************************************************)
(* How a signal stops talman (internal/interrupt/interrupt.go): the first  *)
(* cancels the run's context, a second kills the children, sweeps the      *)
(* temporary files registered for it and exits at once.                    *)
(*                                                                         *)
(* The rest of the program is a set of workers, the goroutines of a pass.  *)
(* Each does a few jobs that stage a secret in a temporary file, as        *)
(* sopsx.EncryptTo, render.Open and render.WriteAtomic do, and may run a   *)
(* child on it.                                                            *)
(***************************************************************************)
EXTENDS Naturals

CONSTANTS Workers, \* goroutines at work
          MaxJobs  \* bound: how many jobs each has

ASSUME JobsAssumption == MaxJobs \in Nat \ {0}

Signals == {"INT", "TERM", "PIPE"}  \* of the five the handler is notified of

VARIABLES
  at,        \* where each worker is in its job
  jobs,      \* how many jobs it has left
  temp,      \* its temporary file: "none", "empty", or holding a "secret"
  listed,    \* the workers whose file is in cleanups
  alive,     \* the workers whose child process is alive
  handler,   \* where the signal handler is
  first,     \* interruptedBy: the first signal, or "none"
  cancelled, \* Context is cancelled
  killing,   \* a forced exit has begun to kill
  exit,      \* "no" until talman exits: then its own code, or a signal's
  timedOut,  \* history: killRunning gave up on a start in flight
  late       \* history: workers whose file was listed after the sweep

jobVars == <<at, jobs, temp, listed>>
vars == <<jobVars, alive, handler, first, cancelled, killing, exit, timedOut,
          late>>

Places == {"idle", "made", "held", "written", "starting", "forked", "running",
           "finished", "removed"}

TypeOK ==
  /\ at \in [Workers -> Places]
  /\ jobs \in [Workers -> 0 .. MaxJobs]
  /\ temp \in [Workers -> {"none", "empty", "secret"}]
  /\ listed \subseteq Workers
  /\ alive \subseteq Workers
  /\ handler \in {"waiting", "named", "armed", "draining", "drained", "swept"}
  /\ first \in Signals \cup {"none"}
  /\ cancelled \in BOOLEAN /\ killing \in BOOLEAN /\ timedOut \in BOOLEAN
  /\ exit \in Signals \cup {"no", "own"}
  /\ late \subseteq Workers

Init ==
  /\ at = [w \in Workers |-> "idle"]
  /\ jobs = [w \in Workers |-> MaxJobs]
  /\ temp = [w \in Workers |-> "none"]
  /\ listed = {} /\ alive = {} /\ late = {}
  /\ handler = "waiting" /\ first = "none"
  /\ cancelled = FALSE /\ killing = FALSE /\ timedOut = FALSE
  /\ exit = "no"

-----------------------------------------------------------------------------
(* A worker's job.  Each step is one a signal may come between.            *)

Move(w, from, to) == at[w] = from /\ at' = [at EXCEPT ![w] = to]

(* os.CreateTemp or os.MkdirTemp: on disk, and not registered yet. *)
Create(w) ==
  /\ jobs[w] > 0
  /\ Move(w, "idle", "made")
  /\ temp' = [temp EXCEPT ![w] = "empty"]
  /\ jobs' = [jobs EXCEPT ![w] = @ - 1]
  /\ UNCHANGED <<listed, alive, late>>

(* Cleanup: on the list a forced exit sweeps. *)
Register(w) ==
  /\ Move(w, "made", "held")
  /\ listed' = listed \cup {w}
  /\ late' = IF handler = "swept" THEN late \cup {w} ELSE late
  /\ UNCHANGED <<jobs, temp, alive>>

(***************************************************************************)
(* The secret goes in.  A file already swept takes the write with it, and  *)
(* a directory already swept refuses it.                                   *)
(***************************************************************************)
Write(w) ==
  /\ Move(w, "held", "written")
  /\ temp' = [temp EXCEPT ![w] = IF @ = "empty" THEN "secret" ELSE @]
  /\ UNCHANGED <<jobs, listed, alive, late>>

(* Run, under its lock: refused once a forced exit is killing. *)
RunChild(w) ==
  /\ IF killing THEN Move(w, "written", "finished")
                ELSE Move(w, "written", "starting")
  /\ UNCHANGED <<jobs, temp, listed, alive, late>>

(* Start, outside the lock: nothing starts under a cancelled context. *)
Fork(w) ==
  /\ \/ Move(w, "starting", "finished") /\ UNCHANGED alive
     \/ ~cancelled /\ Move(w, "starting", "forked") /\ alive' = alive \cup {w}
  /\ UNCHANGED <<jobs, temp, listed, late>>

(* A mutation of Adopt: a start that raced the kill is not killed. *)
AdoptUnkilled(w) ==
  /\ Move(w, "forked", "running")
  /\ UNCHANGED <<jobs, temp, listed, late, alive>>

(* Back under the lock: a start that raced a forced exit goes the same way. *)
Adopt(w) ==
  /\ Move(w, "forked", "running")
  /\ alive' = IF killing THEN alive \ {w} ELSE alive
  /\ UNCHANGED <<jobs, temp, listed, late>>

(* Wait returns once the child is gone. *)
Reap(w) ==
  /\ w \notin alive
  /\ Move(w, "running", "finished")
  /\ UNCHANGED <<jobs, temp, listed, alive, late>>

(* A mutation of CleanUp: the file leaves the list before it is removed. *)
CleanUpUnlistedFirst(w) ==
  \/ /\ at[w] \in {"written", "finished"}
     /\ at' = [at EXCEPT ![w] = "removed"]
     /\ listed' = listed \ {w}
     /\ UNCHANGED <<jobs, temp, alive, late>>
  \/ /\ Move(w, "removed", "idle")
     /\ temp' = [temp EXCEPT ![w] = "none"]
     /\ UNCHANGED <<jobs, listed, alive, late>>

(* The ordinary cleanup: remove (or rename into place), then unregister. *)
CleanUp(w) ==
  \/ /\ at[w] \in {"written", "finished"}
     /\ at' = [at EXCEPT ![w] = "removed"]
     /\ temp' = [temp EXCEPT ![w] = "none"]
     /\ UNCHANGED <<jobs, listed, alive, late>>
  \/ /\ Move(w, "removed", "idle")
     /\ listed' = listed \ {w}
     /\ UNCHANGED <<jobs, temp, alive, late>>

Work(w) ==
  /\ exit = "no"
  /\ \/ Create(w) \/ Register(w) \/ Write(w) \/ RunChild(w) \/ Fork(w)
     \/ Adopt(w) \/ Reap(w) \/ CleanUp(w)
  /\ UNCHANGED <<handler, first, cancelled, killing, exit, timedOut>>

(***************************************************************************)
(* A child ends by itself, or of the SIGTERM the cancelled context sends   *)
(* it, or of the kill that follows after waitDelay.  It outlives talman    *)
(* well enough.                                                            *)
(***************************************************************************)
ChildEnds(w) ==
  /\ w \in alive
  /\ alive' = alive \ {w}
  /\ UNCHANGED <<jobVars, handler, first, cancelled, killing, exit, timedOut,
                 late>>

-----------------------------------------------------------------------------
(* The handler.                                                            *)

(* A mutation of FirstSignal: it is not noted. *)
FirstSignalUnnamed(sig) ==
  /\ exit = "no" /\ handler = "waiting"
  /\ handler' = "named"
  /\ UNCHANGED <<jobVars, alive, first, cancelled, killing, exit, timedOut, late>>

(* The first signal is noted before anything can see it cancelled. *)
FirstSignal(sig) ==
  /\ exit = "no" /\ handler = "waiting"
  /\ first' = sig
  /\ handler' = "named"
  /\ UNCHANGED <<jobVars, alive, cancelled, killing, exit, timedOut, late>>

(* A mutation of Cancel: the signal is noted, and nobody is told. *)
CancelNobody ==
  /\ exit = "no" /\ handler = "named"
  /\ handler' = "armed"
  /\ UNCHANGED <<jobVars, alive, first, cancelled, killing, exit, timedOut, late>>

(* The run's context is cancelled, and a second signal listened for. *)
Cancel ==
  /\ exit = "no" /\ handler = "named"
  /\ cancelled' = TRUE
  /\ handler' = "armed"
  /\ UNCHANGED <<jobVars, alive, first, killing, exit, timedOut, late>>

(***************************************************************************)
(* A second signal forces the exit: killRunning kills every child that is  *)
(* on running.  Output that has gone away is not a second ask to stop.     *)
(***************************************************************************)
SecondSignal(sig) ==
  /\ exit = "no" /\ handler = "armed"
  /\ sig # "PIPE"
  /\ killing' = TRUE
  /\ alive' = alive \ {w \in Workers : at[w] = "running"}
  /\ handler' = "draining"
  /\ UNCHANGED <<jobVars, first, cancelled, exit, timedOut, late>>

(* ... and waits for the starts in flight, startDrain at most. *)
Drain ==
  /\ exit = "no" /\ handler = "draining"
  /\ timedOut' = (\E w \in Workers : at[w] \in {"starting", "forked"})
  /\ handler' = "drained"
  /\ UNCHANGED <<jobVars, alive, first, cancelled, killing, exit, late>>

(* RunCleanups, under the lock Cleanup takes. *)
Sweep ==
  /\ exit = "no" /\ handler = "drained"
  /\ temp' = [w \in Workers |-> IF w \in listed THEN "none" ELSE temp[w]]
  /\ listed' = {}
  /\ handler' = "swept"
  /\ UNCHANGED <<at, jobs, alive, first, cancelled, killing, exit, timedOut, late>>

ForcedExit ==
  /\ exit = "no" /\ handler = "swept"
  /\ exit' = first
  /\ UNCHANGED <<jobVars, alive, handler, first, cancelled, killing, timedOut,
                 late>>

(* A mutation of Return: the signal is not asked for. *)
ReturnUnasked ==
  /\ exit = "no"
  /\ \A w \in Workers : at[w] = "idle" /\ jobs[w] = 0
  /\ exit' = "own"
  /\ UNCHANGED <<jobVars, alive, handler, first, cancelled, killing, timedOut,
                 late>>

(***************************************************************************)
(* The command returns once its workers have, and run() picks its code:    *)
(* the signal's if the context is cancelled by then, else the command's    *)
(* own, which no signal after that changes.                                *)
(***************************************************************************)
Return ==
  /\ exit = "no"
  /\ \A w \in Workers : at[w] = "idle" /\ jobs[w] = 0
  /\ exit' = IF cancelled THEN first ELSE "own"
  /\ UNCHANGED <<jobVars, alive, handler, first, cancelled, killing, timedOut,
                 late>>

-----------------------------------------------------------------------------
Handler == Cancel \/ Drain \/ Sweep \/ ForcedExit

Next ==
  \/ \E w \in Workers : Work(w) \/ ChildEnds(w)
  \/ \E sig \in Signals : FirstSignal(sig) \/ SecondSignal(sig)
  \/ Handler
  \/ Return

Spec == Init /\ [][Next]_vars

(***************************************************************************)
(* Workers, the handler and the return are run by the scheduler.  A child  *)
(* ends for sure only once it is signalled: waitDelay after the context is *)
(* cancelled it is killed.  Nobody need signal at all.                     *)
(***************************************************************************)
Fairness ==
  /\ \A w \in Workers : WF_vars(Work(w)) /\ WF_vars(cancelled /\ ChildEnds(w))
  /\ WF_vars(Handler)
  /\ WF_vars(Return)

FairSpec == Spec /\ Fairness

-----------------------------------------------------------------------------
(* What an interrupted run promises.                                       *)

(* A child never outlives talman, by an ordinary exit or a forced one, but  *)
(* for a start still in flight when killRunning has waited startDrain.      *)
NoOrphans == exit # "no" /\ ~timedOut => alive = {}

(* A forced exit leaves no secret on disk that was registered in time, and  *)
(* an ordinary one none at all.                                             *)
SweptClean ==
  exit # "no" =>
    \A w \in Workers : temp[w] = "secret" => w \in late

(* Once its context is cancelled a run can exit with its first signal's     *)
(* code and no other, whether it returns or is forced: whoever finds it     *)
(* cancelled finds the signal noted, and no second one renames it.  A run   *)
(* that returns between the two, noted and not yet cancelled, exits with    *)
(* its own, as run() asks for Interrupted and not for the signal.           *)
ExitCodeIsTheFirst ==
  [][ /\ first # "none" => first' = first
      /\ cancelled => exit' = exit \/ (exit' = first /\ first \in Signals) ]_vars

(* A signal ends the run.                                                   *)
StopsInTheEnd == (first # "none") ~> (exit # "no")

(* What CreateTemp and WriteAtomic say of a forced exit: it leaves no       *)
(* secret behind.                                                           *)
NoSecretLeft == exit # "no" => \A w \in Workers : temp[w] # "secret"
=============================================================================
