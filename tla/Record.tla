------------------------------- MODULE Record -------------------------------
(***************************************************************************)
(* A run's metrics: what it planned, how each node ended, what it says of  *)
(* the whole, and the two places that goes to, a file replaced whole and   *)
(* an endpoint that replaces only the metrics a push holds.                *)
(***************************************************************************)
EXTENDS Naturals, Sequences, FiniteSetsExt

CONSTANTS
  Nodes,
  Groups,     \* what tells runs apart: their commands and labels
  MaxRuns     \* how many runs there are

VARIABLES
  rec,        \* the run's record
  file,       \* the run the metrics file was last written by, and the last success it carries
  endpoint,   \* the last success each group holds at the push endpoint
  reports     \* every run so far: its group, whether it succeeded, and where that arrived

Answers == {"unknown", "yes", "no"}
NoGroup == <<"none", FALSE>>

Recorded == [group : Groups \cup {NoGroup}, planned : SUBSET Nodes, changed : [Nodes -> Answers],
             ended : [Nodes -> {"no", "ok", "failed"}], run : Answers, success : BOOLEAN]

RecordTypeOK ==
  /\ rec \in Recorded
  /\ file \in [group : Groups \cup {NoGroup}, last : 0 .. MaxRuns]
  /\ endpoint \in [Groups -> 0 .. MaxRuns]
  /\ reports \in Seq([group : Groups, ok : BOOLEAN, written : BOOLEAN, pushed : BOOLEAN])

NewRun(g) ==
  [group |-> g, planned |-> {}, changed |-> [n \in Nodes |-> "unknown"],
   ended |-> [n \in Nodes |-> "no"], run |-> "unknown", success |-> FALSE]

(* One run came before, which worked or not, and reported or not. *)
RecordInit ==
  /\ rec = NewRun(NoGroup)
  /\ \E g \in Groups, ok, arrived \in BOOLEAN :
       /\ reports = <<[group |-> g, ok |-> ok, written |-> arrived, pushed |-> arrived]>>
       /\ file = [group |-> IF arrived THEN g ELSE NoGroup, last |-> IF arrived /\ ok THEN 1 ELSE 0]
       /\ endpoint = [h \in Groups |-> IF arrived /\ ok /\ h = g THEN 1 ELSE 0]

Plan(S) == [rec EXCEPT !.planned = S]
NodeEnds(n, changed, how) == [rec EXCEPT !.changed[n] = changed, !.ended[n] = how]
SetChanged(b) == [rec EXCEPT !.run = b]

(* How a planned node ended: the run stopped before it, it failed, or what *)
(* it said of changing.                                                    *)
Result(n) ==
  CASE rec.ended[n] = "no" -> "not_reached"
    [] rec.ended[n] = "failed" -> "failed"
    [] rec.ended[n] = "ok" /\ rec.changed[n] = "unknown" -> "done"
    [] rec.ended[n] = "ok" /\ rec.changed[n] = "yes" -> "changed"
    [] rec.ended[n] = "ok" /\ rec.changed[n] = "no" -> "unchanged"

Results == {Result(n) : n \in rec.planned}

(* A mutation of RunChanged: nothing said to have changed is taken for nothing changed. *)
RunChangedKnown ==
  IF rec.run # "unknown" THEN rec.run ELSE IF "changed" \in Results THEN "yes" ELSE "no"

(* What the command said, or what its nodes did, unless one cannot tell.   *)
RunChanged ==
  CASE rec.run # "unknown" -> rec.run
    [] rec.run = "unknown" /\ "changed" \in Results -> "yes"
    [] rec.run = "unknown" /\ Results = {"unchanged"} -> "no"
    [] OTHER -> "unknown"

(* This run's number stands for the time it ended. *)
Now == Len(reports) + 1

(* A failed run carries forward what the file said of the same group.      *)
Written ==
  [group |-> rec.group,
   last |-> CASE rec.success -> Now
              [] ~rec.success /\ file.group = rec.group -> file.last
              [] OTHER -> 0]

(* A failed run sends no last success, so the one there stays. *)
Pushed == IF rec.success THEN [endpoint EXCEPT ![rec.group] = Now] ELSE endpoint

Ended(ok, written, pushed) ==
  reports' = Append(reports, [group |-> rec.group, ok |-> ok, written |-> written, pushed |-> pushed])

(* The file may not be written and the endpoint not be reached: neither    *)
(* changes how the run ended.                                              *)
Report ==
  \E written, pushed \in BOOLEAN :
    /\ file' = IF written THEN Written ELSE file
    /\ endpoint' = IF pushed THEN Pushed ELSE endpoint
    /\ Ended(rec.success, written, pushed)

(* A run that is killed reports nothing. *)
NoReport == Ended(FALSE, FALSE, FALSE) /\ UNCHANGED <<file, endpoint>>

(* When a run of g last succeeded, of the runs in S.                       *)
LastOf(g, S) == Max({0} \cup {i \in S : reports[i].group = g /\ reports[i].ok})

(* The file's last success is that of its group's unbroken string of runs, *)
(* the endpoint's that of all the runs that arrived.                       *)
LastSuccessTrue ==
  LET arrived == {i \in DOMAIN reports : reports[i].written}
      string == {i \in arrived : \A j \in arrived : j >= i => reports[j].group = file.group}
  IN /\ file.last = LastOf(file.group, string)
     /\ \A g \in Groups : endpoint[g] = LastOf(g, {i \in DOMAIN reports : reports[i].pushed})
=============================================================================
