----------------------------- MODULE BenchSuite -----------------------------
(***************************************************************************)
(* The two programs that run scenarios in a row and draw a conclusion:     *)
(* bench/throughput_sweep.py (the highest rate that is sustained) and      *)
(* bench/chaos_suite.py (recovery, loss, and backoff against none).  Each  *)
(* scenario is a process of its own (ScenarioRun); what it leaves is a     *)
(* report file under its run id, and so does what an earlier suite ran     *)
(* under that id.                                                          *)
(***************************************************************************)
EXTENDS Integers, FiniteSets, Sequences, SequencesExt

CONSTANTS
  Rates,      (* --rates, in tenths of events per second                    *)
  StopAfter,  (* --stop-after-failures                                      *)
  Scenarios,  (* --scenarios                                                *)
  Repeats,    (* --repeats                                                  *)
  MaxCount    (* bound: events lost or quarantined in a run                 *)

ASSUME SuiteAssumption ==
  /\ Rates \in Seq(Nat) /\ Rates # <<>>
  /\ \A k, n \in DOMAIN Rates : k # n => Rates[k] \div 10 # Rates[n] \div 10
  /\ Scenarios \in Seq(STRING)
  /\ \A k, n \in DOMAIN Scenarios : k # n => Scenarios[k] # Scenarios[n]
  /\ ToSet(Scenarios) \cap {"with_backoff", "no_backoff"} = {}
  /\ StopAfter \in Nat \ {0} /\ Repeats \in Nat \ {0} /\ MaxCount \in Nat

VARIABLES
  suite,   (* the program: "sweep" or "chaos"                               *)
  pc,      (* run, read, summarise, ended or crashed                        *)
  disk,    (* report files: run id to what the report says                  *)
  scratch, (* history: there was none when the suite began                  *)
  wrote,   (* history: the last scenario has written its report             *)
  results, (* steps, or the extracts of all runs, in the order they ran     *)
  failures,(* consecutive_failures                                          *)
  summary  (* what the suite reports                                        *)

vars == <<suite, pc, disk, scratch, wrote, results, failures, summary>>

None == -1

(* What a step has to meet to be sustained; missing more than one of these *)
(* makes no difference.                                                    *)
Criteria == {"kept_pace", "attained", "lag_flat", "drained", "no_loss"}
SweepReports == [met : {Criteria} \cup {Criteria \ {c} : c \in Criteria}]

Arms == <<"with_backoff", "no_backoff">>

(* What is made of a report.  Of a scenario: whether it recovered (a       *)
(* report with the error of the chaos thread does not say so) and what it  *)
(* lost.  Of an arm: what it quarantined.                                  *)
ScenarioExtracts ==
  [recovered : {"yes", "no"}, loss : 0 .. MaxCount, quarantined : {0}]
ArmExtracts == [recovered : {"yes"}, loss : {0}, quarantined : 0 .. MaxCount]
ChaosReports(name) == IF name \in ToSet(Arms) THEN ArmExtracts ELSE ScenarioExtracts

(* int(rate) is the run id of a step. *)
RunOf(rate) == rate \div 10

(* The runs in order: the repeats of each scenario, then the repeats of    *)
(* the two arms by turns.                                                  *)
ChaosPlan ==
  [k \in 1 .. Len(Scenarios) * Repeats |->
     <<Scenarios[((k - 1) \div Repeats) + 1], ((k - 1) % Repeats) + 1>>]
  \o [k \in 1 .. 2 * Repeats |-> <<Arms[((k - 1) % 2) + 1], ((k - 1) \div 2) + 1>>]

Plan == IF suite = "sweep" THEN [k \in DOMAIN Rates |-> RunOf(Rates[k])] ELSE ChaosPlan
Reports(id) == IF suite = "sweep" THEN SweepReports ELSE ChaosReports(id[1])
BestReport == IF suite = "sweep" THEN [met |-> Criteria]
              ELSE [recovered |-> "yes", loss |-> 0, quarantined |-> 0]

Now == Len(results) + 1
RunId == Plan[Now]

NoReduction == [known |-> FALSE, pct |-> 0]
NoSummary == [headline |-> None, recovered |-> {}, lossless |-> {}, reduction |-> NoReduction]

Init ==
  /\ suite \in {"sweep", "chaos"}
  /\ pc = "run"
  /\ scratch \in BOOLEAN
  /\ disk = (IF scratch THEN <<>> ELSE [id \in ToSet(Plan) |-> BestReport])
  /\ wrote = FALSE /\ results = <<>> /\ failures = 0 /\ summary = NoSummary

-----------------------------------------------------------------------------
(* subprocess.run of a scenario *)

ScenarioReports ==
  /\ pc = "run"
  /\ \E r \in Reports(RunId) :
       disk' = [id \in DOMAIN disk \cup {RunId} |-> IF id = RunId THEN r ELSE disk[id]]
  /\ wrote' = TRUE /\ pc' = "read"
  /\ UNCHANGED <<suite, scratch, results, failures, summary>>

(* It exits with 1 and leaves the file alone; the exit code is not looked  *)
(* at.                                                                     *)
ScenarioFails ==
  /\ pc = "run"
  /\ wrote' = FALSE /\ pc' = "read"
  /\ UNCHANGED <<suite, disk, scratch, results, failures, summary>>

(* Its time-out is an exception that nobody catches. *)
ScenarioHangs ==
  /\ pc = "run"
  /\ pc' = "crashed"
  /\ UNCHANGED <<suite, disk, scratch, wrote, results, failures, summary>>

-----------------------------------------------------------------------------
(* throughput_sweep.py *)

(* Mutant: the limit is checked before the step counts. *)
JudgeStepLate ==
  /\ suite = "sweep" /\ pc = "read" /\ RunId \in DOMAIN disk
  /\ LET sustained == disk[RunId].met = Criteria
     IN  /\ results' = Append(results, [rate |-> Rates[Now], sustained |-> sustained,
                                        measured |-> wrote])
         /\ failures' = IF sustained THEN 0 ELSE failures + 1
  /\ pc' = IF failures >= StopAfter \/ Now = Len(Plan) THEN "summarise" ELSE "run"
  /\ UNCHANGED <<suite, disk, scratch, wrote, summary>>

JudgeStep ==
  /\ suite = "sweep" /\ pc = "read" /\ RunId \in DOMAIN disk
  /\ LET sustained == disk[RunId].met = Criteria
     IN  /\ results' = Append(results, [rate |-> Rates[Now], sustained |-> sustained,
                                        measured |-> wrote])
         /\ failures' = IF sustained THEN 0 ELSE failures + 1
  /\ pc' = IF failures' >= StopAfter \/ Now = Len(Plan) THEN "summarise" ELSE "run"
  /\ UNCHANGED <<suite, disk, scratch, wrote, summary>>

(* run_step returns a step without "failed_because", and main looks it up. *)
JudgeNothing ==
  /\ suite = "sweep" /\ pc = "read" /\ RunId \notin DOMAIN disk
  /\ pc' = "crashed"
  /\ UNCHANGED <<suite, disk, scratch, wrote, results, failures, summary>>

(* The steps sorted by rate: no two have the same, and the step at i has   *)
(* i - 1 slower ones.                                                      *)
Slower(k) == {n \in DOMAIN results : results[n].rate < results[k].rate}
ByRate ==
  [i \in DOMAIN results |->
     results[CHOOSE k \in DOMAIN results : Cardinality(Slower(k)) = i - 1]]

(* Mutant: the highest rate of any sustained step. *)
SustainableHighest ==
  LET good == {n \in DOMAIN ByRate : ByRate[n].sustained}
  IN  IF good = {} THEN None ELSE ByRate[Max(good)].rate

(* The last of the sustained steps before the first that is not. *)
Sustainable ==
  LET good == {n \in DOMAIN ByRate : \A k \in 1 .. n : ByRate[k].sustained}
  IN  IF good = {} THEN None ELSE ByRate[Max(good)].rate

SummariseSweep ==
  /\ suite = "sweep" /\ pc = "summarise"
  /\ summary' = [summary EXCEPT !.headline = Sustainable]
  /\ pc' = "ended"
  /\ UNCHANGED <<suite, disk, scratch, wrote, results, failures>>

-----------------------------------------------------------------------------
(* chaos_suite.py *)

NoRun == [recovered |-> "unknown", loss |-> None, quarantined |-> None]

(* extract of the report, or of the error if there is none. *)
ExtractRun ==
  /\ suite = "chaos" /\ pc = "read"
  /\ LET report == IF RunId \in DOMAIN disk THEN disk[RunId] ELSE NoRun
     IN  results' = Append(results, [report |-> report, of |-> RunId[1], measured |-> wrote])
  /\ pc' = IF Now = Len(Plan) THEN "summarise" ELSE "run"
  /\ UNCHANGED <<suite, disk, scratch, wrote, failures, summary>>

RunsOf(name) == {k \in DOMAIN results : results[k].of = name}

(* Mutant: a run without a report does not count. *)
AllRecoveredOfThoseKnown(name) ==
  \A k \in RunsOf(name) : results[k].report.recovered # "no"

AllRecovered(name) == \A k \in RunsOf(name) : results[k].report.recovered = "yes"

(* A missing number counts as zero here. *)
ZeroLoss(name) == \A k \in RunsOf(name) : results[k].report.loss <= 0

Quarantined(k) == results[k].report.quarantined

(* Mutant: a missing number counts as zero here too. *)
AggAll(name) ==
  [n |-> Cardinality(RunsOf(name)),
   sum |-> FoldSet(LAMBDA k, s : s + (IF Quarantined(k) = None THEN 0 ELSE Quarantined(k)),
                   0, RunsOf(name))]

(* agg: missing values are left out; the mean is sum / n. *)
Agg(name) ==
  LET known == {k \in RunsOf(name) : Quarantined(k) # None}
  IN  [n |-> Cardinality(known), sum |-> FoldSet(LAMBDA k, s : s + Quarantined(k), 0, known)]

(* 100 * (mean of no_backoff - mean of with_backoff) / mean of no_backoff. *)
Reduction ==
  LET wb == Agg(Arms[1])
      nb == Agg(Arms[2])
  IN  IF wb.n = 0 \/ nb.n = 0 \/ nb.sum = 0 THEN NoReduction
      ELSE [known |-> TRUE,
            pct |-> (100 * (nb.sum * wb.n - wb.sum * nb.n)) \div (nb.sum * wb.n)]

SummariseChaos ==
  /\ suite = "chaos" /\ pc = "summarise"
  /\ summary' = [summary EXCEPT
                   !.recovered = {s \in ToSet(Scenarios) : AllRecovered(s)},
                   !.lossless = {s \in ToSet(Scenarios) : ZeroLoss(s)},
                   !.reduction = Reduction]
  /\ pc' = "ended"
  /\ UNCHANGED <<suite, disk, scratch, wrote, results, failures>>

-----------------------------------------------------------------------------
Next ==
  \/ ScenarioReports \/ ScenarioFails \/ ScenarioHangs
  \/ JudgeStep \/ JudgeNothing \/ SummariseSweep
  \/ ExtractRun \/ SummariseChaos

Spec == Init /\ [][Next]_vars

-----------------------------------------------------------------------------
(* Properties *)

Steps == [rate : ToSet(Rates), sustained : BOOLEAN, measured : BOOLEAN]
Extracts == [report : ScenarioExtracts \cup ArmExtracts \cup {NoRun}, of : ToSet(Scenarios) \cup ToSet(Arms),
             measured : BOOLEAN]

Summaries ==
  [headline : ToSet(Rates) \cup {None},
   recovered : SUBSET ToSet(Scenarios), lossless : SUBSET ToSet(Scenarios),
   reduction : [known : BOOLEAN, pct : Int]]

(* Types; a sweep never counts more failures in a row than it stops at     *)
(* (throughput_sweep.py:169).                                              *)
TypeOK ==
  /\ suite \in {"sweep", "chaos"} /\ pc \in {"run", "read", "summarise", "ended", "crashed"}
  /\ DOMAIN disk \subseteq ToSet(Plan) /\ \A id \in DOMAIN disk : disk[id] \in Reports(id)
  /\ scratch \in BOOLEAN /\ wrote \in BOOLEAN
  /\ results \in Seq(IF suite = "sweep" THEN Steps ELSE Extracts)
  /\ Len(results) <= Len(Plan)
  /\ failures \in 0 .. StopAfter
  /\ summary \in Summaries /\ summary.reduction.pct <= 100

(* How far the suite is: a sweep may stop early, a chaos suite does not.   *)
Progress ==
  /\ pc \in {"run", "read"} => Len(results) < Len(Plan) /\ failures < StopAfter
  /\ suite = "chaos" /\ pc \in {"summarise", "ended"} => Len(results) = Len(Plan)

(* Each result is of the run at its place in the plan, and of a report if  *)
(* the scenario wrote one.                                                 *)
FollowsPlan ==
  \A k \in DOMAIN results :
    IF suite = "sweep" THEN results[k].rate = Rates[k]
    ELSE /\ results[k].of = Plan[k][1]
         /\ results[k].report \in Reports(Plan[k]) \cup {NoRun}
         /\ results[k].measured => results[k].report # NoRun

(* Without reports of an earlier suite there are only those of the runs    *)
(* that are done and of the one that wrote, and a result that is of a      *)
(* report was measured.                                                    *)
Fresh ==
  /\ pc = "read" /\ wrote => RunId \in DOMAIN disk
  /\ scratch =>
       /\ pc \in {"run", "read"} =>
            \A id \in DOMAIN disk :
              \/ \E k \in DOMAIN results : id = Plan[k]
              \/ pc = "read" /\ wrote /\ id = RunId
       /\ \A k \in DOMAIN results :
            suite = "sweep" \/ results[k].report # NoRun => results[k].measured

(* What has been concluded is what the results say. *)
Drawn ==
  pc = "ended" =>
    IF suite = "sweep" THEN summary.headline = Sustainable
    ELSE /\ summary.recovered = {s \in ToSet(Scenarios) : AllRecovered(s)}
         /\ summary.lossless = {s \in ToSet(Scenarios) : ZeroLoss(s)}
         /\ summary.reduction = Reduction

(* The inductive invariant of both programs, their types included          *)
(* (throughput_sweep.py: main, chaos_suite.py: main).                      *)
SuiteInv == TypeOK /\ Progress /\ FollowsPlan /\ Fresh /\ Drawn

Sweeping == suite = "sweep" /\ pc = "ended"

(* The sustained rate a sweep reports is the highest rate it ran such that *)
(* this step and every step at a lower rate were sustained, in whatever    *)
(* order they ran, and there is none if the lowest was not.  With no       *)
(* report left by an earlier suite each of these steps was measured by the *)
(* scenario it has just run, although no exit code is looked at            *)
(* (throughput_sweep.py:53, 70-77, 176-183).                               *)
SweepHeadline ==
  LET holds == {k \in DOMAIN results :
                  \A n \in DOMAIN results :
                    results[n].rate <= results[k].rate => results[n].sustained}
  IN  Sweeping =>
        /\ IF holds = {} THEN summary.headline = None
           ELSE \E k \in holds : /\ results[k].rate = summary.headline
                                 /\ \A n \in holds : results[n].rate <= results[k].rate
        /\ scratch => \A k \in DOMAIN results : results[k].measured

Concluded == suite = "chaos" /\ pc = "ended" /\ scratch

(* With no report left by an earlier suite, a scenario is said to have     *)
(* always recovered, or never to have lost an event and always recovered,  *)
(* only if every repeat of it wrote a report that says so                  *)
(* (chaos_suite.py:178-180).                                               *)
RecoveryIsMeasured ==
  Concluded =>
    \A s \in summary.recovered :
      /\ Cardinality(RunsOf(s)) = Repeats
      /\ \A k \in RunsOf(s) :
           /\ results[k].measured /\ results[k].report.recovered = "yes"
           /\ s \in summary.lossless => results[k].report.loss = 0

(* With no report left by an earlier suite, a reduction is reported only   *)
(* if both arms were measured and events were quarantined without backoff, *)
(* and no arm that was worse is reported as better (chaos_suite.py:202-209).*)
ReductionHasBothArms ==
  LET known(arm) == {k \in RunsOf(arm) : results[k].measured}
      worst(arm) == {Quarantined(k) : k \in known(arm)}
  IN  Concluded /\ summary.reduction.known =>
        /\ known("with_backoff") # {} /\ known("no_backoff") # {}
        /\ \E q \in worst("no_backoff") : q > 0
        /\ (\A q \in worst("with_backoff"), r \in worst("no_backoff") : q >= r)
             => summary.reduction.pct <= 0
=============================================================================
