----------------------------- MODULE BatchLayer -----------------------------
(***************************************************************************)
(* The batch layer: the hourly DAG of airflow/dags/trips_batch_rollup.py   *)
(* (sensor, extract and load, verify) and the manual DAG of                *)
(* airflow/dags/trips_backfill.py (plan, reprocess hour by hour, close the *)
(* audit row), which may run at the same time on the same two tables:      *)
(* trips_by_city_hour in Cassandra, which the stream goes on writing, and  *)
(* trips_rollup_stage in Postgres.                                         *)
(*                                                                         *)
(* Time is counted in half hours, so that a window can be unaligned; hour  *)
(* h begins at the even instant 2h.  A read of one hour is eight reads, one *)
(* per city: it returns every trip that was there when it began, and some  *)
(* of those that arrived since.                                            *)
(***************************************************************************)
EXTENDS Integers, FiniteSets, Sequences

CONSTANTS
  Trips,         (* trip_ids                                                *)
  EventTime,     (* trip -> its event_time, in half hours                   *)
  MaxNow,        (* bound: the last hour of the clock                       *)
  MinRows,       (* MIN_ROWS_TO_PROCEED                                     *)
  Retries,       (* "retries" of DEFAULT_ARGS                               *)
  MaxHours,      (* MAX_HOURS                                               *)
  Windows,       (* windows <<start, end>> a backfill may be triggered with *)
  MaxBackfills   (* bound: backfills triggered                              *)

ASSUME BatchAssumption ==
  /\ IsFiniteSet(Trips)
  /\ EventTime \in [Trips -> Nat]
  /\ Windows \subseteq Nat \X Nat
  /\ MaxNow \in Nat /\ MinRows \in Nat \ {0}
  /\ Retries \in Nat /\ MaxHours \in Nat /\ MaxBackfills \in Nat

NoHour == -1

VARIABLES
  now,         (* the current hour                                          *)
  cassandra,   (* trips in trips_by_city_hour                               *)
  stage,       (* trips in trips_rollup_stage                               *)
  rollup,      (* task of the rollup run                                    *)
  hour,        (* the hour it is for                                        *)
  tries,       (* retries its task has used                                 *)
  landed,      (* history: what the table held when its read began          *)
  rows,        (* what the task has read; the count of them is its XCom     *)
  backfills,   (* history: backfills triggered                              *)
  backfill,    (* task of the backfill run                                  *)
  window,      (* its parameters                                            *)
  btries,      (* retries its task has used                                 *)
  cursor,      (* `hour` of the loop in reprocess_window                    *)
  found,       (* the trips this attempt has loaded: rows_read, rows_loaded *)
  empty,       (* empty_hours                                               *)
  seen,        (* history: what the hour held when its read began           *)
  blanded,     (* history: what the table held when the attempt began       *)
  audit,       (* backfill_audit, in the order of its ids                   *)
  alerted      (* the last backfill that ended emitted "backfill_empty"     *)

tables == <<cassandra, stage>>
rollupVars == <<rollup, hour, tries, landed, rows>>
attempt == <<cursor, found, empty, seen, blanded>>
vars == <<now, tables, rollupVars, backfills, backfill, window, btries, attempt,
          audit, alerted>>
backfillVars == <<backfills, backfill, window, btries, attempt, audit, alerted>>

Open == -1  (* rows_loaded and finished_at are null *)
HourOf(t) == EventTime[t] \div 2

(* event_hour = at, for an instant that need not be a full hour. *)
InPartition(S, at) == {t \in S : 2 * HourOf(t) = at}
(* event_time >= start and event_time < end. *)
Within(S, start, end) == {t \in S : start <= EventTime[t] /\ EventTime[t] < end}

(* The task whose body is at this point; a retry runs it from its start. *)
TaskOf ==
  [wait |-> "wait", extract |-> "extract", reading |-> "extract",
   loaded |-> "extract", verify |-> "verify"]

BackfillTaskOf ==
  [plan |-> "plan", planned |-> "plan", reprocess |-> "reprocess",
   reading |-> "reprocess", close |-> "close", closed |-> "close"]

-----------------------------------------------------------------------------
Init ==
  /\ now = 0 /\ cassandra = {} /\ stage = {}
  /\ rollup = "idle" /\ hour = NoHour /\ tries = 0
  /\ landed = {} /\ rows = {}
  /\ backfills = 0 /\ backfill = "idle" /\ window = <<0, 1>> /\ btries = 0
  /\ cursor = 0 /\ found = {} /\ empty = 0 /\ seen = {} /\ blanded = {}
  /\ audit = <<>> /\ alerted = FALSE

Tick ==
  /\ now < MaxNow
  /\ now' = now + 1
  /\ UNCHANGED <<tables, rollupVars, backfillVars>>

(* The stream, a replay or a direct write of the drain stores a trip, in   *)
(* its hour or any time later.                                             *)
TripLands(t) ==
  /\ t \notin cassandra /\ HourOf(t) <= now
  /\ cassandra' = cassandra \cup {t}
  /\ UNCHANGED <<now, stage, rollupVars, backfillVars>>

-----------------------------------------------------------------------------
(* trips_batch_rollup *)

(* Mutant: the run is for the hour that is still open. *)
ScheduleRollupOpenHour ==
  /\ rollup = "idle" /\ hour < now
  /\ hour' = now
  /\ rollup' = "wait"
  /\ UNCHANGED <<now, tables, tries, landed, rows, backfillVars>>

(* catchup=False, max_active_runs=1: one run at a time, for the hour that  *)
(* closed last; an hour that closed while a run was busy is skipped.       *)
ScheduleRollup ==
  /\ rollup = "idle" /\ hour < now - 1
  /\ hour' = now - 1
  /\ rollup' = "wait"
  /\ UNCHANGED <<now, tables, tries, landed, rows, backfillVars>>

Rows(S) == Cardinality(InPartition(S, 2 * hour))

SensorPasses ==
  /\ rollup = "wait" /\ Rows(cassandra) >= MinRows
  /\ rollup' = "extract" /\ tries' = 0
  /\ UNCHANGED <<now, tables, hour, landed, rows, backfillVars>>

(* The run has ended, and what its tasks held is gone. *)
RollupIsOver == rollup' = "idle" /\ tries' = 0 /\ landed' = {} /\ rows' = {}

(* A sensor that times out is not retried: the run has failed. *)
SensorTimesOut ==
  /\ rollup = "wait" /\ Rows(cassandra) < MinRows
  /\ RollupIsOver
  /\ UNCHANGED <<now, tables, hour, backfillVars>>

ExtractBegins ==
  /\ rollup = "extract"
  /\ landed' = InPartition(cassandra, 2 * hour)
  /\ rollup' = "reading"
  /\ UNCHANGED <<now, tables, hour, tries, rows, backfillVars>>

(* Mutant: the transaction is not committed. *)
ExtractLoadsUncommitted(S) ==
  /\ rollup = "reading"
  /\ landed \subseteq S /\ S \subseteq InPartition(cassandra, 2 * hour)
  /\ rows' = S
  /\ rollup' = "loaded"
  /\ UNCHANGED <<now, tables, hour, tries, landed, backfillVars>>

(* The read ends; INSERT ... ON CONFLICT (trip_id) DO UPDATE; the commit.  *)
(* The branch for no rows is not reached behind the sensor, since rows are *)
(* never deleted.                                                          *)
ExtractLoads(S) ==
  /\ rollup = "reading"
  /\ landed \subseteq S /\ S \subseteq InPartition(cassandra, 2 * hour)
  /\ rows' = S
  /\ stage' = stage \cup S
  /\ rollup' = "loaded"
  /\ UNCHANGED <<now, cassandra, hour, tries, landed, backfillVars>>

ExtractReturns ==
  /\ rollup = "loaded"
  /\ rollup' = "verify" /\ tries' = 0
  /\ UNCHANGED <<now, tables, hour, landed, rows, backfillVars>>

Drift == Cardinality(rows) - Cardinality(Within(stage, 2 * hour, 2 * hour + 2))

(* Mutant: only rows that are missing are drift. *)
VerifySucceedsOnSurplus ==
  /\ rollup = "verify" /\ Drift <= 0
  /\ RollupIsOver
  /\ UNCHANGED <<now, tables, hour, backfillVars>>

VerifySucceeds ==
  /\ rollup = "verify" /\ Drift = 0
  /\ RollupIsOver
  /\ UNCHANGED <<now, tables, hour, backfillVars>>

(* Mutant: the retries start again with every failure. *)
RollupFailsForever ==
  /\ rollup' = TaskOf[rollup]
  /\ UNCHANGED <<now, tables, hour, tries, landed, rows, backfillVars>>

(* A task raised: Airflow runs it again from its start, and verify from    *)
(* the XCom of the extract that succeeded; or the run has failed.          *)
RollupFails ==
  /\ IF tries < Retries
     THEN tries' = tries + 1 /\ rollup' = TaskOf[rollup] /\ UNCHANGED <<landed, rows>>
     ELSE RollupIsOver
  /\ UNCHANGED <<now, tables, hour, backfillVars>>

(* drift != 0: an alert, and verify_hour raises. *)
VerifyFindsDrift ==
  /\ rollup = "verify" /\ Drift # 0
  /\ RollupFails

(* A database is unreachable, a transaction deadlocks with the other DAG,  *)
(* or the worker dies, before or after the commit.                         *)
RollupTaskDies ==
  /\ rollup # "idle"
  /\ RollupFails

-----------------------------------------------------------------------------
(* trips_backfill *)

Start == window[1]
End == window[2]
PlannedHours == (End - Start) \div 2

Trigger(w) ==
  /\ backfill = "idle" /\ backfills < MaxBackfills
  /\ backfills' = backfills + 1
  /\ window' = w /\ backfill' = "plan"
  /\ UNCHANGED <<now, tables, rollupVars, btries, attempt, audit, alerted>>

(* A new attempt of reprocess_window: its locals start again. *)
NewAttempt ==
  /\ cursor' = Start /\ found' = {} /\ empty' = 0
  /\ blanded' = cassandra /\ seen' = {}

(* A task raised: Airflow runs it again from its start, or the run failed. *)
BackfillFails ==
  /\ IF btries < Retries
     THEN btries' = btries + 1 /\ backfill' = BackfillTaskOf[backfill]
     ELSE btries' = 0 /\ backfill' = "idle"
  /\ IF BackfillTaskOf[backfill] = "reprocess" THEN NewAttempt ELSE UNCHANGED attempt
  /\ UNCHANGED <<now, tables, rollupVars, backfills, window, audit, alerted>>

PlanRejects ==
  /\ backfill = "plan"
  /\ End <= Start \/ PlannedHours > MaxHours
  /\ BackfillFails

(* The audit row is committed before the task returns. *)
Plan ==
  /\ backfill = "plan"
  /\ Start < End /\ PlannedHours <= MaxHours
  /\ audit' = Append(audit, [window |-> window, loaded |-> Open])
  /\ backfill' = "planned"
  /\ UNCHANGED <<now, tables, rollupVars, backfills, window, btries, attempt, alerted>>

PlanReturns ==
  /\ backfill = "planned"
  /\ backfill' = "reprocess" /\ btries' = 0
  /\ NewAttempt
  /\ UNCHANGED <<now, tables, rollupVars, backfills, window, audit, alerted>>

HourBegins ==
  /\ backfill = "reprocess" /\ cursor < End
  /\ seen' = InPartition(cassandra, cursor)
  /\ backfill' = "reading"
  /\ UNCHANGED <<now, tables, rollupVars, backfills, window, btries, cursor,
                 found, empty, blanded, audit, alerted>>

(* Mutant: the loop moves to the end of the window after one hour. *)
HourLoadsOnce(S) ==
  /\ backfill = "reading"
  /\ seen \subseteq S /\ S \subseteq InPartition(cassandra, cursor)
  /\ stage' = stage \cup S
  /\ found' = found \cup S
  /\ empty' = empty + (IF S = {} THEN 1 ELSE 0)
  /\ cursor' = End
  /\ backfill' = "reprocess" /\ seen' = {}
  /\ UNCHANGED <<now, cassandra, rollupVars, backfills, window, btries,
                 blanded, audit, alerted>>

(* The rows of one hour are loaded and committed before the next is read. *)
HourLoads(S) ==
  /\ backfill = "reading"
  /\ seen \subseteq S /\ S \subseteq InPartition(cassandra, cursor)
  /\ stage' = stage \cup S
  /\ found' = found \cup S
  /\ empty' = empty + (IF S = {} THEN 1 ELSE 0)
  /\ cursor' = cursor + 2
  /\ backfill' = "reprocess" /\ seen' = {}
  /\ UNCHANGED <<now, cassandra, rollupVars, backfills, window, btries,
                 blanded, audit, alerted>>

ReprocessReturns ==
  /\ backfill = "reprocess" /\ cursor >= End
  /\ backfill' = "close" /\ btries' = 0
  /\ UNCHANGED <<now, tables, rollupVars, backfills, window, attempt, audit, alerted>>

(* Mutant: the end of a backfill is a row of its own. *)
CloseAuditInserting ==
  /\ backfill = "close"
  /\ audit' = Append(audit, [window |-> window, loaded |-> Cardinality(found)])
  /\ backfill' = "closed"
  /\ UNCHANGED <<now, tables, rollupVars, backfills, window, btries, attempt, alerted>>

(* UPDATE backfill_audit ... WHERE id = audit_id: the row of the plan that *)
(* returned is the last one.                                               *)
CloseAudit ==
  /\ backfill = "close"
  /\ audit' = [audit EXCEPT ![Len(audit)].loaded = Cardinality(found)]
  /\ backfill' = "closed"
  /\ UNCHANGED <<now, tables, rollupVars, backfills, window, btries, attempt, alerted>>

(* The alert for a backfill that found nothing, and the end of the run. *)
BackfillEnds ==
  /\ backfill = "closed"
  /\ alerted' = (empty = PlannedHours)
  /\ backfill' = "idle" /\ btries' = 0
  /\ UNCHANGED <<now, tables, rollupVars, backfills, window, attempt, audit>>

BackfillTaskDies ==
  /\ backfill # "idle"
  /\ BackfillFails

-----------------------------------------------------------------------------
RollupStep ==
  \/ SensorPasses \/ SensorTimesOut
  \/ ExtractBegins \/ (\E S \in SUBSET Trips : ExtractLoads(S)) \/ ExtractReturns
  \/ VerifySucceeds \/ VerifyFindsDrift

BackfillStep ==
  \/ Plan \/ PlanRejects \/ PlanReturns
  \/ HourBegins \/ (\E S \in SUBSET Trips : HourLoads(S)) \/ ReprocessReturns
  \/ CloseAudit \/ BackfillEnds

Next ==
  \/ Tick
  \/ \E t \in Trips : TripLands(t)
  \/ ScheduleRollup \/ RollupStep \/ RollupTaskDies
  \/ (\E w \in Windows : Trigger(w)) \/ BackfillStep \/ BackfillTaskDies

(* Airflow's scheduler and workers run what is ready.  Nothing makes time  *)
(* pass, a trip land or an operator trigger a backfill.                    *)
Spec == Init /\ [][Next]_vars
FairSpec == Spec /\ WF_vars(RollupStep) /\ WF_vars(BackfillStep)

-----------------------------------------------------------------------------
(* The values of the state; the hour of a run has closed, since a rollup   *)
(* of the open hour would be contradicted by the next one (_hour_for); the *)
(* stage never holds a trip that Cassandra does not.                       *)
TypeOK ==
  /\ now \in 0 .. MaxNow /\ hour \in NoHour .. now - 1
  /\ cassandra \subseteq Trips /\ stage \subseteq cassandra
  /\ rollup \in DOMAIN TaskOf \cup {"idle"}
  /\ landed \subseteq cassandra /\ rows \subseteq cassandra
  /\ tries \in 0 .. Retries /\ btries \in 0 .. Retries
  /\ backfill \in DOMAIN BackfillTaskOf \cup {"idle"}
  /\ backfills \in 0 .. MaxBackfills /\ window \in Nat \X Nat
  /\ cursor \in Nat /\ empty \in Nat
  /\ found \subseteq cassandra /\ seen \subseteq cassandra
  /\ blanded \subseteq cassandra
  /\ audit \in Seq([window : Nat \X Nat, loaded : Nat \cup {Open}])
  /\ alerted \in BOOLEAN

(* verify_hour compares two counts, not two sets.  Whatever lands and      *)
(* whatever a backfill loads meanwhile, when it succeeds the sets are the  *)
(* same and hold all that had landed when the extract began; and a drift   *)
(* can only mean that Postgres holds more than was extracted, the load     *)
(* itself loses nothing (verify_hour raises for a surplus too).            *)
VerifiedIsExact ==
  [][LET hourly == Within(stage, 2 * hour, 2 * hour + 2)
     IN  /\ VerifySucceeds => hourly = rows /\ landed \subseteq rows
         /\ VerifyFindsDrift => rows \subseteq hourly]_vars

(* A drift that verify_hour has found does not heal, whatever lands or is  *)
(* loaded: its retries compare the count of an extract that is not done    *)
(* again, and can only fail.                                               *)
DriftIsForGood ==
  [][rollup = "verify" /\ Drift # 0 /\ rollup' = "verify" => Drift' # 0]_vars

(* A backfill of a window that begins on the hour and that has come to its *)
(* audit row has loaded every trip of the window that Cassandra held when  *)
(* the attempt began, through retries and whatever the rollup does.        *)
ClosedWindowIsLoaded ==
  backfill \in {"close", "closed"} /\ Start % 2 = 0
    => Within(blanded, Start, End) \subseteq stage

ClosedRows == {n \in DOMAIN audit : audit[n].loaded # Open}

(* A run adds a row for every attempt of plan_window and closes one at     *)
(* most: a row left open is of an attempt or a run that failed, never a    *)
(* second account of one that ended.                                       *)
AuditIsHonest ==
  /\ Len(audit) <= backfills * (Retries + 1)
  /\ Cardinality(ClosedRows) <= backfills
  /\ backfill \in {"planned", "reprocess", "reading"} => audit[Len(audit)].loaded = Open

-----------------------------------------------------------------------------
(* What the rollup has extracted is in the stage, and what had landed is   *)
(* in what it has extracted.                                               *)
ExtractLoaded ==
  rollup \in {"loaded", "verify"} =>
    /\ rows \subseteq Within(stage, 2 * hour, 2 * hour + 2)
    /\ landed \subseteq rows

(* How far an attempt of the backfill has come: for a window that begins   *)
(* on the hour, everything before the cursor is loaded.                    *)
LoadedToCursor ==
  /\ backfill \in {"reprocess", "reading", "close", "closed"} /\ Start % 2 = 0 =>
       /\ cursor % 2 = 0
       /\ Within(blanded, Start, cursor) \subseteq stage
  /\ backfill = "reading" => InPartition(blanded, cursor) \subseteq seen
  /\ backfill \in {"close", "closed"} => End <= cursor

(* Rows that n runs may have added, with every retry of plan_window.       *)
RowsOfRuns(n) == n * (Retries + 1)
HasRow == backfill \in {"planned", "reprocess", "reading", "close", "closed"}
ClosedBefore == IF HasRow THEN ClosedRows \ {Len(audit)} ELSE ClosedRows

(* The rows of the audit, and those that other runs have closed: the run   *)
(* has its row from the commit of plan_window on, open until it is closed. *)
AuditAccount ==
  /\ backfill # "idle" => backfills > 0
  /\ Len(audit) <= CASE backfill = "plan" -> RowsOfRuns(backfills - 1) + btries
                     [] backfill = "planned" -> RowsOfRuns(backfills - 1) + btries + 1
                     [] OTHER -> RowsOfRuns(backfills)
  /\ Cardinality(ClosedBefore) <= IF backfill = "idle" THEN backfills ELSE backfills - 1
  /\ HasRow => Len(audit) > 0
  /\ backfill \in {"planned", "reprocess", "reading"} => audit[Len(audit)].loaded = Open

(* The inductive invariant of the batch layer, its types included          *)
(* (trips_batch_rollup.py, trips_backfill.py).                             *)
BatchInv == TypeOK /\ ExtractLoaded /\ LoadedToCursor /\ AuditAccount

-----------------------------------------------------------------------------
(* Neither DAG waits for anything without end: with retries and time-outs, *)
(* every run finishes or fails.                                            *)
BatchRunsEnd ==
  /\ rollup # "idle" ~> rollup = "idle"
  /\ backfill # "idle" ~> backfill = "idle"
=============================================================================
