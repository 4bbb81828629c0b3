--------------------------- MODULE CassandraSink ---------------------------
(***************************************************************************)
(* write_partition of src/streaming/cassandra_sink.py: one Spark task      *)
(* writes the rows of one partition, chunk by chunk, one statement per row *)
(* and table.  Each chunk goes through a concurrent fast path (one attempt *)
(* per statement) and then, one failed statement at a time, through        *)
(* call_with_retry of src/common/retry.py.                                 *)
(*                                                                         *)
(* Cassandra and Spark are the environment: an execution of a statement    *)
(* may succeed, fail with an error of the RETRYABLE or the PERMANENT       *)
(* class, or fail with an error of neither class; a RETRYABLE error leaves *)
(* open whether the write was applied; the task may die at any time and is *)
(* run again from its first row, up to spark.task.maxFailures times.       *)
(***************************************************************************)
EXTENDS Retry, FiniteSets

CONSTANTS
  NRows,             (* rows of the partition, numbered 1..NRows            *)
  Defects,           (* rows that _validate or build_statements rejects     *)
  Malformed,         (* those of them that raise no PermanentDefect: a text *)
                     (* that is not a UUID, a time that is not a datetime   *)
  Tables,            (* ALL_TABLES or CORE_TABLES                           *)
  ChunkSize,         (* chunk_size                                          *)
  MaxAttempts,       (* RETRY_MAX_ATTEMPTS                                  *)
  Schedule,          (* RETRY_BACKOFF_SCHEDULE_MS                           *)
  TaskMaxFailures    (* spark.task.maxFailures                              *)

ASSUME SinkAssumption ==
  /\ NRows \in Nat /\ Defects \subseteq 1..NRows /\ Malformed \subseteq Defects
  /\ IsFiniteSet(Tables) /\ Tables # {}
  /\ ChunkSize \in Nat \ {0}
  /\ MaxAttempts \in Nat
  /\ Schedule \in Seq(Nat)
  /\ TaskMaxFailures \in Nat \ {0}

Rows == 1..NRows
Statements == (Rows \ Defects) \X Tables

(* The rows that _validate rejects with a PermanentDefect. *)
Rejected == Defects \ Malformed

(* Mutant: the retry loop gets the whole budget again. *)
FullBudget == LoopBudget(MaxAttempts)

(* The retry loop gets one attempt less than the budget, and at least one. *)
Budget == LoopBudget(MaxAttempts - 1)

VARIABLES
  pc,                (* where the task is                                   *)
  next,              (* first row of the chunks not yet taken               *)
  work,              (* statements of the chunk before the fast path        *)
  failed,            (* failed statements of the chunk -> class of error    *)
  current,           (* the statement in call_with_retry                    *)
  attempt,           (* loop variable of call_with_retry                    *)
  loopStats,         (* attempt_stats                                       *)
  stats,             (* stats of the partition                              *)
  counters,          (* the integer counters of write_partition             *)
  letters,           (* dead letters yielded by this run of the task        *)
  tables,            (* statements applied in Cassandra; durable            *)
  tries,             (* history: executions of each statement by this run   *)
  taskFailures       (* runs of the task that have failed                   *)

task == <<next, work, failed, current, attempt, loopStats, stats, counters,
          letters, tries>>
vars == <<pc, task, tables, taskFailures>>

(* A dead letter, with the table, the error and the time slept kept as     *)
(* history; the code's record has row, stage and retry_count.              *)
Letter(row, table, stage, count, cause, slept) ==
  [row |-> row, table |-> table, stage |-> stage, retry_count |-> count,
   cause |-> cause, slept |-> slept]

NoCounters ==
  [rows_written |-> 0, dlq_emitted |-> 0, validation_rejects |-> 0,
   retried_writes |-> 0, retried_writes_retries |-> 0]

Counters ==
  [rows_written : Nat, dlq_emitted : Nat, validation_rejects : Nat,
   retried_writes : Nat, retried_writes_retries : Nat]

NoStatement == <<0, "none">>
NoFailures == [s \in {} |-> "transient"]

ResetTask ==
  /\ next = 1 /\ work = {} /\ failed = NoFailures
  /\ current = NoStatement /\ attempt = 0
  /\ loopStats = NoStats /\ stats = NoStats /\ counters = NoCounters
  /\ letters = {}
  /\ tries = [s \in Statements |-> 0]

Init ==
  /\ pc = "chunk" /\ ResetTask
  /\ tables = {} /\ taskFailures = 0

Settle(S) == failed' = [s \in DOMAIN failed \ S |-> failed[s]]

(* An error of RETRYABLE, or of neither class, leaves open whether the     *)
(* coordinator applied the write; one of PERMANENT does not.               *)
MayApply(S, result) == {s \in S : result[s] \in {"transient", "unclassified"}}

-----------------------------------------------------------------------------
(* A chunk of rows is taken, validated and turned into statements.  Every  *)
(* rejected row is dead-lettered, and one that _validate rejects is also   *)
(* counted as a validation reject; the generic handler does not count.     *)
TakeChunk ==
  /\ pc = "chunk"
  /\ next <= NRows
  /\ LET last  == IF next + ChunkSize - 1 < NRows THEN next + ChunkSize - 1 ELSE NRows
         chunk == next..last
         bad   == chunk \cap Defects
     IN  /\ next' = last + 1
         /\ work' = (chunk \ bad) \X Tables
         /\ letters' = letters \cup
              {Letter(r, "none", "parse", 0, "defect", 0) : r \in bad}
         /\ counters' = [counters EXCEPT
              !.validation_rejects = @ + Cardinality(chunk \cap Rejected),
              !.dlq_emitted = @ + Cardinality(bad)]
         /\ pc' = IF chunk \subseteq Defects THEN "chunk" ELSE "fast"
  /\ UNCHANGED <<failed, current, attempt, loopStats, stats, tries, tables,
                 taskFailures>>

(* execute_concurrent with raise_on_first_error=False: every statement is  *)
(* tried once, and the results are counted in one go.                      *)
FastPath ==
  /\ pc = "fast"
  /\ \E result \in [work -> {"ok"} \cup Reasons] :
       LET good == {s \in work : result[s] = "ok"}
       IN  /\ \E applied \in SUBSET MayApply(work, result) :
                tables' = tables \cup good \cup applied
           /\ failed' = [s \in work \ good |-> result[s]]
           /\ stats' = [stats EXCEPT
                !.attempts = @ + Cardinality(work),
                !.successes = @ + Cardinality(good),
                !.reasons = [r \in Reasons |->
                   @[r] + Cardinality({s \in work : result[s] = r})]]
           /\ counters' = [counters EXCEPT !.rows_written = @ + Cardinality(good)]
  /\ tries' = [s \in Statements |-> tries[s] + IF s \in work THEN 1 ELSE 0]
  /\ work' = {}
  /\ pc' = "retry"
  /\ UNCHANGED <<next, current, attempt, loopStats, letters, taskFailures>>

(* Mutant: the `continue` after the dead letter is missing. *)
RejectPermanentAndRetry(s) ==
  /\ pc = "retry"
  /\ failed[s] = "permanent"
  /\ letters' = letters \cup
       {Letter(s[1], s[2], "cassandra_sink", 0, "permanent", 0)}
  /\ counters' = [counters EXCEPT !.dlq_emitted = @ + 1]
  /\ current' = s
  /\ pc' = "loop"
  /\ UNCHANGED <<next, work, failed, attempt, loopStats, stats, tries, tables,
                 taskFailures>>

(* A PERMANENT error of the fast path is dead-lettered without a retry. *)
RejectPermanent(s) ==
  /\ pc = "retry"
  /\ failed[s] = "permanent"
  /\ letters' = letters \cup
       {Letter(s[1], s[2], "cassandra_sink", 0, "permanent", 0)}
  /\ counters' = [counters EXCEPT !.dlq_emitted = @ + 1]
  /\ Settle({s})
  /\ UNCHANGED <<pc, next, work, current, attempt, loopStats, stats, tries,
                 tables, taskFailures>>

(* Any other error sends the statement to call_with_retry. *)
EnterRetry(s) ==
  /\ pc = "retry"
  /\ failed[s] # "permanent"
  /\ current' = s
  /\ attempt' = 0
  /\ loopStats' = NoStats
  /\ pc' = "loop"
  /\ UNCHANGED <<next, work, failed, stats, counters, letters, tries, tables,
                 taskFailures>>

-----------------------------------------------------------------------------
(* One iteration of call_with_retry for the current statement, by the      *)
(* outcome of session.execute, with the code that follows it in            *)
(* write_partition when the loop is left.                                  *)

Attempted == [loopStats EXCEPT !.attempts = @ + 1]
CountTry == tries' = [tries EXCEPT ![current] = @ + 1]

LeaveLoop(final) ==
  /\ stats' = Merge(stats, final)
  /\ Settle({current})
  /\ current' = NoStatement
  /\ attempt' = 0
  /\ loopStats' = NoStats
  /\ pc' = "retry"

AttemptSucceeds ==
  /\ pc = "loop"
  /\ CountTry
  /\ LET final == [Attempted EXCEPT !.successes = @ + 1, !.retries = @ + attempt]
     IN  /\ LeaveLoop([final EXCEPT !.retries = @ + 1])
         /\ counters' = [counters EXCEPT
              !.rows_written = @ + 1,
              !.retried_writes = @ + 1,
              !.retried_writes_retries = @ + final.retries + 1]
  /\ tables' = tables \cup {current}
  /\ UNCHANGED <<next, work, letters, taskFailures>>

(* RetriesExhausted, with the count of attempts that the exception carries.*)
GiveUp(cause, attempts) ==
  LET final == [RecordReason(Attempted, cause) EXCEPT !.exhausted = @ + 1]
  IN  /\ LeaveLoop(final)
      /\ letters' = letters \cup
           {Letter(current[1], current[2], "cassandra_sink", attempts + 1, cause,
                   loopStats.backoff)}
      /\ counters' = [counters EXCEPT !.dlq_emitted = @ + 1]

AttemptRejected ==
  /\ pc = "loop"
  /\ CountTry
  /\ GiveUp("permanent", attempt + 1)
  /\ UNCHANGED <<next, work, tables, taskFailures>>

(* Mutant: a write that has exhausted its attempts is put back to the      *)
(* start of the loop instead of being dead-lettered.                       *)
AttemptTimesOutStartingOver ==
  /\ pc = "loop"
  /\ tries' = [tries EXCEPT ![current] = IF attempt = Budget - 1 THEN 1 ELSE @ + 1]
  /\ tables' \in {tables, tables \cup {current}}
  /\ attempt' = (attempt + 1) % Budget
  /\ loopStats' = IF attempt = Budget - 1 THEN NoStats
                  ELSE [RecordReason(Attempted, "transient") EXCEPT
                          !.backoff = @ + DelayMs(Schedule, attempt)]
  /\ UNCHANGED <<pc, next, work, failed, current, stats, counters, letters,
                 taskFailures>>

AttemptTimesOut ==
  /\ pc = "loop"
  /\ CountTry
  /\ tables' \in {tables, tables \cup {current}}
  /\ IF attempt = Budget - 1
     THEN GiveUp("transient", Budget)
     ELSE /\ loopStats' = [RecordReason(Attempted, "transient") EXCEPT
                             !.backoff = @ + DelayMs(Schedule, attempt)]
          /\ attempt' = attempt + 1
          /\ UNCHANGED <<pc, failed, current, stats, counters, letters>>
  /\ UNCHANGED <<next, work, taskFailures>>

-----------------------------------------------------------------------------
(* Mutant: errors of neither class are left behind with the chunk. *)
EndChunkLeavingUnclassified ==
  /\ pc = "retry"
  /\ \A s \in DOMAIN failed : failed[s] = "unclassified"
  /\ pc' = "chunk"
  /\ failed' = NoFailures
  /\ UNCHANGED <<next, work, current, attempt, loopStats, stats, counters,
                 letters, tries, tables, taskFailures>>

EndChunk ==
  /\ pc = "retry"
  /\ DOMAIN failed = {}
  /\ pc' = "chunk"
  /\ UNCHANGED <<task, tables, taskFailures>>

(* The stats row is yielded last; Spark has the outcomes of the partition. *)
Finish ==
  /\ pc = "chunk"
  /\ next > NRows
  /\ pc' = "done"
  /\ UNCHANGED <<task, tables, taskFailures>>

(* The run of the task ends without an answer: an exception that is        *)
(* neither RETRYABLE nor PERMANENT leaves the retry loop, or the executor  *)
(* dies.  Statements in flight may have been applied.                      *)
InFlight ==
  CASE pc = "fast" -> work [] pc = "loop" -> {current} [] OTHER -> {}

TaskFails ==
  /\ pc \in {"chunk", "fast", "retry", "loop"}
  /\ taskFailures < TaskMaxFailures
  /\ \E applied \in SUBSET InFlight : tables' = tables \cup applied
  /\ taskFailures' = taskFailures + 1
  /\ pc' = "lost"
  /\ UNCHANGED task

(* Spark runs the task again from the first row, on a fresh generator. *)
RunAgain ==
  /\ pc = "lost"
  /\ taskFailures < TaskMaxFailures
  /\ pc' = "chunk"
  /\ next' = 1 /\ work' = {} /\ failed' = NoFailures
  /\ current' = NoStatement /\ attempt' = 0
  /\ loopStats' = NoStats /\ stats' = NoStats /\ counters' = NoCounters
  /\ letters' = {}
  /\ tries' = [s \in Statements |-> 0]
  /\ UNCHANGED <<tables, taskFailures>>

Step ==
  \/ TakeChunk
  \/ FastPath
  \/ \E s \in DOMAIN failed : RejectPermanent(s) \/ EnterRetry(s)
  \/ AttemptSucceeds
  \/ AttemptRejected
  \/ AttemptTimesOut
  \/ EndChunk
  \/ Finish
  \/ RunAgain

Next == Step \/ TaskFails

Spec == Init /\ [][Next]_vars
FairSpec == Spec /\ WF_vars(Step)

-----------------------------------------------------------------------------
TypeOK ==
  /\ pc \in {"chunk", "fast", "retry", "loop", "done", "lost"}
  /\ next \in 1..(NRows + 1)
  /\ work \subseteq Statements
  /\ DOMAIN failed \subseteq Statements /\ failed \in [DOMAIN failed -> Reasons]
  /\ current \in Statements \cup {NoStatement}
  /\ attempt \in 0..(Budget - 1)
  /\ loopStats \in RetryStats /\ stats \in RetryStats
  /\ counters \in Counters
  /\ tables \subseteq Statements
  /\ tries \in [Statements -> Nat]
  /\ taskFailures \in 0..TaskMaxFailures

Lettered(r) == \E l \in letters : l.row = r

(* When a partition's outcomes reach the driver, a row without a dead      *)
(* letter is in every table: no statement was dropped between the fast     *)
(* path, the retry path and the dead letters, whatever the errors were.    *)
NoStatementDropped ==
  pc = "done" => \A r \in Rows : Lettered(r) \/ {r} \X Tables \subseteq tables

(* Every statement of a finished partition is counted exactly once, as a   *)
(* written row or as a dead letter; rows without statements have a dead    *)
(* letter each, and those that _validate rejected are counted apart.       *)
EveryStatementCountedOnce ==
  pc = "done" =>
    /\ counters.rows_written
         + Cardinality({l \in letters : l.stage = "cassandra_sink"})
         = Cardinality(Statements)
    /\ counters.validation_rejects = Cardinality(Rejected)
    /\ counters.dlq_emitted = Cardinality(letters)

(* The retry accounting balances at every point: each attempt is one       *)
(* success or one recorded failure reason, each success is one written     *)
(* row, and the two counters of retries spent on recovered writes agree.   *)
AccountsBalance ==
  /\ stats.attempts = stats.successes + Failures(stats)
  /\ loopStats.attempts = loopStats.successes + Failures(loopStats)
  /\ stats.successes = counters.rows_written
  /\ stats.retries = counters.retried_writes_retries

(* A statement that goes through the retry loop is executed at most        *)
(* RETRY_MAX_ATTEMPTS times in one run, the fast path included, and a dead *)
(* letter that claims retries claims exactly the executions there were.    *)
BudgetIsShared ==
  /\ \A s \in Statements : tries[s] <= MaxAttempts
  /\ \A l \in letters :
       l.retry_count > 0 => l.retry_count = tries[<<l.row, l.table>>]

(* What a schedule says is waited before attempt n + 1 is made. *)
Waits[n \in Nat] ==
  IF n = 0 \/ Schedule = <<>> THEN 0
  ELSE Waits[n - 1] + (IF n <= Len(Schedule) THEN Schedule[n] ELSE Schedule[Len(Schedule)])

(* What the loop does: a write that exhausted it has slept through the     *)
(* schedule from its first entry on, once between every two attempts of    *)
(* the loop, the last entry again past the end, and nothing after the last *)
(* attempt (retry.py:105, 146-166).  There is no wait between the fast     *)
(* path and the loop either (cassandra_sink.py:230), so of the documented  *)
(* 1 s, 2 s, 4 s (README.md:121) the last is never slept.                  *)
BackoffIsSlept ==
  \A l \in letters : l.cause = "transient" => l.slept = Waits[Budget - 1]

-----------------------------------------------------------------------------
(* The parts of the inductive invariant behind the properties above.       *)

Open == work \cup DOMAIN failed

(* Where the task is decides which of its collections can be non-empty,    *)
(* and only statements of chunks already taken are open.                   *)
PhaseFits ==
  /\ pc \in {"chunk", "done", "retry", "loop"} => work = {}
  /\ pc \in {"chunk", "done", "fast"} => DOMAIN failed = {}
  /\ pc = "loop" => current \in DOMAIN failed
  /\ pc = "done" => next > NRows
  /\ \A s \in Open : s[1] < next

(* A row that was taken has a dead letter, or each of its statements is    *)
(* applied or still open.                                                  *)
RowsCovered ==
  pc # "lost" =>
    \A r \in 1..(next - 1) :
      Lettered(r) \/ \A t \in Tables : <<r, t>> \in tables \cup Open

(* How often a statement was executed is known from where it is.           *)
TriesKnown ==
  /\ pc # "lost" => \A s \in Statements :
       /\ s \in work \/ s[1] >= next => tries[s] = 0
       /\ s \in DOMAIN failed =>
            tries[s] = IF pc = "loop" /\ s = current THEN attempt + 1 ELSE 1
  /\ \A l \in letters : l.retry_count > 0 =>
       /\ <<l.row, l.table>> \in Statements \ Open
       /\ l.row < next

(* The record of a write in the retry loop has no success yet. *)
LoopOpen == loopStats.successes = 0 /\ loopStats.retries = 0

SinkLetters == {l \in letters : l.stage = "cassandra_sink"}
Taken == {s \in Statements : s[1] < next}

(* Every statement of the rows taken is written, dead-lettered or open,    *)
(* and counted as such.                                                    *)
CountsKnown ==
  /\ IsFiniteSet(letters)
  /\ counters.rows_written + Cardinality(SinkLetters) + Cardinality(Open) = Cardinality(Taken)
  /\ counters.validation_rejects = Cardinality(Rejected \cap 1..(next - 1))
  /\ counters.dlq_emitted = Cardinality(letters)
  /\ \A l \in letters :
       /\ l.row \in 1..(next - 1)
       /\ l \in SinkLetters => <<l.row, l.table>> \in Statements \ Open

(* What a write in the retry loop has slept, and what its dead letter says.*)
BackoffKnown ==
  /\ pc = "loop" => loopStats.backoff = Waits[attempt]
  /\ BackoffIsSlept

(* The inductive invariant of the task. *)
SinkInv ==
  /\ TypeOK
  /\ PhaseFits
  /\ RowsCovered
  /\ NoStatementDropped
  /\ AccountsBalance
  /\ LoopOpen
  /\ TriesKnown
  /\ CountsKnown
  /\ BackoffKnown

-----------------------------------------------------------------------------
(* A run of the task comes to an end: every retry loop is bounded and      *)
(* every failed statement is taken up.                                     *)
TaskEnds == <>[](pc = "done" \/ (pc = "lost" /\ taskFailures = TaskMaxFailures))

-----------------------------------------------------------------------------
(* The task implements the partition contract.                             *)
RowFate ==
  [r \in Rows |-> IF Lettered(r) THEN "failed"
                  ELSE IF r >= next \/ \E s \in Open : s[1] = r THEN "pending"
                  ELSE "stored"]

InTables == {r \in Rows \ Defects : {r} \X Tables \subseteq tables}

Partition == INSTANCE PartitionContract
  WITH PartitionRows <- Rows, DefectiveRows <- Defects,
       fate <- IF pc = "lost" THEN [r \in Rows |-> "pending"] ELSE RowFate,
       inTables <- InTables, returned <- pc = "done"

ImplementsPartition == Partition!PartitionSafety
=============================================================================
