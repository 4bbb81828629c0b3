# Real-Time Data Pipeline: TLA+ development

Specifications, model-checking runs and machine-checked proofs for the trip
pipeline in this repository: `producer/` sends trip events to the Kafka topic
`trips.raw`, `streaming/` moves them to three Cassandra tables in Spark
micro-batches, what cannot be written goes to the dead-letter topic
`trips.dlq`, `replay/` and `airflow/` drain that topic and roll the tables up
into Postgres, and `bench/` runs scenarios and reconciles what came out with
what went in.

All line numbers below are of the repository's files. `PROJECT.json` maps every
definition to the lines it stands for.

## Inventory

| Component | State it keeps | Operations | Interacts with | What is hard | What makes it correct |
|---|---|---|---|---|---|
| Stream driver, `streaming/stream_job.py` | `_max_event_ms`, batch reports (process memory); Spark's offset log and commit log (durable) | `_source`, `_process_batch`, `_write_dlq`, `run` | reads `trips.raw`, runs the partition writer on executors, writes `trips.dlq`, Cassandra | crash between any two steps of a batch; cached frames that are recomputed; three Spark actions over one lazy frame; the watermark is volatile | an offset is committed only over records that are stored or quarantined; a late record is really late; faults cause repetition, never loss; every record is eventually settled |
| Partition writer, `streaming/cassandra_sink.py` | counters, `RetryStats`, yielded outcomes (task memory); tables (durable) | `write_partition`: chunks, validation, fast path, retry path, dead letters | called by the driver per partition; `common/retry.py`, `common/dlq.py`; Cassandra | partial rows, timed-out writes that were applied, errors of neither class, task re-runs | no statement is dropped or counted twice; the attempt budget is shared; accounting balances |
| Retry and backoff, `common/retry.py` | `RetryStats` | `delay_ms`, `call_with_retry`, `merge`, `batched` | used by the partition writer and the producer | boundaries of schedule and budget | attempts = successes + recorded failures |
| Dead-letter record, `common/dlq.py` | none (a record format) | `build`, `summarize` | written by driver, writer, producer; read by the replay tools | fields that decide the replay route | stage and retry_count tell the truth |
| Replay tools, `replay/dlq_tools.py` | none; reads the whole topic each time | `read_all`, `inspect`, `drain` (re-inject, direct write, park) | consumes `trips.dlq`, produces to `trips.raw`, writes Cassandra | amplification by repeated drains, a replay ceiling that never counts, undelivered messages | each dead letter is replayed or parked, and the report says which |
| Drain DAG, `airflow/dags/dlq_drain.py` | XCom values between tasks | inspect, circuit breaker, drain, report | replay tools | the count the breaker checks is stale, task retries repeat a drain | a drain is stopped when the topic is too long; nothing unaccounted |
| Producer, `producer/produce.py`, `producer/events.py` | local librdkafka queue, `_failed_payloads`, counters | `_send`, `_on_delivery`, `_to_dlq`, `_drain_failures`, `run` | `trips.raw`, `trips.dlq` | callbacks during poll and flush, full queue, last flush | an event is acknowledged, quarantined or reported |
| Batch rollup and backfill DAGs, `airflow/dags/trips_*.py` | Postgres tables, audit rows | sensor, extract and load, verify, backfill window | Cassandra, Postgres | the sensor sees a half-written hour; late rows after the rollup; window arithmetic | an hour in Postgres equals the hour in Cassandra |
| Scenario harness, `bench/run_scenario.py` | scenario marks, files of the run | start, wait, inject fault, wait for the drain, reconcile | all of the above | ready marker before offsets are claimed, counts that overlap | a run reports a loss if there was one |
| Throughput sweep and chaos suite, `bench/throughput_sweep.py`, `bench/chaos_suite.py` | report files on disk, list of results | run a scenario, read its report, judge it, conclude | the scenario harness, as a process | missing and stale reports, missing values | a conclusion follows from what was measured |
| Load and analytics benchmarks, `bench/load_analytics.py`, `analytics_bench.py`, `latency_report.py`, ... | none | measurements | databases | none of this kind | not modelled: sequential arithmetic |
| Configuration, metrics | none | environment, gauges | all | none | values are CONSTANTS here |
| Schemas, SQL, scripts, compose | none | declarations | all | none | primary keys make a write an upsert |

## Modules

| Module | Models | Role |
|---|---|---|
| `StreamJob` | the driver, one action per step of `_process_batch`, with Spark's logs, crashes, lost executors and torn writes | core state machine |
| `DeliveryContract` | what the stream promises about each acknowledged record | abstract specification of `StreamJob` |
| `CassandraSink` | `write_partition` at the level of single statements, and the loop of `call_with_retry` | core state machine |
| `Retry` | backoff schedule and accounting record | operators |
| `PartitionContract` | what the driver assumes of a partition's rows (`StreamJob!WriteRow`, `WriteRowTimesOut`, `LoseOutcomes`) | abstract specification of `CassandraSink` |
| `DlqReplay` | `drain` and `read_all`, the tasks of the drain DAG with their retries, and what the stream does to one message between the two topics | core state machine |
| `TripProducer` | the producer's thread with its callbacks, and the client's thread and queue | core state machine |
| `BatchLayer` | the rollup DAG and the backfill DAG side by side, with task retries | core state machine |
| `ScenarioRun` | one run of the harness, the stream's marker files and the producer as it sees them | composition of three processes over files and topics |
| `BenchSuite` | throughput sweep and chaos suite over scenarios | state machine |
| `StreamJobProofs` | theorems about `StreamJob` | proofs |
| `CassandraSinkProofs` | theorems about `CassandraSink` | proofs |
| `DlqReplayProofs` | theorems about `DlqReplay` | proofs |
| `TripProducerProofs` | theorems about `TripProducer` | proofs |
| `BatchLayerProofs` | theorems about `BatchLayer` | proofs |
| `ScenarioRunProofs` | theorems about `ScenarioRun` | proofs |
| `MC...`, one for each of the seven state machines | constant values | model checking |

Each core module holds, next to an action, the slightly wrong variants of it
(comments that begin with *Mutant*). They are used by no specification: they are
substituted for the action to see that a property can fail.

### StreamJob

| Code | Model |
|---|---|
| records of `trips.raw` in offset order | `topic`; offsets are numbered from 1, the partitions' ranges flattened |
| offset log, commit log of the checkpoint | `planned`, `committed` |
| position in `_process_batch` | `stage` |
| `good` and the cached `outcomes` frame | `rows`: offset to pending, stored, failed |
| `_max_event_ms` | `hwm` |
| rows complete in all tables | `stored` |
| records in `trips.dlq` with their `failure_stage` | `quarantined` |

The order of the actions is the order of the code: plan (Spark), unparseable
rows to the DLQ, late rows to the DLQ and the filter on the cutoff, the writes
that `collect()` forces, the count, the DLQ rows of the sink, the watermark,
and the return that lets Spark write the commit log. `DriverDies` covers a
killed process, a graceful stop (which interrupts the running batch in the same
way) and an exception out of `foreachBatch`, which ends the query and with it
`run()`. `LoseOutcomes` covers a task retry and an executor that dies with its
cached blocks. `TornDlqWrite` covers a Kafka write that is repeated after part
of it was delivered. A row that fails in the sink stands for its one or more
dead letters (one per failed statement, see `CassandraSink`). `WriteRowTimesOut`
covers the last write of a row that times out although it was applied: the row
is complete in the tables and dead-lettered in one pass; it counts among the
faults that bound redelivery.

Event times are small numbers; a null `event_time` is `NoTime`, and the two
comparisons with the cutoff are both false for it, as in SQL. Not modelled: the
empty-batch early return (a planned batch is never empty for this source),
`failOnDataLoss` (no retention in the model), the windowed rollup query, the lag
monitor, the summary. The starting offsets, the marker files and the progress
file that `_record_batch` appends to are in `ScenarioRun`.

### CassandraSink

| Code | Model |
|---|---|
| rows of a partition, statements of a row | `Rows`, `Statements` = valid rows times tables |
| chunk loop, `work` | `next`, `work` |
| `failures` with the first exception | `failed`: statement to class of error |
| `call_with_retry`: `attempt`, `attempt_stats` | `attempt`, `loopStats` |
| `stats`, integer counters, yielded dead letters | `stats`, `counters`, `letters` |
| Cassandra | `tables`: the statements applied |

Exceptions are told apart as the code does: `transient` is RETRYABLE,
`permanent` is PERMANENT, `unclassified` is neither. A transient or unclassified
failure may have been applied. The failures of a chunk are taken in any order
(the code uses list order; statements are independent). Latency sampling, the
session and the CQL are left out; jitter is left out of the delay.

A defective row is either one `_validate` rejects (`Rejected`) or one that raises
something else while its statements are built (`Malformed`: a text that is not a
UUID, a time that is not a datetime). Both are dead-lettered, only the first is
counted as a validation reject (`cassandra_sink.py:258-272`).

`CassandraSink` is shown to implement `PartitionContract`, and the rows of a batch
in `StreamJob` behave as it says: `WriteRow` with "stored" or "failed",
`WriteRowTimesOut` where the write that made the sink give up was applied (the
contract allows a failed row in the tables), `LoseOutcomes` where a task is lost.
`WriteRow` alone is not all of it.

### DlqReplay

| Code | Model |
|---|---|
| messages of `trips.raw` the stream has not committed | `raw`, a number for each event, not told apart above `MaxCopies` |
| messages of `trips.dlq` | `dlq`, a set of letters; the copy number tells apart letters of one stage and event |
| rows complete in Cassandra, files of `--park-dir` | `tables`, `parked` |
| events the watermark has left behind | `old` |
| task of the DAG run, its retries, XCom of `inspect_dlq` | `dag`, `tries`, `inspected` |
| position in `drain`, the letters read, errors of callbacks and writes | `step`, `work`, `failed` |
| messages in the producer's queue after `flush(60)` | `unflushed` |

`acked`, `offered` and `replays` are histories. An event has a kind: `clean` can be
written, `refused` is rejected by Cassandra every time, `defective` fails
`_validate`, `garbled` does not parse. `healthy` stands for brokers and
Cassandra answering in time: while it is false a read of the topic may stop
early, a callback may report an error, a message may stay in the queue, a direct
write may fail after it was applied, and a task may die. The stream is reduced
to what it does to one message (`StreamHandles`, in the order of
`_process_batch`): a row that is not written has up to `Statements` letters, one
for each statement that failed, and may be in the tables all the same. The batch
is then committed (`StreamReads`), or it is begun again after a crash, or after a
dead-letter write that failed, and its letters are written again
(`StreamStartsOver`). In the beginning an event is on `trips.raw`, lettered by the
producer, or both, since a message that expired in the client may be on the topic.
`StreamRestarts` forgets the watermark as `StreamJob!DriverDies` does, and
`GrowsOld` lets the watermark pass an event at any time.

Left out: `--dry-run`, `--limit`, report files, the text of `inspect`, letters
that are not JSON (they are parked like `parse`), the retention of `trips.dlq`
(7 days against a drain every 15 minutes), alerts, and a drain that goes on inside its container after the time-out of
`docker exec`. The letters of one stage and event are bounded by `MaxCopies`, the
histories by `MaxHistory` (`offered`) and `MaxCounted` (`replays`, which only
`ReplayCeiling` reads).

### TripProducer

| Code | Model |
|---|---|
| `generated + dup_emitted`, the payload in hand | `last`, `dups`; `pc = "send"` |
| failed attempts of `_send` | `tries` |
| librdkafka's queue, bounded by `queue.buffering.max.messages` | `queue` |
| delivery reports that wait for `poll` or `flush` | `delivered`, `expired` |
| `acked`, `failed`, `_failed_payloads`, `dlq_count` | `acked`, `failed`, `failedPayloads`, `lettered` |
| what the log calls `EVENT LOST` | `lost` |
| messages on the brokers | `stored` |

A poll serves every waiting report, so callbacks run in `IdlePoll`, `QueueFull`,
`QueueStaysFull`, `EndBurst` and `FlushServes`, also in the middle of a burst. A
dead letter is sent through the same queue without a callback. The client
(external) persists, acknowledges and expires messages in its own time; an
expired message may be on the topic. A fatal error (idempotent producer) makes
every later `produce()` raise. Counters are sets of payloads, which is what lets
`ReportAddsUp` see double counting. Left out: the content of an event, pacing,
statistics callbacks, metrics.

### BatchLayer

| Code | Model |
|---|---|
| rows of `trips_by_city_hour`, of `trips_rollup_stage` | `cassandra`, `stage` |
| task instance of the rollup, its retries, the XCom of the extract | `rollup`, `hour`, `tries`, `rows` |
| task instance of the backfill, `hour` of the loop, `empty_hours`, `rows_*` | `backfill`, `window`, `btries`, `cursor`, `empty`, `found` |
| `backfill_audit` | `audit`, in the order of the ids |

Time is in half hours, so that windows need not be aligned. The eight reads of an
hour, one per city, are one action that returns everything that was there when
it began and any part of what has landed since. A task may die at any point,
also between its commit and its result; it is run again from its start, and
`verify_hour` with the XCom of the extract that is not run again.

Rollup runs are those of the schedule, whose hour has closed. A manual run or
`airflow dags test` (`airflow/dags/README.md:61`) may name an hour that is still
open; such a run is not modelled, and that the hour of a rollup has closed
(`TypeOK`) is a statement about scheduled runs only.

### ScenarioRun

| Code | Model |
|---|---|
| position in `Scenario.run`, in the `finally` | `pc`, `failing` |
| ready file, stop file, progress file, lag file, producer report | `ready`, `stopFile`, `consumed`, `lag`, `producerFile` |
| the driver with its executors, the first offset it claims, its batch | `driver`, `start`, `position`, `batch`, `written` |
| numbers of `build_report` in the order they are taken | `tally` (`InspectLetters`, `CountTables`), `report` (`BuildReport`) |
| `stop_stream` has given up on a driver that was alive | `abandoned` |
| `raw_before`, `trips_before`, target, stable polls | `before`, `target`, `stable` |
| `trips.raw`, rows, dead letters, dead-letter messages | `raw`, `table`, `letters`, `dlqMessages` |

The stream may turn a record into a row, a dead letter, both or neither: which
of these happen is `StreamJob`'s business, finding out is the harness's. `Setup`
may fail in each part, because the code only logs that; `dirty` is what an
earlier run leaves. Each wait of the harness may time out at any moment.

When the driver has not ended after 180 seconds, `pkill` is sent to it
(`KillStream`), and if it does not end in 30 more, or the command that sends it
fails, only the `docker exec` client is gone (`StreamSurvives`): the driver goes
on, possibly while the report counts, and the model lets it. The inspection of
the dead letters may fail, and one that exits 0 may have seen any number of the
event ids: `inspect --idle-timeout 4` stops after four seconds without a message,
and does not count letters without an event id.

The chaos thread (`inject_fault`) is not modelled. It kills and restarts
containers; what that can do to the harness is a driver that exits, a producer
that crashes and a query that fails, and each of these may happen in the model at
any time. What the thread finds goes into the report unread, and `run` waits for
it no longer than 300 seconds.

### BenchSuite

`disk` is the report file of each run id, `scratch` says whether it was empty in
the beginning. A scenario writes its report, fails without one, or hangs until
`subprocess.run` raises. Rates are in tenths of events per second, since the run
id is `int(rate)`; two rates with one id are excluded by `SuiteAssumption`. A
step report is reduced to which of the five criteria it meets.

## Runs

| Run | Question | Bounds and why they are enough |
|---|---|---|
| `stream_safety` | Is anything lost, late without cause, or repeated without a fault; does the driver implement the delivery contract; does every record get settled? | 3 records of 6 kinds (three event times around the lateness, null time, garbled, defective; the sink may refuse any), batches of 2, 2 faults: two batches, so a watermark can condemn a later batch; one fault during the re-run of another |
| `stream_null_time` | README's "zero silent loss" for a record without event time | no fault needed |
| `sink_safety` | Is any statement dropped or miscounted, does the accounting balance, does the task implement its contract and end? | 5 rows in chunks of 2, rows 2 to 4 defective and row 3 malformed: a chunk with a row that fails validation, one that is empty of work, and a short last one; 2 tables, so a row can be half written; 3 attempts, so the loop goes round; 1 re-run |
| `replay_safety` | Does a drain that claims to be complete tell the truth, does every DAG run end, is a writable event recovered in the end? | a clean and a garbled event, so a drain has every route; a ceiling of 3 that the letters exceed; 1 letter per stage and event; no batch begun again (histories up to 1; `replay_letters` has them); 1 task retry with the stale inspection; the cluster may fail and recover any number of times |
| `replay_letters` | How fast can repeated drains, and batches begun again, multiply letters? | 1 clean event of 2 statements; 2 letters per stage, 2 messages of it on the topic at once, histories up to 3: a re-injection beside a batch that is begun again; 1 task retry; a ceiling of 4 that the letters exceed |
| `replay_ceiling` | "A `replay_count` ceiling" | 1 event Cassandra refuses, the default 3 replays |
| `producer_safety` | Is a payload ever in nobody's hands, does the report add up, are failures drained, does the run end? | 3 payloads in a queue of 2: a send meets a full queue, and so does its dead letter; 2 attempts |
| `producer_silent` | "If the DLQ itself is unwritable the loss ... must be" loud | 1 payload suffices |
| `batch_safety` | Are a verified hour and a closed window loaded, is the audit honest, does every run end? | 3 trips in two hours, one in the second half of the first; 5 windows (one hour, two, unaligned, too long, reversed); 1 retry, 1 backfill beside the rollups of 2 hours |
| `scenario_safety` | Does the harness count at rest, is drained complete, is a reported loss real and a real one reported, does the harness end? | 2 events from a clean start; 1 event after leftovers that are purged or kept; 1 duplicate, so messages differ from events; batches of any size; an inspection may see any number of the letters |
| `scenario_masked` | "Loss is therefore measured against the UNION" | 2 events from a clean start: one with both, one with neither |
| `suite_safety` | Does what sweep and chaos suite conclude follow from what was measured? | 4 rates that are not in order and a stop after 2 failures: a failed step below, between and above sustained ones; 2 scenarios and 2 arms, each run twice, so one of two may fail |

`stream_safety` uses the default late policy `dlq`; `drop` and `process` are
covered by the proofs, which hold for every policy.

Deadlock is checked for the replay, which is scheduled for ever. It is not
checked elsewhere, because these models may really stop: the topic of a model is
finite, a finished partition has no next step, producer, harness and suites are
programs that end, and the batch layer's clock and trips are bounded.

### Properties

* `NoSilentLoss`: below the committed offset a record is in every table, in the
  dead letters, or *forsaken*. `Forsaken` says precisely what the code gives up:
  overtaken records under a policy that is neither `dlq` nor `process`, and,
  under every policy but `process`, records with a null event time that may
  share a batch with a late record (one lies less than `MaxBatch` offsets away).
* `ZeroSilentLoss` is README.md:82-83 without that exception, and fails.
* `LateIsJustified`: a record quarantined as late was overtaken by a record
  *before* it in the topic.
* `WatermarkIsHistory`: the watermark that judges a batch is the maximum over
  the batches this process committed, and only over those.
* `BoundedRedelivery`: a record has at most one fate more than there were faults,
  where a write that times out although it was applied is a fault too.
* `EveryRecordSettles`: if the driver is eventually up for good, every record of
  the topic settles.
* `NoStatementDropped`, `EveryStatementCountedOnce`, `AccountsBalance`,
  `BudgetIsShared`, `TaskEnds`: see the comments in `CassandraSink`.
* `DrainIsHonest`: when the accounting of a drain comes to zero unaccounted,
  every letter it read is on `trips.raw`, in the tables or in the parked file,
  except what `flush(60)` left behind.
* `LettersArePaidFor`: the stream's letters of an event never exceed one for each
  statement of each message of it that was put on `trips.raw`, and of each batch
  with one that was begun again; a message that still waits can yield as many.
  Drains that fail, are retried or repeat old work do not add letters in any
  other way.
* `EventuallyRecovered`: if the cluster is eventually healthy for good, every
  event that can be written reaches the tables, if the letters stay within the
  ceiling of the breaker (nothing leaves the topic, so above it no drain ever
  runs), although a re-injected event may have become late by the time the stream reads it again. This is what the
  routing of late events past the watermark is for.
* `RunsEnd`: a DAG run ends; with `max_active_runs=1` a run that does not end
  stops all later drains.
* `NoPayloadForgotten`: at every moment a payload is in the hands of `_send`, in
  the client or counted, and one that failed waits, is a dead letter or was
  logged as lost, however polls, bursts and the full queue interleave.
* `ReportAddsUp`: acknowledged, lettered, lost, left in the client and failed too
  late add up to what was sent, and acknowledged means on the brokers.
* `FailuresAreDrained`: the producer ends, and a failed payload is dealt with
  before, unless its report came with the very last flush.
* `VerifiedIsExact`: `verify_hour` compares two counts; when it succeeds the two
  sets are the same and hold all that had landed when the extract began, and when
  it does not, Postgres has a surplus.
* `DriftIsForGood`: no retry of `verify_hour` can succeed after the first
  failure, since the extract is not run again.
* `ClosedWindowIsLoaded`: a backfill that begins on the hour has loaded, when it
  comes to its audit row, all that Cassandra held when the attempt began.
* `AuditIsHonest`: an attempt of `plan_window` adds at most one row, a run closes
  at most one.
* `BatchRunsEnd`: no run of either DAG waits without end.
* `QuietAtReport`: nothing is written to topics or tables while letters, rows and
  offsets are counted one after the other, although the driver's `main` may remove
  the stop file it was given, *if* the stream is `Settled`: it was seen to end, or
  it has nothing left to read. A driver that survives `pkill` with a backlog does
  write while the report is built, and outlives the run.
* `DrainedIsComplete`: two sums are compared, and the ready file is written before
  the stream has claimed an offset; nevertheless drained means that everything
  since the snapshot was read (unless a checkpoint survived the clean-up).
* `LossIsReal`, `LossIsNamed`: the residual never exceeds the events that have
  neither row nor dead letter plus the letters that the inspection missed, and
  equals the former if it missed none and nothing stands in for an event
  (`CleanCounts`, no event with both). `SilentLossIsNamed` drops the last
  condition, and fails.
* `HarnessEnds`: the harness ends whatever the processes it watches do.
* `SweepHeadline`: the sustained rate is the highest such that it and all lower
  rates that were run held, and on an empty disk it was measured by this sweep.
* `RecoveryIsMeasured`, `ReductionHasBothArms`: a scenario is only said to have
  always recovered if every repeat reported so, and a reduction is only reported
  if both arms were measured and never with the wrong sign.
* `StreamInv`, `SinkInv`, `ReplayInv`, `ProducerInv`, `BatchInv`, `ScenarioInv`,
  `SuiteInv`: the inductive invariants of the proofs, checked on the same runs;
  each has the module's `TypeOK` as its first part.

### Fairness

`StreamJob!FairSpec` is weakly fair in the driver's own steps: Spark's query
thread runs whenever it is active. It is not fair in `Produce` (nobody must send)
and not in `Restart`: no script restarts a dead driver, so `EveryRecordSettles`
has the driver being up for good as its premise. `CassandraSink!FairSpec` is
weakly fair in the steps of the task; a call to Cassandra returns or raises
because the session has a request timeout, and Spark runs a failed task again.
`DlqReplay!FairSpec` is weakly fair in the DAG (Airflow's scheduler starts and
retries tasks, `subprocess.run` has a time-out) and in the stream reading each
record. It is not fair in anything of the environment: nobody must repair the
cluster, restart the driver or deliver a message after its flush.
`TripProducer!FairSpec` is weakly fair in the producer's thread, which never
waits without a time-out, and in nothing the client or the brokers do: a flush
may end with every message still queued. `BatchLayer!FairSpec` is weakly fair in
the tasks of each DAG (the scheduler starts what is ready, a sensor has a
time-out), not in the clock, in trips that land or in an operator who triggers a
backfill. `ScenarioRun!FairSpec` is weakly fair in the harness alone: each of
its waits has a time-out, and stream, producer and brokers may do nothing for
ever. `BenchSuite` has no liveness property: it runs a list.

## What the runs found

1. `stream_job.py:249`: a record whose `event_time` is null vanishes when its
   batch holds a late row (`stream_null_time`).
2. `dlq_tools.py:211`: `replay_count` is compared with a ceiling and incremented
   nowhere (`replay_ceiling`).
3. `produce.py:176`: a dead letter of the producer that the client accepts and
   cannot deliver is counted and never mentioned (`producer_silent`).
4. `run_scenario.py:540`: the residual subtracts a sum, not the union, so an event
   that has both a row and a dead letter hides one that has neither
   (`scenario_masked`).

Divergences the models have as the code does, without a run of their own. A
first group contradicts a comment or a document:

* `stream_job.py:111`: the watermark is lost on restart, so the "max event time
  seen up to batch N-1" is that of this process (`DriverDies`).
* `cassandra_sink.py:230`: with `RETRY_MAX_ATTEMPTS=1` two attempts are made.
* `cassandra_sink.py:230`: of the documented delays of 1 s, 2 s and 4 s
  (README.md:121, 210 and cassandra_sink.py:133-134) the last is never slept, since
  the loop has one attempt less than the budget and nothing is slept between the
  fast path and the loop (`SinkBackoffSlept` says what is slept).
* `run_scenario.py:121`: an inspection of `trips.dlq` that stops early exits 0
  (dlq_tools.py:82-88), does not count letters without an event id (116), and what
  it missed is reported as loss, while run_scenario.py:588 says that a positive
  value is real (`InspectLetters`; `Missed` in `LossIsReal`).
* `run_scenario.py:424`: a batch that was written before the fault and recorded
  after it counts as the recovery, while 416-417 speak of processing data *again*
  (`_await_recovery` is not modelled).
* `dlq_tools.py:182`: a late record that is also defective fails its direct write
  on every drain and is never parked (dlq_drain.py:15 says it would be); with it
  the task fails.
* `dlq_tools.py:255`: messages left in the queue by the flush are reported as
  re-injected.
* `dlq_drain.py:76`: the breaker bounds what was inspected, not what is drained
  (`DrainReads` has no ceiling), and it counts the letters of events that were
  recovered long ago, because `read_all` starts at offset 0.
* `trips_backfill.py:164-168`: the number of empty hours is compared with the
  rounded number of hours: a window of less than an hour alerts although it was
  loaded, and one that does not begin on the hour finds no partition at all and
  does not alert.
* `trips_backfill.py:67`: `MAX_HOURS` is checked against the rounded number, so
  the loop may take one hour more.

A second group is behaviour worth knowing:

* `stream_job.py:262`: statistics and dead letters may come from different
  passes when a cached partition of the outcomes is lost between `collect` and
  `count` (`LoseOutcomes`); `NoSilentLoss` holds all the same.
* `cassandra_sink.py:318`: a permanent error of the fast path is quarantined with
  `retry_count=0` after one attempt (`RejectPermanent`).
* `dlq_drain.py:94`: a drain that raises after it has parked records never reaches
  `report_drain`, so these records raise no alert (`DrainShort`).
* `trips_batch_rollup.py`: with `MIN_ROWS_TO_PROCEED = 1` a half-written hour
  passes the sensor, rows that land later are only picked up by a backfill, and
  with `catchup=False` an hour that closes while a run is busy is skipped
  (`ScheduleRollup`). A backfill of the same hour makes a false drift alarm.
* `trips_backfill.py:83`: an attempt that dies after its commit leaves an audit
  row that is never closed.
* `cassandra_sink.py:266-272`: a malformed row is dead-lettered and not counted as
  a validation reject (`TakeChunk`).
* `cassandra_sink.py:330-342`: a row whose last write timed out and was applied is
  in the tables and in the dead letters (`WriteRowTimesOut`).
* `run_scenario.py:275-281`: a driver that does not end within 30 seconds of
  `pkill` goes on in its container (`StreamSurvives`).
* `run_scenario.py:641`: a chaos thread that is given up dies
  with the program and leaves its targets down.
* `run_scenario.py:271`: a stop file written before the driver's `main` removes
  its files goes with them; only the `pkill` after 180 seconds may end the stream.
* `run_scenario.py`: a checkpoint, rows or letters that survive a failed clean-up
  (which is only logged), a count of -1, and a missing or old producer report
  make the residual mean nothing; `Sound` and `CleanCounts` name the conditions.
* `throughput_sweep.py:167`: a step without a report has no `failed_because`, and
  the sweep ends with a `KeyError` (`JudgeNothing`); 70-77: a report left by an
  earlier sweep stands in for a scenario that failed.
* `chaos_suite.py`: a missing loss counts as zero in `zero_silent_loss_every_run`
  and is left out of the means; `RecoveryIsMeasured` says what can be concluded.

## Proofs

Every safety invariant and every action property of the passing runs is a
theorem, as are both refinements; the runs show them on small instances, the
theorems for all constants that satisfy the module's assumption. Each proof has
the same form: an inductive invariant, stated as a conjunction of named parts in
the component's module and checked by its run, one case for each action, and the
property as a consequence.

`StreamJobProofs`, from `StreamAssumption` (event times are naturals or null, the
batch size is positive, the late policy is `dlq`, `process` or anything else,
here `drop`):

* `StreamTypeCorrect`: `Spec => []TypeOK`
* `StreamInvariant`: `Spec => []StreamInv`
* `StreamLosesNothing`: `Spec => []NoSilentLoss`
* `StreamLateJustified`: `Spec => []LateIsJustified`
* `StreamRedeliveryBounded`: `Spec => []BoundedRedelivery`
* `StreamWatermarkHistory`: `Spec => []WatermarkIsHistory`
* `StreamImplementsContract`: `Spec => ImplementsContract`

`NoSilentLoss` is not inductive: `CommitBatch` moves the offset over a whole
batch, so the invariant has to say that the batch is safe by then. `StreamInv`
adds `FrameCovers` (what has left the good frame is safe; an outcome "stored" is
backed by the tables; after the sink's dead letters the whole batch is safe),
`BatchOpen` (a batch is in progress exactly when planned and not committed, and
holds at most `MaxBatch` records) and `WatermarkSeen` (the watermark is the time
of a record of an earlier batch), which makes a late row an overtaken one.
`CoverStep` has one case per action; monotonicity of the tables, the dead letters
and the topic (`DurableGrows`) carries safety across every other step. In the
refinement, forsaken records count as settled from the moment their batch is
planned; there are none when every event has a time and the policy is `dlq` or
`process`.

`BoundedRedelivery` compares the fates of a record with the faults so far, but
what a batch will still write has to be paid for as well: `FatesPaid` says that a
record that waits for its outcome, or for its dead letter, has one fate less than
that, so that there is room for one more, and that a driver that is down has had the fault that pays for
taking up its batch again. `WatermarkIsHistory` needs `WatermarkLatest`: the
watermark is the time of a record of a completed batch, and no record of one, and
none that was filtered out of the running batch (`Filtered`), is newer; so the
maximum over the rows that are left, with the watermark, is the one over all.

`CassandraSinkProofs`, from `SinkAssumption`:

* `SinkTypeCorrect`: `Spec => []TypeOK`
* `SinkInvariant`: `Spec => []SinkInv`
* `SinkDropsNothing`: `Spec => []NoStatementDropped`
* `SinkBalances`: `Spec => []AccountsBalance`
* `SinkCountsOnce`: `Spec => []EveryStatementCountedOnce`
* `SinkBackoffSlept`: `Spec => []BackoffIsSlept`: a write that exhausted the retry
  loop has slept the schedule from its first entry on, once between every two
  attempts of the loop, its last entry again past the end, and nothing else; a
  part of `SinkInv`, but the loop of the run has one sleep, so for longer
  schedules this is the theorem's word and not the run's
* `SinkBudgetShared`: `MaxAttempts >= 2 => (Spec => []BudgetIsShared)`; with one
  attempt it is false (two are made, see above)
* `SinkImplementsPartition`: `Spec => ImplementsPartition`

`NoStatementDropped` speaks of a finished partition, so `SinkInv` says for every
point of the task what is still open: `PhaseFits` (which variables a phase
leaves empty), `RowsCovered` (every row taken so far has a letter, or all its
statements are in the tables or still open in this chunk), `TriesKnown` (the
number of executions of a statement follows from where it is) and `LoopOpen`.
`AccountsBalance` is a sum over four disjoint classes of results; a lemma on the
cardinality of a set split in four carries it over the fast path.
`EveryStatementCountedOnce` is the end of `CountsKnown`: at every point the rows
counted as written, the sink's dead letters and the statements still open add up
to the statements of the rows taken so far.

`BackoffIsSlept` sums a schedule with the recursive function `Waits`. That it
satisfies its equation has to be proved, since a recursive function is a `CHOOSE`:
`SumsExist` and `WaitsSolvable` construct a solution from partial sums, by a
minimal counterexample (`LeastElement`, from the library's `WFMin`) where one
would use induction. `BackoffKnown` then ties the time slept to the attempts made.

In the refinement of `PartitionContract` a row has a fate when all its
statements are decided. One step of the task may decide several rows (a chunk of
the fast path) or none, and the loss of a task forgets fates and not tables;
`PartitionStep` has one case for each of these.

`DlqReplayProofs`, from `ReplayAssumption` (finitely many events of the four
kinds, any ceiling, retries and bounds):

* `ReplayTypeCorrect`: `Spec => []TypeOK`
* `ReplayInvariant`: `Spec => []ReplayInv`
* `ReplayHonest`: `Spec => []DrainIsHonest`
* `ReplayPaidFor`: `Spec => []LettersArePaidFor`

`DrainIsHonest` only speaks of the result, so `DrainFits` says after each part
of `drain` what has become of the letters of its route. The rest is arithmetic:
`UnaccountedIsFailed` shows that the subtraction of the code equals the number
of failed letters of the two routes, so zero means that there is none.
`LettersArePaidFor` is inductive by itself: a message that is committed leaves
`trips.raw` for the letters it adds, a batch that is begun again and a message that
is put on the topic are counted; the rest is the cardinality of the letters that
the next copy numbers add.

`TripProducerProofs`, from `ProducerAssumption` (any number of events, any size
of the local queue, any number of attempts):

* `ProducerTypeCorrect`: `Spec => []TypeOK`
* `ProducerInvariant`: `Spec => []ProducerInv`
* `ProducerForgetsNothing`: `Spec => []NoPayloadForgotten`
* `ProducerReportAddsUp`: `Spec => []ReportAddsUp`

`NoPayloadForgotten` only needs `InBurst` (a payload is in hand where one is
sent) to be inductive (`HandInv`); `ToDlqKeeps` and `ServedIsCounted` say what the two calls
shared by many actions, a dead letter and a round of callbacks, do to it. It is a
covering; that the numbers of the report *add up* also needs the parts to be
disjoint, which the rest of `ProducerInv` states: `CountsApart` (no payload is
counted twice), `FatesApart` (nor is a failed one listed and quarantined) and
`ReportsTrue` (a report the client holds agrees with the brokers).

`BatchLayerProofs`, from `BatchAssumption` (finitely many trips at any event
times, any windows, retries and backfills):

* `BatchTypeCorrect`: `Spec => []TypeOK`
* `BatchInvariant`: `Spec => []BatchInv`
* `BatchWindowLoaded`: `Spec => []ClosedWindowIsLoaded`
* `BatchAuditHonest`: `Spec => []AuditIsHonest`
* `BatchVerifiedExact`: `Spec => VerifiedIsExact`
* `BatchDriftForGood`: `Spec => DriftIsForGood`

`BatchInv` adds to the types `ExtractLoaded` (what the extract returned is in the
stage), `LoadedToCursor` (a backfill of a window on the hour has loaded everything
before its cursor) and `AuditAccount`. One half of the layer relies on the other
only for this: the clock and the two tables grow (`TablesGrow`, `RollupKept`,
`BackfillKept`). `HourlyCounts` turns the two counts of `verify_hour` into sets:
the rows extracted are a subset of the rows loaded, so that equal counts mean
equal sets, and a difference, once there, can only grow. `AuditIsHonest` bounds
two counts over all backfills by the number of backfills; `AuditAccount` says what
the current run has used of its share (its attempts, and whether its row is
closed), so that the bound survives the next `Trigger`: a run that has its row has
`backfills - 1` others to share the closed rows among.

`ScenarioRunProofs`, from `ScenarioAssumption` (any settings, numbers of events
and duplicates, any number of confirming polls):

* `ScenarioTypeCorrect`: `Spec => []TypeOK`
* `ScenarioInvariant`: `Spec => []ScenarioInv`
* `ScenarioQuietAtReport`: `Spec => []QuietAtReport`
* `ScenarioDrainedComplete`: `Spec => []DrainedIsComplete`
* `ScenarioLossReal`: `Spec => []LossIsReal`
* `ScenarioLossNamed`: `Spec => []LossIsNamed`

`Phases` says which processes are alive at each point of the harness (the driver,
beyond its end, only if the harness has given up on it), `Claimed`
that a stream without a checkpoint claims its first offset after the snapshot was
taken, and `SumsMet` that the sums of `wait_for_drain` still hold when the verdict
is used. Completeness is then arithmetic: what was consumed is at least what was
produced since the snapshot, and cannot be more unless the stream began before it.
For the loss, `Counts` says what each number of the reconciliation is worth (the
messages since the snapshot are at most the new events and the duplicates, the
rows and letters there before are of the earlier run, a producer report that says
so is of this run), and `Reported` that each number of the tally, and the report
made of them, is of the state it was taken in, since with a settled stream nothing
moves while or after the harness counts. A residual is a difference of such numbers; lemmas on
the cardinality of unions bound it by the events with neither row nor letter.

`BenchSuiteProofs`, from `SuiteAssumption` (rates and scenarios in any order, no
two with the same run id; any repeats, any number of failures to stop after):

* `SuiteInvariant`: `Spec => []SuiteInv`
* `SuiteSweepHeadline`: `Spec => []SweepHeadline`
* `SuiteRecoveryMeasured`: `Spec => []RecoveryIsMeasured`
* `SuiteReductionBothArms`: `Spec => []ReductionHasBothArms`

`SuiteInv` says how far the suite is (`Progress`), that each result is of the run
at its place in the plan (`FollowsPlan`), that on an empty disk there are only
reports of runs that are done, so that a report that is found was measured
(`Fresh`), and that the conclusion is the one the results give (`Drawn`).
`IdsDiffer` shows that no two runs of the plan share an id: scenario, repeat and
arm come out of one number by division. The rest is about the conclusions.
`RankTaken`: the steps have different rates, so "has i - 1 slower steps" is a
bijection and sorting is well defined; the prefix that is sustained is then the
set of steps that hold. `RowOf`: the runs of a scenario are one row of `Repeats`
places. `SumBounds`: what `FoldSet` adds up lies between the number of terms times
any lower and any upper bound of them, from which the sign of a difference of
means follows without the means.

Only model-checked are the liveness properties `EveryRecordSettles`, `TaskEnds`,
`EventuallyRecovered`, `RunsEnd`, `FailuresAreDrained`, `BatchRunsEnd` and
`HarnessEnds`: they need fairness, that is `ENABLED`, which the prover does not
reason about. The theorems of the library on induction take an operator as a
parameter and cannot be used either; where a proof needs induction over numbers
or over the size of a set it takes a least counterexample.

## Not modelled

* `bench/load_analytics.py`, `analytics_bench.py`, `latency_report.py`,
  `partition_skew.py` and the query scripts: they load tables or time queries one
  after the other and compute percentiles; no state of their own, nothing
  concurrent, nothing retried.
* Configuration, metrics, schemas, compose files, start-up scripts: declarations.
  The values that matter are CONSTANTS, the primary keys make a write an upsert.
* `inject_fault` and `_await_recovery` of the harness (see `ScenarioRun`).
* Of the modelled components: the windowed rollup query, the lag monitor, the
  summary and `failOnDataLoss` of the stream; latency sampling and the CQL of the
  sink; `--dry-run`, `--limit` and the text of `inspect`; alerts and SLA callbacks
  of the DAGs; a drain that outlives the time-out of `docker exec`
  (`dlq_drain.py:50`); the text of reports and printed tables.

## Plan

1. `StreamJob`, `DeliveryContract`, `StreamJobProofs`: done.
2. `CassandraSink`, `Retry`, `PartitionContract`, `CassandraSinkProofs`: done.
3. `DlqReplay`, `DlqReplayProofs`: done. Open: an abstract specification (an
   event is pending, quarantined, recovered or parked) that it implements, two
   drains at a time.
4. `TripProducer`, `BatchLayer`, `ScenarioRun` and
   `BenchSuite`, with their proofs: done.
5. Proofs of all safety properties of these modules: done.
6. The route of an event through the replay as an abstract specification with a
   proof that `DlqReplay` implements it (see 3).
7. `Pipeline`: producer, stream and replay composed over the two topics, with
   the end-to-end property that an acknowledged event reaches the tables or the
   parked file.
