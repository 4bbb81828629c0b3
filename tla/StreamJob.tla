----------------------------- MODULE StreamJob -----------------------------
(***************************************************************************)
(* The Spark Structured Streaming driver of src/streaming/stream_job.py:   *)
(* one query that reads trips.raw in micro-batches and runs                *)
(* TripStream._process_batch on each of them.  The records of the topic    *)
(* are numbered from 1; the per-partition offset ranges of a batch are     *)
(* flattened to one interval of that numbering.                            *)
(*                                                                         *)
(* Durable state: the topic, Spark's offset log (planned) and commit log   *)
(* (committed), the Cassandra tables (stored) and the dead-letter topic    *)
(* (quarantined).  Everything else is memory of the driver process and of  *)
(* the executors, and is gone after DriverDies.                            *)
(***************************************************************************)
EXTENDS Integers, Sequences

CONSTANTS
  Events,       (* the records the producer may append                      *)
  NoTime,       (* a null event_time, and a watermark that is None          *)
  MaxRecords,   (* bound: records appended to the topic                     *)
  MaxBatch,     (* maxOffsetsPerTrigger                                     *)
  Lateness,     (* allowed_lateness_sec                                     *)
  LatePolicy,   (* LATE_EVENT_POLICY                                        *)
  MaxFaults     (* bound: crashes, lost executors, torn DLQ writes, and     *)
                (* writes that time out although they were applied          *)

Kinds == {"unparseable", "defect", "clean"}

ASSUME StreamAssumption ==
  /\ NoTime \notin Nat
  /\ Events \subseteq [kind : Kinds, time : Nat \cup {NoTime}]
  /\ MaxRecords \in Nat
  /\ MaxBatch \in Nat \ {0}
  /\ Lateness \in Nat
  /\ LatePolicy \in {"dlq", "process", "drop"}
  /\ MaxFaults \in Nat

VARIABLES
  topic,        (* trips.raw, in offset order                               *)
  committed,    (* commit log: last offset of the last committed batch      *)
  planned,      (* offset log: last offset of the last planned batch        *)
  stage,        (* where the driver is in the current batch                 *)
  rows,         (* the `good` frame: offset -> outcome of its sink write    *)
  hwm,          (* TripStream._max_event_ms                                 *)
  since,        (* history: committed when this driver process started      *)
  stored,       (* offsets whose row is in every table                      *)
  quarantined,  (* <<offset, failure_stage>> pairs in trips.dlq             *)
  copies,       (* history: dead-letter writes that carried the record      *)
  faults        (* history: faults so far                                   *)

durable == <<topic, committed, planned, stored>>
deadLetters == <<quarantined, copies>>
vars == <<durable, deadLetters, stage, rows, hwm, since, faults>>

Offsets == 1..MaxRecords
DlqStages == {"parse", "late_event", "cassandra_sink"}
SinkStages == {"collect", "count", "emit"}
BatchStages == {"parse", "late", "advance", "commit"} \cup SinkStages
Outcomes == {"pending", "stored", "failed"}

Batch == (committed + 1)..planned
NoRows == [o \in {} |-> "pending"]
Pending(S) == [o \in S |-> "pending"]
With(x) == {o \in DOMAIN rows : rows[o] = x}
Keep(S) == rows' = [o \in S |-> rows[o]]

(* A row that _validate accepts.  A row with a null event_time parses, and *)
(* is rejected there.                                                      *)
Writable(e) == e.kind = "clean" /\ e.time # NoTime

(* event_time < cutoff and event_time >= cutoff, both false for a null     *)
(* event_time as in SQL.                                                   *)
OlderThanCutoff(e) == e.time # NoTime /\ e.time < hwm - Lateness
NotOlder(e) == e.time # NoTime /\ e.time >= hwm - Lateness

LateRows ==
  IF hwm = NoTime \/ LatePolicy = "process" THEN {}
  ELSE {o \in DOMAIN rows : OlderThanCutoff(topic[o])}

-----------------------------------------------------------------------------
(* The three calls of _write_dlq in a batch: the rows each one sends and   *)
(* the failure_stage they carry.                                           *)

DlqRows ==
  CASE stage = "parse" -> {o \in DOMAIN rows : topic[o].kind = "unparseable"}
    [] stage = "late"  -> IF LatePolicy = "dlq" THEN LateRows ELSE {}
    [] stage = "emit"  -> With("failed")
    [] OTHER           -> {}

FailureStage(o) ==
  CASE stage = "late" -> "late_event"
    [] stage = "emit" /\ Writable(topic[o]) -> "cassandra_sink"
    [] OTHER -> "parse"

Quarantine(S) ==
  /\ quarantined' = quarantined \cup {<<o, FailureStage(o)>> : o \in S}
  /\ copies' = [o \in Offsets |-> copies[o] + IF o \in S THEN 1 ELSE 0]

-----------------------------------------------------------------------------
Init ==
  /\ topic = <<>>
  /\ committed = 0 /\ planned = 0 /\ since = 0
  /\ stage = "idle" /\ rows = NoRows
  /\ hwm = NoTime
  /\ stored = {} /\ quarantined = {}
  /\ copies = [o \in Offsets |-> 0]
  /\ faults = 0

(* The producer's record is acknowledged by the brokers. *)
Produce(e) ==
  /\ Len(topic) < MaxRecords
  /\ topic' = Append(topic, e)
  /\ UNCHANGED <<committed, planned, stored, deadLetters, stage, rows,
                 hwm, since, faults>>

(* Mutant: the watermark already covers the batch that it will judge. *)
PlanBatchAdvancing ==
  /\ stage = "idle"
  /\ committed < Len(topic)
  /\ planned' = IF Len(topic) < committed + MaxBatch
                THEN Len(topic) ELSE committed + MaxBatch
  /\ rows' = Pending((committed + 1)..planned')
  /\ LET times == {topic[o].time : o \in DOMAIN rows'} \ {NoTime}
     IN  hwm' \in IF times = {} THEN {hwm}
                 ELSE {t \in times : \A u \in times : u <= t}
  /\ stage' = "parse"
  /\ UNCHANGED <<topic, committed, stored, deadLetters, since, faults>>

(* Mutant: a trigger waits until two records are new. *)
PlanBatchLagging ==
  /\ stage = "idle"
  /\ committed + 1 < Len(topic)
  /\ planned' = IF Len(topic) < committed + MaxBatch
                THEN Len(topic) ELSE committed + MaxBatch
  /\ rows' = Pending((committed + 1)..planned')
  /\ stage' = "parse"
  /\ UNCHANGED <<topic, committed, stored, deadLetters, hwm, since, faults>>

(* Spark writes the offset log before it calls foreachBatch. *)
PlanBatch ==
  /\ stage = "idle"
  /\ committed < Len(topic)
  /\ planned' = IF Len(topic) < committed + MaxBatch
                THEN Len(topic) ELSE committed + MaxBatch
  /\ rows' = Pending((committed + 1)..planned')
  /\ stage' = "parse"
  /\ UNCHANGED <<topic, committed, stored, deadLetters, hwm, since, faults>>

(* bad = batch.filter(_unparseable); good = batch.filter(~_unparseable). *)
RouteUnparseable ==
  /\ stage = "parse"
  /\ Quarantine(DlqRows)
  /\ Keep(DOMAIN rows \ DlqRows)
  /\ stage' = "late"
  /\ UNCHANGED <<durable, hwm, since, faults>>

(* Mutant: the late rows are quarantined and stay in the good frame. *)
RouteLateUnfiltered ==
  /\ stage = "late"
  /\ Quarantine(DlqRows)
  /\ stage' = "collect"
  /\ UNCHANGED <<durable, rows, hwm, since, faults>>

(* The good frame is filtered only when the batch holds a late row; the    *)
(* filter keeps the rows that are not older than the cutoff, which is not  *)
(* the complement of the late rows when an event_time is null.             *)
RouteLate ==
  /\ stage = "late"
  /\ Quarantine(DlqRows)
  /\ IF LateRows = {}
     THEN UNCHANGED rows
     ELSE Keep({o \in DOMAIN rows : NotOlder(topic[o])})
  /\ stage' = "collect"
  /\ UNCHANGED <<durable, hwm, since, faults>>

(* One row goes through write_partition on an executor: every table is     *)
(* written, or the partition yields dead letters for it, one for each of   *)
(* its failed statements (CassandraSink).  The outcome stays in the        *)
(* persisted `outcomes` frame.                                             *)
WriteRow(o) ==
  /\ stage \in SinkStages
  /\ rows[o] = "pending"
  /\ \/ /\ Writable(topic[o])
        /\ rows' = [rows EXCEPT ![o] = "stored"]
        /\ stored' = stored \cup {o}
     \/ /\ rows' = [rows EXCEPT ![o] = "failed"]
        /\ UNCHANGED stored
  /\ UNCHANGED <<topic, committed, planned, deadLetters, stage, hwm,
                 since, faults>>

(* stats_rows.collect(): the first action over `outcomes`; the reports made *)
(* of the statistics are left out.                                         *)
CollectStats ==
  /\ stage = "collect"
  /\ With("pending") = {}
  /\ stage' = "count"
  /\ UNCHANGED <<durable, deadLetters, rows, hwm, since, faults>>

(* dlq_rows.count(), and the branch on it. *)
CountDlq ==
  /\ stage = "count"
  /\ With("pending") = {}
  /\ stage' = IF With("failed") = {} THEN "advance" ELSE "emit"
  /\ UNCHANGED <<durable, deadLetters, rows, hwm, since, faults>>

(* Mutant: rows that failed validation are counted and not sent. *)
EmitDlqWithoutRejects ==
  /\ stage = "emit"
  /\ With("pending") = {}
  /\ Quarantine({o \in DlqRows : Writable(topic[o])})
  /\ stage' = "advance"
  /\ UNCHANGED <<durable, rows, hwm, since, faults>>

EmitDlq ==
  /\ stage = "emit"
  /\ With("pending") = {}
  /\ Quarantine(DlqRows)
  /\ stage' = "advance"
  /\ UNCHANGED <<durable, rows, hwm, since, faults>>

(* Mutant: the new maximum replaces the old one even when it is smaller. *)
AdvanceWatermarkBackwards ==
  /\ stage = "advance"
  /\ LET times == {topic[o].time : o \in DOMAIN rows} \ {NoTime}
     IN  IF times = {} THEN UNCHANGED hwm
         ELSE \E t \in times : (\A u \in times : u <= t) /\ hwm' = t
  /\ stage' = "commit"
  /\ UNCHANGED <<durable, deadLetters, rows, since, faults>>

(* hw = good.agg(max(event_time)); null times are ignored by max. *)
AdvanceWatermark ==
  /\ stage = "advance"
  /\ LET times == {topic[o].time : o \in DOMAIN rows} \ {NoTime}
     IN  IF times = {} THEN UNCHANGED hwm
         ELSE \E t \in times :
                /\ \A u \in times : u <= t
                /\ hwm' = IF hwm # NoTime /\ hwm > t THEN hwm ELSE t
  /\ stage' = "commit"
  /\ UNCHANGED <<durable, deadLetters, rows, since, faults>>

(* foreachBatch has returned: Spark writes the commit log. *)
CommitBatch ==
  /\ stage = "commit"
  /\ committed' = planned
  /\ rows' = NoRows
  /\ stage' = "idle"
  /\ UNCHANGED <<topic, planned, stored, deadLetters, hwm, since, faults>>

-----------------------------------------------------------------------------
(* Faults. *)

(* A DLQ write that fails or is retried part-way has delivered some rows. *)
TornDlqWrite(S) ==
  /\ faults < MaxFaults
  /\ S # {} /\ S \subseteq DlqRows
  /\ Quarantine(S)
  /\ faults' = faults + 1
  /\ UNCHANGED <<durable, stage, rows, hwm, since>>

(* The last write of a row times out and was applied all the same: the     *)
(* retry loop is exhausted, the row is dead-lettered, and every table      *)
(* holds it.                                                               *)
WriteRowTimesOut(o) ==
  /\ faults < MaxFaults
  /\ stage \in SinkStages
  /\ rows[o] = "pending" /\ Writable(topic[o])
  /\ rows' = [rows EXCEPT ![o] = "failed"]
  /\ stored' = stored \cup {o}
  /\ faults' = faults + 1
  /\ UNCHANGED <<topic, committed, planned, deadLetters, stage, hwm, since>>

(* A sink task fails, or an executor dies with its cached part of          *)
(* `outcomes`: its rows go through write_partition again when the next     *)
(* Spark action needs them.                                                *)
LoseOutcomes(S) ==
  /\ faults < MaxFaults
  /\ stage \in SinkStages
  /\ S # {} /\ S \subseteq DOMAIN rows \ With("pending")
  /\ rows' = [o \in DOMAIN rows |-> IF o \in S THEN "pending" ELSE rows[o]]
  /\ faults' = faults + 1
  /\ UNCHANGED <<durable, deadLetters, stage, hwm, since>>

(* The driver is killed or stopped, or an exception leaves foreachBatch    *)
(* and ends the query: run() returns and the process exits.                *)
DriverDies ==
  /\ faults < MaxFaults
  /\ stage # "down"
  /\ stage' = "down"
  /\ rows' = NoRows
  /\ hwm' = NoTime
  /\ faults' = faults + 1
  /\ UNCHANGED <<durable, deadLetters, since>>

(* Mutant: a planned batch is taken for a committed one. *)
RestartAfterPlanned ==
  /\ stage = "down"
  /\ committed' = planned
  /\ rows' = NoRows
  /\ stage' = "idle"
  /\ since' = committed
  /\ UNCHANGED <<topic, planned, stored, deadLetters, hwm, faults>>

(* A new process on the same checkpoint: a planned batch without a commit  *)
(* entry is run again over the same offsets.                               *)
Restart ==
  /\ stage = "down"
  /\ rows' = Pending(Batch)
  /\ stage' = IF committed < planned THEN "parse" ELSE "idle"
  /\ since' = committed
  /\ UNCHANGED <<durable, deadLetters, hwm, faults>>

-----------------------------------------------------------------------------
DriverStep ==
  \/ PlanBatch
  \/ RouteUnparseable
  \/ RouteLate
  \/ \E o \in DOMAIN rows : WriteRow(o)
  \/ CollectStats
  \/ CountDlq
  \/ EmitDlq
  \/ AdvanceWatermark
  \/ CommitBatch

Fault ==
  \/ \E S \in SUBSET DlqRows : TornDlqWrite(S)
  \/ \E o \in DOMAIN rows : WriteRowTimesOut(o)
  \/ \E S \in SUBSET DOMAIN rows : LoseOutcomes(S)
  \/ DriverDies

Next ==
  \/ \E e \in Events : Produce(e)
  \/ DriverStep
  \/ Fault
  \/ Restart

(* The query thread runs whenever it can.  Nothing restarts a dead driver  *)
(* and nothing makes the producer send, so neither is fair.                *)
Fairness == WF_vars(DriverStep)

Spec == Init /\ [][Next]_vars
FairSpec == Spec /\ Fairness

-----------------------------------------------------------------------------
TypeOK ==
  /\ topic \in Seq(Events) /\ Len(topic) <= MaxRecords
  /\ committed \in Nat /\ planned \in Nat /\ since \in Nat
  /\ committed <= planned /\ planned <= Len(topic)
  /\ stage \in BatchStages \cup {"idle", "down"}
  /\ rows \in [DOMAIN rows -> Outcomes] /\ DOMAIN rows \subseteq Batch
  /\ hwm \in Nat \cup {NoTime}
  /\ stored \subseteq 1..planned
  /\ quarantined \subseteq (1..planned) \X DlqStages
  /\ copies \in [Offsets -> Nat]
  /\ faults \in 0..MaxFaults

Accounted(o) == o \in stored \/ \E s \in DlqStages : <<o, s>> \in quarantined

(* Some record before o in the topic is newer than o by more than the      *)
(* allowed lateness.                                                       *)
Overtaken(o) ==
  /\ topic[o].time # NoTime
  /\ \E p \in 1..(o - 1) :
       /\ topic[p].time # NoTime
       /\ topic[o].time < topic[p].time - Lateness

(* A record close enough to share a batch with o can be late. *)
NearLate(o) ==
  \E q \in 1..planned :
    /\ q - o < MaxBatch /\ o - q < MaxBatch
    /\ topic[q].kind # "unparseable"
    /\ Overtaken(q)

(* What the code gives up: a late record under a policy that is neither    *)
(* "dlq" nor "process", and a record with a null event_time that may share *)
(* its batch with a late one.                                              *)
Forsaken(o) ==
  \/ LatePolicy = "drop" /\ Overtaken(o)
  \/ /\ LatePolicy # "process"
     /\ topic[o].kind # "unparseable" /\ topic[o].time = NoTime
     /\ NearLate(o)

(* Zero silent loss, as far as the code delivers it: a record below the    *)
(* committed offset is in every table, or in the dead letters, or is one   *)
(* that the late filter gives up (stream_job.py: the order DLQ writes,     *)
(* sink writes, DLQ writes, return from foreachBatch).                     *)
NoSilentLoss == \A o \in 1..committed : Accounted(o) \/ Forsaken(o)

(* A record is quarantined as late only when a record before it in the     *)
(* topic really overtook it by more than the allowed lateness: "a batch    *)
(* can never invalidate its own rows", across re-runs and restarts too.    *)
LateIsJustified ==
  \A o \in 1..planned : <<o, "late_event">> \in quarantined => Overtaken(o)

-----------------------------------------------------------------------------
(* The parts of the inductive invariant behind the properties above.       *)

Safe(o) == Accounted(o) \/ Forsaken(o)

(* A batch is in progress exactly while it is planned and not committed    *)
(* (the driver may also be down with such a batch), and it is never larger *)
(* than one trigger reads.                                                 *)
BatchOpen ==
  /\ planned <= committed + MaxBatch
  /\ stage = "idle" => committed = planned
  /\ stage \in BatchStages => committed < planned

(* What has left the good frame is safe, what is in it has an outcome that *)
(* does not exceed what the tables hold, and after the dead letters of the *)
(* sink the whole batch is safe.                                           *)
FrameCovers ==
  /\ stage \in BatchStages => \A o \in Batch : o \in DOMAIN rows \/ Safe(o)
  /\ \A o \in DOMAIN rows : rows[o] = "stored" => o \in stored
  /\ stage # "parse" => \A o \in DOMAIN rows : topic[o].kind # "unparseable"
  /\ stage \in {"advance", "commit"} => \A o \in Batch : Safe(o)

(* The watermark is the time of a record of an earlier batch. *)
WatermarkSeen ==
  hwm # NoTime =>
    \E p \in 1..(IF stage = "commit" THEN planned ELSE committed) :
      topic[p].time = hwm

(* How often a record has met a fate: its dead letters, and its row. *)
Fates(o) == copies[o] + (IF o \in stored THEN 1 ELSE 0)

(* A record that waits for its outcome, or for its dead letter, has met a  *)
(* fate only as often as a fault made the driver take it up again or hid   *)
(* that its write was applied, so that there is room for one more; a       *)
(* driver that is down has had the fault that pays for its batch.          *)
FatesPaid ==
  /\ \A o \in Offsets : Fates(o) <= 1 + faults
  /\ \A o \in Offsets : planned < o => copies[o] = 0
  /\ stage = "down" => \A o \in Offsets : Fates(o) <= faults
  /\ stage \in {"parse", "late"} => \A o \in DOMAIN rows : rows[o] = "pending"
  /\ stage \notin {"advance", "commit"} =>
       \A o \in DOMAIN rows : rows[o] # "stored" => Fates(o) <= faults

(* A record with an event time that survived the parse. *)
Timed(o) == topic[o].kind # "unparseable" /\ topic[o].time # NoTime

(* What a process has completed: a batch counts once its watermark is set. *)
Completed == (since + 1)..(IF stage = "commit" THEN planned ELSE committed)
Filtered == IF stage \in BatchStages THEN Batch \ DOMAIN rows ELSE {}

(* The watermark is the time of a completed record, and no completed       *)
(* record, and none that was filtered out of the running batch, is newer.  *)
WatermarkLatest ==
  /\ since <= committed
  /\ stage = "down" => hwm = NoTime
  /\ hwm # NoTime => \E o \in Completed : Timed(o) /\ topic[o].time = hwm
  /\ stage # "down" =>
       \A o \in Completed \cup Filtered :
         Timed(o) => hwm # NoTime /\ topic[o].time <= hwm

(* The inductive invariant of the driver: whatever the interleaving of     *)
(* batch steps and faults, no offset before `committed` depends on memory. *)
StreamInv ==
  /\ TypeOK
  /\ BatchOpen
  /\ FrameCovers
  /\ WatermarkSeen
  /\ LateIsJustified
  /\ NoSilentLoss
  /\ FatesPaid
  /\ WatermarkLatest

-----------------------------------------------------------------------------
(* A record meets more than one fate (a row in the tables, a write to the  *)
(* dead letters) only as often as a fault made the driver repeat work, or  *)
(* hid from the sink that a write was applied.                             *)
BoundedRedelivery ==
  \A o \in Offsets : copies[o] + (IF o \in stored THEN 1 ELSE 0) <= 1 + faults

TimesIn(S) == {topic[o].time : o \in {p \in S : topic[p].kind # "unparseable"}} \ {NoTime}
IsLatest(t, times) ==
  IF times = {} THEN t = NoTime ELSE t \in times /\ \A u \in times : u <= t

(* The watermark that a batch is judged by is the newest event time of the *)
(* batches this process has completed: late rows that were filtered out    *)
(* never lower it, and the running batch has no part in it.                *)
WatermarkIsHistory ==
  stage \notin {"down", "commit"} => IsLatest(hwm, TimesIn((since + 1)..committed))

(* "Every event acked by Kafka is either written to Cassandra or           *)
(* quarantined in the DLQ" (README.md:82-83), at the point where the       *)
(* stream has moved past the event for good.                               *)
ZeroSilentLoss == \A o \in 1..committed : Accounted(o)

(* Once the driver stays up, every record of the topic is stored,          *)
(* quarantined or given up.                                                *)
EveryRecordSettles ==
  \A o \in Offsets :
    <>[](stage # "down") =>
      (o <= Len(topic) ~> o <= Len(topic) /\ (Accounted(o) \/ Forsaken(o)))

-----------------------------------------------------------------------------
(* The stream implements the delivery contract: records given up count as  *)
(* settled from the moment their batch is planned.                         *)
Settled == {o \in 1..planned : Accounted(o) \/ Forsaken(o)}

Contract == INSTANCE DeliveryContract
  WITH produced <- Len(topic), settled <- Settled, committed <- committed

ImplementsContract == Contract!ContractSafety
=============================================================================
