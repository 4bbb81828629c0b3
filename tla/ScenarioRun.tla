----------------------------- MODULE ScenarioRun -----------------------------
(***************************************************************************)
(* One measurement of bench/run_scenario.py and what it watches: the       *)
(* harness on the host, the driver of streaming/stream_job.py with its     *)
(* marker files and its progress file, and the producer.  They share       *)
(* files, topics and tables, nothing else.                                 *)
(*                                                                         *)
(* The chaos thread kills and restarts containers.  A driver that exits, a *)
(* producer that crashes and a query that fails may be met here at any     *)
(* time, with or without it, and what it finds goes into the report unread.*)
(*                                                                         *)
(* Offsets of trips.raw are counted from the oldest record that the        *)
(* stream could still read when the scenario began.  What the stream does  *)
(* to a record (a row, a dead letter, both, neither) is any of these here: *)
(* StreamJob says which can happen, the harness has to find out.           *)
(***************************************************************************)
EXTENDS Integers, FiniteSets, Sequences

CONSTANTS
  MaxDupes,    (* bound: duplicates it emits                                *)
  Settings,    (* [truncate, dirty : BOOLEAN, events : Nat]                 *)
  ConfirmPolls (* --drain-confirm-polls                                     *)

ASSUME ScenarioAssumption ==
  /\ MaxDupes \in Nat
  /\ Settings \subseteq [truncate : BOOLEAN, dirty : BOOLEAN, events : Nat]
  /\ ConfirmPolls \in Nat \ {0}

Old == 0  (* the event of an earlier run *)
None == -1

VARIABLES
  args,        (* the command line: rate and duration are the events that   *)
               (* will be sent; dirty: an earlier run has left its data     *)
  pc,          (* where Scenario.run is                                     *)
  failing,     (* an exception is on its way through the finally            *)
  before,      (* raw_before and trips_before                               *)
  stable,      (* consecutive polls that saw the backlog consumed           *)
  target,      (* messages to consume                                       *)
  drained,     (* the result of wait_for_drain                              *)
  abandoned,   (* stop_stream has given up on a driver that was still alive *)
  tally,       (* what build_report has counted: event ids that inspect saw *)
               (* (None if it failed), messages of trips.dlq, rows (or -1)  *)
  report,      (* the reconciliation, once written                          *)
  raw,         (* trips.raw: its events in offset order                     *)
  table,       (* events with a row in trips_by_id                          *)
  letters,     (* events with a dead letter in trips.dlq                    *)
  dlqMessages, (* messages of trips.dlq since dlq_before                    *)
  driver,      (* off, starting, opening, listening or exited               *)
  ready,       (* the ready file exists                                     *)
  stopFile,    (* the stop file exists                                      *)
  checkpoint,  (* the offset it holds, or None                              *)
  start,       (* the offset the query started from, None before it is known *)
  position,    (* records in finished batches end here                      *)
  batch,       (* end offset of the running batch, or None                  *)
  written,     (* its events that have a row by now; None before            *)
  consumed,    (* sum of input_rows in the progress file                    *)
  lag,         (* lag in query.lastProgress, which the lag file repeats     *)
  producer,    (* off, running, done or crashed                             *)
  sent,        (* events generated                                          *)
  dupes,       (* duplicates emitted                                        *)
  producerFile (* the producer's report: its duplicates, and whose run it is *)

counted == <<abandoned, tally, report>>
harness == <<args, pc, failing, before, stable, target, drained, counted>>
files == <<ready, stopFile>>
data == <<raw, table, letters, dlqMessages>>
query == <<start, position, batch, written>>
progress == <<consumed, lag>>
stream == <<driver, checkpoint, query, progress>>
producing == <<producer, sent, dupes, producerFile>>
vars == <<harness, files, data, stream, producing>>

NoTally == [seen |-> None, messages |-> 0, rows |-> None]
NoReport == [made |-> FALSE, unaccounted |-> 0, counted |-> FALSE]

(* An earlier run has left a row and a dead letter of its event, a record  *)
(* of it that was not read, a checkpoint before that, and all its files.   *)
Events == 0 .. args.events
Earlier == IF args.dirty THEN {Old} ELSE {}

Init ==
  /\ args \in Settings
  /\ pc = "gate" /\ failing = FALSE
  /\ before = [raw |-> 0, trips |-> 0]
  /\ stable = 0 /\ target = 0 /\ drained = FALSE
  /\ abandoned = FALSE /\ tally = NoTally /\ report = NoReport
  /\ raw = (IF args.dirty THEN <<Old>> ELSE <<>>)
  /\ checkpoint = (IF args.dirty THEN 0 ELSE None)
  /\ table = Earlier /\ letters = Earlier /\ dlqMessages = 0
  /\ driver = "off" /\ ready = args.dirty /\ stopFile = args.dirty
  /\ start = None /\ position = 0 /\ batch = None /\ written = {}
  /\ consumed = 0 /\ lag = None
  /\ producer = "off" /\ sent = 0 /\ dupes = 0
  /\ producerFile = (IF args.dirty THEN [run |-> "earlier", dupes |-> 1]
                               ELSE [run |-> "none", dupes |-> 0])

(* What goes on when the harness has ended is not of this model.           *)
Ended == pc \in {"done", "failed"}
Watched == ~Ended

-----------------------------------------------------------------------------
(* The harness, before the stream.  An exception here ends the program.    *)

(* health_gate: all six containers run, and a query succeeds. *)
HealthGate ==
  /\ pc = "gate"
  /\ pc' \in {"setup", "failed"}
  /\ UNCHANGED <<args, failing, before, stable, target, drained, counted,
                 files, data, stream, producing>>

(* truncate and clean_checkpoint: each part may fail, which is only logged *)
(* (the exit code of rm is not looked at).                                 *)
Setup ==
  /\ pc = "setup"
  /\ IF args.truncate
     THEN /\ table' \in {table, {}} /\ raw' \in {raw, <<>>}
          /\ letters' \in {letters, {}}
     ELSE UNCHANGED <<table, raw, letters>>
  /\ checkpoint' \in {checkpoint, None}
  /\ pc' = "snapshot"
  /\ UNCHANGED <<args, failing, before, stable, target, drained, counted,
                 files, dlqMessages, driver, query, progress, producing>>

(* dlq_before, raw_before, trips_before; a count that fails is -1. *)
Snapshot ==
  /\ pc = "snapshot"
  /\ \E trips \in IF args.truncate THEN {0} ELSE {Cardinality(table), -1} :
       before' = [raw |-> Len(raw), trips |-> trips]
  /\ pc' = "start"
  /\ UNCHANGED <<args, failing, stable, target, drained, counted,
                 files, data, stream, producing>>

(* A command times out, or kafka-get-offsets fails. *)
SetupRaises ==
  /\ pc \in {"setup", "snapshot"}
  /\ pc' = "failed"
  /\ UNCHANGED <<args, failing, before, stable, target, drained, counted,
                 files, data, stream, producing>>

(* start_stream removes what an earlier run left, the producer's report    *)
(* and the summary excepted.                                               *)
StartStream ==
  /\ pc = "start"
  /\ ready' = FALSE /\ stopFile' = FALSE
  /\ driver' = "starting"
  /\ pc' = "wait_ready"
  /\ UNCHANGED <<args, failing, before, stable, target, drained, counted,
                 data, checkpoint, query, progress, producing>>

-----------------------------------------------------------------------------
(* The harness, with the stream running: try ... finally stop_stream().    *)

WaitReady ==
  /\ pc = "wait_ready"
  /\ \/ ready /\ pc' = "grace" /\ UNCHANGED failing
     \/ (* The driver has exited, or 240 seconds have passed. *)
        ~ready /\ pc' = "stop" /\ failing' = TRUE
  /\ UNCHANGED <<args, before, stable, target, drained, counted,
                 files, data, stream, producing>>

(* The grace has passed, whatever the query has done in it. *)
StartProducing ==
  /\ pc = "grace"
  /\ producer' = "running"
  /\ pc' = "produce"
  /\ UNCHANGED <<args, failing, before, stable, target, drained, counted,
                 files, data, stream, sent, dupes, producerFile>>

(* An exit code other than 0 and 3 is only logged; the time-out of         *)
(* subprocess.run is an exception.  The join of a chaos thread has a       *)
(* time-out too, and none of its results is an exception.                  *)
RunProducer ==
  /\ pc = "produce"
  /\ IF producer \in {"done", "crashed"}
     THEN pc' = "measure" /\ UNCHANGED failing
     ELSE pc' = "stop" /\ failing' = TRUE
  /\ UNCHANGED <<args, before, stable, target, drained, counted,
                 files, data, stream, producing>>

(* wait_for_drain: the target, or a failing kafka-get-offsets. *)
MeasureBacklog ==
  /\ pc = "measure"
  /\ \/ target' = Len(raw) - before.raw /\ pc' = "drain" /\ UNCHANGED failing
     \/ failing' = TRUE /\ pc' = "stop" /\ UNCHANGED target
  /\ UNCHANGED <<args, before, stable, drained, counted,
                 files, data, stream, producing>>

(* Mutant: Spark's reported lag is taken for the backlog. *)
PollDrainLag ==
  /\ pc = "drain" /\ lag = 0
  /\ stable' = stable + 1
  /\ IF stable' = ConfirmPolls
     THEN pc' = "stop" /\ drained' = TRUE
     ELSE UNCHANGED <<pc, drained>>
  /\ UNCHANGED <<args, failing, before, target, counted,
                 files, data, stream, producing>>

PollDrain ==
  /\ pc = "drain" /\ consumed >= target
  /\ stable' = stable + 1
  /\ IF stable' = ConfirmPolls
     THEN pc' = "stop" /\ drained' = TRUE
     ELSE UNCHANGED <<pc, drained>>
  /\ UNCHANGED <<args, failing, before, target, counted,
                 files, data, stream, producing>>

(* Mutant: the deadline moves while there is a backlog. *)
DrainTimesOutLate ==
  /\ pc = "drain" /\ consumed >= target
  /\ pc' = "stop"
  /\ UNCHANGED <<args, failing, before, stable, target, drained, counted,
                 files, data, stream, producing>>

DrainTimesOut ==
  /\ pc = "drain"
  /\ pc' = "stop"
  /\ UNCHANGED <<args, failing, before, stable, target, drained, counted,
                 files, data, stream, producing>>

StopStream ==
  /\ pc = "stop"
  /\ stopFile' = TRUE
  /\ pc' = "stopping"
  /\ UNCHANGED <<args, failing, before, stable, target, drained, counted,
                 ready, data, stream, producing>>

AfterStop == IF failing THEN "failed" ELSE "report"

(* Mutant: the end of the process is not waited for. *)
StreamStoppedEarly ==
  /\ pc = "stopping"
  /\ pc' = AfterStop
  /\ UNCHANGED <<args, failing, before, stable, target, drained, counted,
                 files, data, stream, producing>>

StreamStopped ==
  /\ pc = "stopping" /\ driver = "exited"
  /\ pc' = AfterStop
  /\ UNCHANGED <<args, failing, before, stable, target, drained, counted,
                 files, data, stream, producing>>

(* 180 seconds have passed: pkill in the driver's container, which ends it *)
(* within 30 seconds.                                                      *)
KillStream ==
  /\ pc = "stopping" /\ driver # "exited"
  /\ driver' = "exited" /\ batch' = None /\ written' = {}
  /\ pc' = AfterStop
  /\ UNCHANGED <<args, failing, before, stable, target, drained, counted,
                 files, data, checkpoint, start, position, progress, producing>>

(* Or it does not: the docker exec client is killed, to which the driver   *)
(* is not bound, or the command that runs pkill times out and raises.      *)
StreamSurvives ==
  /\ pc = "stopping" /\ driver # "exited"
  /\ abandoned' = TRUE
  /\ pc' \in {AfterStop, "failed"}
  /\ UNCHANGED <<args, failing, before, stable, target, drained, tally,
                 report, files, data, stream, producing>>

-----------------------------------------------------------------------------
(* build_report, which an abandoned stream may still write under.          *)
Counting == pc \in {"report", "count", "offsets"}

(* The inspection fails, or it exits 0 with a number of event ids: fewer   *)
(* than there are if the topic was silent for the idle timeout too early   *)
(* or if the letter of a message without an event id is among them.        *)
InspectLetters(seen) ==
  /\ pc = "report"
  /\ tally' = [tally EXCEPT !.seen = seen, !.messages = dlqMessages]
  /\ pc' = "count"
  /\ UNCHANGED <<args, failing, before, stable, target, drained, abandoned,
                 report, files, data, stream, producing>>

(* A count at CONSISTENCY ALL fails without every replica and may fail     *)
(* otherwise.                                                              *)
CountTables(rows) ==
  /\ pc = "count"
  /\ tally' = [tally EXCEPT !.rows = rows]
  /\ pc' = "offsets"
  /\ UNCHANGED <<args, failing, before, stable, target, drained, abandoned,
                 report, files, data, stream, producing>>

KafkaMessages == Len(raw) - before.raw
NewEvents == {raw[i] : i \in before.raw + 1 .. Len(raw)}
ReportedDupes == producerFile.dupes
Written == tally.rows - before.trips

(* Mutant: messages of the topic are taken for events. *)
DlqRunMessages == tally.messages

DlqRun == IF tally.seen # None THEN tally.seen ELSE tally.messages

(* Mutant: the denominator is messages, not distinct events. *)
ResidualOfMessages == KafkaMessages - (Written + DlqRun)

Residual == KafkaMessages - ReportedDupes - (Written + DlqRun)

ReportOf ==
  [made |-> TRUE, unaccounted |-> IF Residual > 0 THEN Residual ELSE 0,
   counted |-> tally.rows # None /\ before.trips # None]

(* The end offsets of trips.raw are read last. *)
BuildReport ==
  /\ pc = "offsets"
  /\ report' = ReportOf
  /\ pc' = "done"
  /\ UNCHANGED <<args, failing, before, stable, target, drained, abandoned,
                 tally, files, data, stream, producing>>

(* A command fails or times out: there is no report of this run. *)
ReportRaises ==
  /\ Counting
  /\ pc' = "failed"
  /\ UNCHANGED <<args, failing, before, stable, target, drained, counted,
                 files, data, stream, producing>>

-----------------------------------------------------------------------------
(* stream_job.py *)

(* main: the files are emptied and removed again, the stop file included. *)
DriverMain ==
  /\ Watched /\ driver = "starting"
  /\ consumed' = 0
  /\ ready' = FALSE /\ stopFile' = FALSE
  /\ driver' = "opening"
  /\ UNCHANGED <<harness, data, checkpoint, query, lag, producing>>

(* run: the query has been started, in a thread of its own. *)
WriteReady ==
  /\ Watched /\ driver = "opening"
  /\ ready' = TRUE
  /\ driver' = "listening"
  /\ UNCHANGED <<harness, stopFile, data, checkpoint, query, progress, producing>>

(* The first trigger: the checkpoint's offset, or the end of the topic now. *)
ClaimOffsets ==
  /\ Watched /\ driver = "listening" /\ start = None
  /\ start' = IF checkpoint = None THEN Len(raw) ELSE checkpoint
  /\ position' = start'
  /\ lag' = Len(raw) - start'
  /\ UNCHANGED <<harness, files, data, driver, checkpoint, batch, written,
                 consumed, producing>>

PlanBatch ==
  /\ Watched /\ driver = "listening" /\ start # None /\ batch = None
  /\ position < Len(raw)
  /\ batch' \in position + 1 .. Len(raw)
  /\ written' = {None}
  /\ UNCHANGED <<harness, files, data, driver, checkpoint, start, position,
                 progress, producing>>

BatchEvents == {raw[i] : i \in position + 1 .. batch}

(* The rows and the dead letters of the batch. *)
WriteBatch(W, L) ==
  /\ Watched /\ batch # None /\ written = {None}
  /\ W \subseteq BatchEvents /\ L \subseteq BatchEvents
  /\ written' = W
  /\ table' = table \cup W /\ letters' = letters \cup L
  /\ dlqMessages' = dlqMessages + Cardinality(L)
  /\ UNCHANGED <<harness, files, raw, driver, checkpoint, start, position, batch,
                 progress, producing>>

(* Mutant: the progress file has the end offset of the batch. *)
RecordBatchOffset ==
  /\ Watched /\ batch # None /\ None \notin written
  /\ consumed' = consumed + batch
  /\ lag' = Len(raw) - batch
  /\ position' = batch /\ batch' = None /\ written' = {}
  /\ UNCHANGED <<harness, files, data, driver, checkpoint, start, producing>>

(* _record_batch, and the commit that makes the next progress.  Between   *)
(* two of them the lag monitor writes the same number again and again.     *)
RecordBatch ==
  /\ Watched /\ batch # None /\ None \notin written
  /\ consumed' = consumed + (batch - position)
  /\ lag' = Len(raw) - batch
  /\ position' = batch /\ batch' = None /\ written' = {}
  /\ UNCHANGED <<harness, files, data, driver, checkpoint, start, producing>>

(* The loop of run sees the stop file, or the query has failed: the        *)
(* running batch is interrupted and the summary is written.                *)
DriverExits ==
  /\ Watched /\ driver \in {"starting", "opening", "listening"}
  /\ driver' = "exited" /\ batch' = None /\ written' = {}
  /\ UNCHANGED <<harness, files, data, checkpoint, start, position, progress,
                 producing>>

-----------------------------------------------------------------------------
(* The producer, as far as the topics and its report show it.              *)

(* An event, perhaps with a deliberate duplicate: of the one or two        *)
(* messages some are on the topic, and one that was not acknowledged may   *)
(* have become a dead letter.                                              *)
Emit(duplicate, copies, letter) ==
  /\ Watched /\ producer = "running" /\ sent < args.events
  /\ duplicate => dupes < MaxDupes
  /\ copies <= (IF duplicate THEN 2 ELSE 1)
  /\ sent' = sent + 1
  /\ dupes' = dupes + (IF duplicate THEN 1 ELSE 0)
  /\ raw' = raw \o [i \in 1 .. copies |-> sent']
  /\ IF letter
     THEN letters' = letters \cup {sent'} /\ dlqMessages' = dlqMessages + 1
     ELSE UNCHANGED <<letters, dlqMessages>>
  /\ UNCHANGED <<harness, files, table, stream, producer, producerFile>>

ProducerReports ==
  /\ Watched /\ producer = "running"
  /\ producer' = "done"
  /\ producerFile' = [run |-> "this", dupes |-> dupes]
  /\ UNCHANGED <<harness, files, data, stream, sent, dupes>>

ProducerCrashes ==
  /\ Watched /\ producer = "running"
  /\ producer' = "crashed"
  /\ UNCHANGED <<harness, files, data, stream, sent, dupes, producerFile>>

-----------------------------------------------------------------------------
HarnessStep ==
  \/ HealthGate \/ Setup \/ Snapshot \/ SetupRaises \/ StartStream \/ WaitReady
  \/ StartProducing \/ RunProducer \/ MeasureBacklog \/ PollDrain \/ DrainTimesOut
  \/ StopStream \/ StreamStopped \/ KillStream \/ StreamSurvives
  \/ \E seen \in {None} \cup 0 .. Cardinality(letters) : InspectLetters(seen)
  \/ \E rows \in {None, Cardinality(table)} : CountTables(rows)
  \/ BuildReport \/ ReportRaises

StreamStep ==
  \/ DriverMain \/ WriteReady \/ ClaimOffsets
  \/ PlanBatch \/ (\E W, L \in SUBSET Events : WriteBatch(W, L)) \/ RecordBatch
  \/ DriverExits

ProducerStep ==
  \/ \E d, l \in BOOLEAN : \E n \in 0 .. 2 : Emit(d, n, l)
  \/ ProducerReports \/ ProducerCrashes

Next == HarnessStep \/ StreamStep \/ ProducerStep

(* Every wait of the harness has a time-out; nothing else has to move. *)
Spec == Init /\ [][Next]_vars
FairSpec == Spec /\ WF_vars(HarnessStep)

-----------------------------------------------------------------------------
(* The values of the state; the rows in the progress file are those of the *)
(* finished batches of this driver, of no earlier one.                     *)
TypeOK ==
  /\ args \in Settings
  /\ pc \in {"gate", "setup", "snapshot", "start", "wait_ready", "grace", "produce",
             "measure", "drain", "stop", "stopping", "report", "count",
             "offsets", "done", "failed"}
  /\ {failing, drained, abandoned, ready, stopFile} \subseteq BOOLEAN
  /\ before \in [raw : Nat, trips : Nat \cup {-1}]
  /\ stable \in 0 .. ConfirmPolls /\ target \in Nat
  /\ tally \in [seen : Nat \cup {None}, messages : Nat, rows : Nat \cup {None}]
  /\ raw \in Seq(Events) /\ table \subseteq Events /\ letters \subseteq Events
  /\ dlqMessages \in Nat
  /\ driver \in {"off", "starting", "opening", "listening", "exited"}
  /\ checkpoint \in {None, 0} /\ start \in Nat \cup {None}
  /\ position \in 0 .. Len(raw) /\ batch \in {None} \cup position + 1 .. Len(raw)
  /\ written \subseteq Events \cup {None}
  /\ consumed = (IF start = None THEN 0 ELSE position - start)
  /\ lag \in Nat \cup {None}
  /\ producer \in {"off", "running", "done", "crashed"}
  /\ sent \in 0 .. args.events /\ dupes \in 0 .. sent
  /\ producerFile \in [run : {"none", "earlier", "this"}, dupes : Nat]

(* No stream is left that could still write: the driver was seen to end,   *)
(* or it has read everything there is.                                     *)
Settled == ~abandoned \/ (drained /\ checkpoint = None)

(* Nothing writes the topics or the tables while they are counted, letters *)
(* first, rows next, offsets last: the producer has gone, and the stream   *)
(* with it, whatever went wrong before and although the driver may remove  *)
(* the stop file it was given.  Only a driver that survives pkill with a   *)
(* backlog can still write (run_scenario.py: stop_stream, build_report).   *)
QuietAtReport == [][Counting /\ Settled => UNCHANGED data]_vars

(* Drained means that the stream has read every message since the          *)
(* snapshot, although only two sums are compared and the stream claims its *)
(* first offset at a time nobody knows: if it claimed it late, the sums    *)
(* never meet (wait_for_drain, stream_job.py:481-486).  A checkpoint that  *)
(* survived the setup is the exception: its backlog counts as consumed.    *)
DrainedIsComplete ==
  drained /\ checkpoint = None /\ KafkaMessages > 0 =>
    start = before.raw /\ position = Len(raw)

(* The conditions under which the numbers of the report are what they say. *)
Sound ==
  /\ report.made /\ drained /\ report.counted /\ Settled
  /\ producerFile.run = "this"

Lost == NewEvents \ (table \cup letters)

(* Dead letters that an inspection has not seen, although it succeeded. *)
Missed == IF tally.seen = None THEN 0 ELSE Cardinality(letters) - tally.seen

(* A reported loss is of events that have neither a row nor a dead letter, *)
(* or of dead letters that the inspection missed: a duplicate adds none,   *)
(* nor does an event that was not delivered, nor an inspection that fails  *)
(* (run_scenario.py: build_report, dlq_distinct_events).                   *)
LossIsReal == Sound => report.unaccounted <= Cardinality(Lost) + Missed

(* Conversely a lost event is counted, if the inspection saw every letter  *)
(* and nothing stands in for the event: no event of this run is both a row *)
(* and a dead letter, no row and no dead letter is of an event that is not *)
(* on trips.raw since the snapshot, and each duplicate is on the topic.    *)
InspectedAll == tally.seen = Cardinality(letters)
CleanCounts ==
  /\ table \cup letters \subseteq NewEvents /\ before.trips = 0
  /\ Cardinality(NewEvents) + dupes = KafkaMessages
LossIsNamed ==
  Sound /\ InspectedAll /\ CleanCounts /\ table \cap letters = {}
    => report.unaccounted = Cardinality(Lost)

-----------------------------------------------------------------------------
(* What the harness has done, and what it has waited for. *)
Phases ==
  /\ pc \in {"gate", "setup", "snapshot", "start"} => driver = "off" /\ producer = "off"
  /\ pc \in {"wait_ready", "grace"} => producer = "off"
  /\ pc \in {"measure", "drain"} \/ Counting => producer \in {"done", "crashed"}
  /\ pc \in {"stop", "stopping"} /\ ~failing => producer \in {"done", "crashed"}
  /\ Counting => driver = "exited" \/ abandoned
  /\ Ended => driver \in {"off", "exited"} \/ abandoned
  /\ pc = "drain" => stable < ConfirmPolls
  /\ stable # 0 => pc \in {"drain", "stop", "stopping"} \/ Counting \/ Ended
  /\ pc \in {"gate", "setup"} => before.raw = 0

(* What the stream has claimed; with no checkpoint it was claimed after    *)
(* the snapshot.                                                           *)
Claimed ==
  /\ driver \in {"off", "starting", "opening"} => start = None
  /\ start = None => position = 0 /\ batch = None
  /\ batch # None => driver = "listening"
  /\ before.raw <= Len(raw)
  /\ start # None => start <= position
  /\ start # None /\ checkpoint = None => before.raw <= start

(* What the sums of wait_for_drain were when they met. *)
SumsMet ==
  /\ pc = "drain" => target = KafkaMessages
  /\ drained => /\ pc \in {"stop", "stopping"} \/ Counting \/ Ended
                /\ producer \in {"done", "crashed"}
                /\ target = KafkaMessages
                /\ target <= consumed

(* Up to the snapshot there is only what an earlier run has left.          *)
UpToSnapshot == pc \in {"gate", "setup", "snapshot"}

(* What each number of the reconciliation is worth: the messages since the *)
(* snapshot are of events of this run, one or two of each; the rows and    *)
(* dead letters that were there are of the earlier run; and the producer's *)
(* report is that of this run once it says so.                             *)
Counts ==
  /\ UpToSnapshot => table \subseteq {Old} /\ letters \subseteq {Old} /\ before.trips = 0
  /\ ~UpToSnapshot /\ pc # "failed" =>
       /\ NewEvents \subseteq 1 .. sent
       /\ KafkaMessages <= Cardinality(NewEvents) + dupes
  /\ before.trips \in {-1, 0, 1}
  /\ before.trips = 1 => Old \in table
  /\ Cardinality(letters \ {Old}) <= dlqMessages
  /\ producerFile.run = "this" => producer = "done" /\ producerFile.dupes = dupes

(* What was counted is what is there, and the report is made of it: once   *)
(* the stream is settled nothing moves while and after the harness counts. *)
Reported ==
  /\ report.made => pc = "done" /\ report = ReportOf
  /\ pc \in {"count", "offsets", "done"} /\ Settled =>
       /\ tally.seen \in {None} \cup 0 .. Cardinality(letters)
       /\ tally.messages = dlqMessages
  /\ pc \in {"offsets", "done"} /\ Settled =>
       tally.rows \in {None, Cardinality(table)}

(* The inductive invariant of a scenario, its types included               *)
(* (run_scenario.py: Scenario.run, build_report).                          *)
ScenarioInv == TypeOK /\ Phases /\ Claimed /\ SumsMet /\ Counts /\ Reported

-----------------------------------------------------------------------------
(* The harness ends, whatever the stream and the producer do: every wait   *)
(* has a time-out (run_scenario.py:613-656).                               *)
HarnessEnds == <>Ended

(* "Loss is therefore measured against the UNION" (run_scenario.py:536),   *)
(* "Anything left over is silent loss, and the report names it as such"    *)
(* (19-20): so an event that is both a row and a dead letter would not     *)
(* stand in for one that is neither.                                       *)
SilentLossIsNamed ==
  Sound /\ InspectedAll /\ CleanCounts /\ Lost # {} => report.unaccounted > 0
=============================================================================
