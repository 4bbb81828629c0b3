-------------------------- MODULE ScenarioRunProofs --------------------------
(***************************************************************************)
(* What holds of the harness for any setting, any number of events and     *)
(* duplicates, and any number of polls that confirm a drained backlog.     *)
(***************************************************************************)
EXTENDS ScenarioRun, FiniteSetTheorems, TLAPS

(* The invariant without the counts, which nothing else depends on. *)
HarnessInv == TypeOK /\ Phases /\ Claimed /\ SumsMet

(* The conjuncts of TypeOK about the harness, and about what it watches. *)
HarnessType ==
  /\ args \in Settings
  /\ pc \in {"gate", "setup", "snapshot", "start", "wait_ready", "grace", "produce",
             "measure", "drain", "stop", "stopping", "report", "count",
             "offsets", "done", "failed"}
  /\ failing \in BOOLEAN /\ drained \in BOOLEAN /\ abandoned \in BOOLEAN
  /\ before \in [raw : Nat, trips : Nat \cup {-1}]
  /\ stable \in 0 .. ConfirmPolls /\ target \in Nat
  /\ tally \in [seen : Nat \cup {None}, messages : Nat, rows : Nat \cup {None}]

DataType ==
  /\ raw \in Seq(Events) /\ table \subseteq Events /\ letters \subseteq Events
  /\ dlqMessages \in Nat

StreamType ==
  /\ ready \in BOOLEAN
  /\ driver \in {"off", "starting", "opening", "listening", "exited"}
  /\ checkpoint \in {None, 0} /\ start \in Nat \cup {None}
  /\ position \in 0 .. Len(raw) /\ batch \in {None} \cup position + 1 .. Len(raw)
  /\ written \subseteq Events \cup {None}
  /\ consumed = (IF start = None THEN 0 ELSE position - start)
  /\ lag \in Nat \cup {None}

OthersType ==
  /\ stopFile \in BOOLEAN
  /\ producer \in {"off", "running", "done", "crashed"}
  /\ sent \in 0 .. args.events /\ dupes \in 0 .. sent
  /\ producerFile \in [run : {"none", "earlier", "this"}, dupes : Nat]

LEMMA TypeInFour == TypeOK <=> HarnessType /\ DataType /\ StreamType /\ OthersType
  BY DEF TypeOK, HarnessType, DataType, StreamType, OthersType

LEMMA TypeInFourNext == TypeOK' <=> HarnessType' /\ DataType' /\ StreamType' /\ OthersType'
  BY DEF TypeOK, HarnessType, DataType, StreamType, OthersType, Events

LEMMA ArgsKnown ==
  ASSUME TypeOK
  PROVE  args.events \in Nat /\ args.truncate \in BOOLEAN
         /\ args.dirty \in BOOLEAN /\ Len(raw) \in Nat
         /\ None \notin Events /\ None \notin Nat
  BY ScenarioAssumption DEF TypeOK, Events, None

LEMMA InitHolds == Init => HarnessInv
  <1> SUFFICES ASSUME Init PROVE HarnessInv
    OBVIOUS
  <1> USE ScenarioAssumption
  <1>1. /\ args \in Settings /\ args.events \in Nat /\ args.dirty \in BOOLEAN
        /\ Old \in Events
    BY DEF Init, Events, Old
  <1>2. raw \in Seq(Events) /\ Len(raw) \in Nat
    BY <1>1 DEF Init
  <1>3. HarnessType
    <2>1. before \in [raw : Nat, trips : Nat \cup {-1}]
      BY DEF Init
    <2>2. /\ stable \in 0 .. ConfirmPolls /\ target \in Nat
          /\ tally \in [seen : Nat \cup {None}, messages : Nat, rows : Nat \cup {None}]
      BY DEF Init, NoTally
    <2> QED BY <1>1, <2>1, <2>2 DEF Init, HarnessType
  <1>4. DataType
    BY <1>1, <1>2 DEF Init, DataType, Earlier
  <1>5. StreamType
    BY <1>1, <1>2 DEF Init, StreamType, None
  <1>6. OthersType
    <2>1. producerFile \in [run : {"none", "earlier", "this"}, dupes : Nat]
      BY <1>1 DEF Init
    <2>2. sent \in 0 .. args.events /\ dupes \in 0 .. sent
      BY <1>1 DEF Init
    <2> QED BY <2>1, <2>2 DEF Init, OthersType
  <1>7. Phases /\ SumsMet
    BY DEF Init, Phases, SumsMet, Ended, Counting
  <1>8. Claimed
    BY <1>2 DEF Init, Claimed
  <1> QED BY <1>3, <1>4, <1>5, <1>6, <1>7, <1>8, TypeInFour DEF HarnessInv

-----------------------------------------------------------------------------
(* Steps of the harness that change nothing it watches. *)
WorldStays == UNCHANGED <<args, files, data, stream, producing>>

LEMMA WorldKept ==
  ASSUME TypeOK, WorldStays
  PROVE  DataType' /\ StreamType' /\ OthersType'
  <1>1. DataType /\ StreamType /\ OthersType
    BY TypeInFour
  <1>2. /\ UNCHANGED <<args, raw, table, letters, dlqMessages>>
        /\ UNCHANGED <<ready, driver, checkpoint, start, position, batch, written, consumed, lag>>
        /\ UNCHANGED <<stopFile, producer, sent, dupes, producerFile>>
    BY DEF WorldStays, files, data, stream, query, progress, producing
  <1>3. Events' = Events
    BY <1>2 DEF Events
  <1>4. DataType'
    BY <1>1, <1>2, <1>3 DEF DataType
  <1>5. StreamType'
    BY <1>1, <1>2, <1>3 DEF StreamType
  <1>6. OthersType'
    BY <1>1, <1>2 DEF OthersType
  <1> QED BY <1>4, <1>5, <1>6

QuietHarnessStep ==
  \/ HealthGate \/ Snapshot \/ SetupRaises \/ WaitReady \/ RunProducer
  \/ MeasureBacklog \/ PollDrain \/ DrainTimesOut \/ StreamStopped \/ StreamSurvives
  \/ \E seen \in {None} \cup 0 .. Cardinality(letters) : InspectLetters(seen)
  \/ \E rows \in {None, Cardinality(table)} : CountTables(rows)
  \/ BuildReport \/ ReportRaises

LEMMA QuietHolds ==
  ASSUME HarnessInv, QuietHarnessStep
  PROVE  HarnessInv'
  <1> USE ScenarioAssumption
  <1>0. /\ TypeOK /\ HarnessType /\ Phases /\ Claimed /\ SumsMet /\ Len(raw) \in Nat
        /\ args.truncate \in BOOLEAN /\ None \notin Nat
    BY TypeInFour, ArgsKnown DEF HarnessInv
  <1>1. WorldStays
    BY DEF QuietHarnessStep, HealthGate, Snapshot, SetupRaises, WaitReady, RunProducer,
           MeasureBacklog, PollDrain, DrainTimesOut, StreamStopped,
           StreamSurvives, InspectLetters, CountTables, BuildReport, ReportRaises, WorldStays
  <1>2. /\ UNCHANGED <<args, raw, ready, driver, checkpoint, start, position, batch,
                       consumed, producer>>
        /\ producer \in {"off", "running", "done", "crashed"}
    BY <1>0, <1>1 DEF WorldStays, files, data, stream, query, progress, producing, TypeOK
  <1>3. /\ table \subseteq Events /\ IsFiniteSet(table) /\ Cardinality(table) \in Nat
        /\ Cardinality(letters) \in Nat /\ dlqMessages \in Nat
    <2>1. IsFiniteSet(Events)
      BY <1>0, ArgsKnown, FS_Interval DEF Events
    <2>2. table \subseteq Events /\ letters \subseteq Events /\ dlqMessages \in Nat
      BY <1>0 DEF TypeOK
    <2> QED BY <2>1, <2>2, FS_Subset, FS_CardinalityType
  <1>4. HarnessType'
    <2>1. CASE HealthGate \/ SetupRaises \/ WaitReady \/ RunProducer \/ DrainTimesOut
               \/ StreamStopped \/ StreamSurvives \/ BuildReport \/ ReportRaises
      BY <1>0, <1>2, <2>1 DEF HealthGate, SetupRaises, WaitReady, RunProducer,
         DrainTimesOut, StreamStopped, StreamSurvives, BuildReport, ReportRaises,
         AfterStop, HarnessType, counted
    <2>2. CASE Snapshot
      BY <1>0, <1>2, <1>3, <2>2 DEF Snapshot, HarnessType, counted
    <2>4. CASE MeasureBacklog
      <3>1. target' \in Nat
        BY <1>0, <2>4 DEF MeasureBacklog, HarnessType, Claimed
      <3>2. UNCHANGED <<args, before, stable, drained>> /\ pc' \in {"drain", "stop"}
            /\ failing' \in BOOLEAN /\ UNCHANGED <<abandoned, tally>>
        BY <1>0, <1>2, <2>4 DEF MeasureBacklog, HarnessType, counted
      <3> QED BY <1>0, <3>1, <3>2 DEF HarnessType
    <2>5. CASE PollDrain
      <3>1. stable' \in 0 .. ConfirmPolls
        BY <1>0, <2>5 DEF PollDrain, HarnessType, Phases
      <3>2. UNCHANGED <<args, failing, before, target>> /\ pc' \in {"drain", "stop"}
            /\ drained' \in BOOLEAN /\ UNCHANGED <<abandoned, tally>>
        BY <1>0, <1>2, <2>5 DEF PollDrain, HarnessType, counted
      <3> QED BY <1>0, <3>1, <3>2 DEF HarnessType
    <2>6. ASSUME NEW seen \in {None} \cup 0 .. Cardinality(letters), InspectLetters(seen)
          PROVE  HarnessType'
      <3>1. seen \in Nat \cup {None}
        BY <1>3
      <3>2. /\ tally' = [tally EXCEPT !.seen = seen, !.messages = dlqMessages] /\ pc' = "count"
            /\ UNCHANGED <<args, failing, before, stable, target, drained, abandoned>>
        BY <2>6 DEF InspectLetters
      <3> QED BY <1>0, <1>3, <3>1, <3>2 DEF HarnessType
    <2>7. ASSUME NEW rows \in {None, Cardinality(table)}, CountTables(rows)
          PROVE  HarnessType'
      <3>1. rows \in Nat \cup {None}
        BY <1>3
      <3>2. /\ tally' = [tally EXCEPT !.rows = rows] /\ pc' = "offsets"
            /\ UNCHANGED <<args, failing, before, stable, target, drained, abandoned>>
        BY <2>7 DEF CountTables
      <3> QED BY <1>0, <3>1, <3>2 DEF HarnessType
    <2> QED BY <2>1, <2>2, <2>4, <2>5, <2>6, <2>7 DEF QuietHarnessStep
  <1>5. TypeOK'
    BY <1>0, <1>1, <1>4, WorldKept, TypeInFourNext
  <1>6. Phases'
    <2>1. CASE HealthGate \/ SetupRaises \/ WaitReady \/ RunProducer
      BY <1>0, <1>2, <2>1 DEF HealthGate, SetupRaises, WaitReady, RunProducer,
         Phases, Ended, Counting, HarnessType, counted
    <2>2. CASE Snapshot
      BY <1>0, <1>2, <2>2 DEF Snapshot, Phases, Ended, Counting, counted
    <2>3. CASE MeasureBacklog \/ DrainTimesOut
      BY <1>0, <1>2, <2>3 DEF MeasureBacklog, DrainTimesOut, Phases, Ended, Counting,
         HarnessType, counted
    <2>4. CASE PollDrain
      BY <1>0, <1>2, <2>4 DEF PollDrain, Phases, Ended, Counting, HarnessType, counted
    <2>5. CASE StreamStopped
      BY <1>0, <1>2, <2>5 DEF StreamStopped, AfterStop, Phases, Ended, Counting,
         HarnessType, counted
    <2>6. CASE StreamSurvives
      BY <1>0, <1>2, <2>6 DEF StreamSurvives, AfterStop, Phases, Ended, Counting, HarnessType
    <2>7. CASE ReportRaises \/ BuildReport
      BY <1>0, <1>2, <2>7 DEF BuildReport, ReportRaises, Phases, Ended, Counting, counted
    <2>8. ASSUME NEW seen, InspectLetters(seen) PROVE Phases'
      BY <1>0, <1>2, <2>8 DEF InspectLetters, Phases, Ended, Counting
    <2>9. ASSUME NEW rows, CountTables(rows) PROVE Phases'
      BY <1>0, <1>2, <2>9 DEF CountTables, Phases, Ended, Counting
    <2> QED BY <2>1, <2>2, <2>3, <2>4, <2>5, <2>6, <2>7, <2>8, <2>9 DEF QuietHarnessStep
  <1>7. Claimed'
    <2>1. CASE Snapshot
      <3>1. start = None
        BY <1>0, <2>1 DEF Snapshot, Phases, Claimed
      <3> QED BY <1>0, <1>2, <2>1, <3>1 DEF Snapshot, Claimed
    <2>2. CASE ~Snapshot
      <3>1. before' = before
        BY <2>2 DEF QuietHarnessStep, HealthGate, SetupRaises, WaitReady, RunProducer,
           MeasureBacklog, PollDrain, DrainTimesOut, StreamStopped,
           StreamSurvives, InspectLetters, CountTables, BuildReport, ReportRaises
      <3> QED BY <1>0, <1>2, <3>1 DEF Claimed
    <2> QED BY <2>1, <2>2
  <1>8. SumsMet'
    <2>1. CASE PollDrain
      BY <1>0, <1>2, <2>1 DEF PollDrain, SumsMet, KafkaMessages, Phases, HarnessType,
         Counting, Ended
    <2>2. CASE MeasureBacklog
      BY <1>0, <1>2, <2>2 DEF MeasureBacklog, SumsMet, KafkaMessages, Counting, Ended
    <2>3. CASE HealthGate \/ Snapshot \/ SetupRaises \/ WaitReady \/ RunProducer
      BY <1>0, <1>2, <2>3 DEF HealthGate, Snapshot, SetupRaises, WaitReady, RunProducer,
         SumsMet, Counting, Ended
    <2>4. CASE DrainTimesOut \/ StreamStopped \/ StreamSurvives \/ ReportRaises \/ BuildReport
      BY <1>0, <1>2, <2>4 DEF DrainTimesOut, StreamStopped, StreamSurvives, BuildReport,
         ReportRaises, AfterStop, SumsMet, KafkaMessages, Counting, Ended
    <2>5. ASSUME NEW n, InspectLetters(n) \/ CountTables(n) PROVE SumsMet'
      BY <1>0, <1>2, <2>5 DEF InspectLetters, CountTables, SumsMet, KafkaMessages, Counting, Ended
    <2> QED BY <2>1, <2>2, <2>3, <2>4, <2>5 DEF QuietHarnessStep
  <1> QED BY <1>5, <1>6, <1>7, <1>8 DEF HarnessInv

-----------------------------------------------------------------------------
(* The other steps of the harness *)

LEMMA HarnessKept ==
  ASSUME TypeOK, UNCHANGED harness
  PROVE  HarnessType'
  BY DEF TypeOK, harness, counted, HarnessType

LEMMA SetupHolds ==
  ASSUME HarnessInv, Setup
  PROVE  HarnessInv'
  <1>0. /\ TypeOK /\ HarnessType /\ DataType /\ StreamType /\ OthersType
        /\ Phases /\ Claimed /\ SumsMet
    BY TypeInFour DEF HarnessInv
  <1>1. /\ UNCHANGED <<args, failing, before, stable, target, drained, abandoned, tally>>
        /\ UNCHANGED <<ready, stopFile, dlqMessages, driver, start, position, batch, written>>
        /\ UNCHANGED <<consumed, lag, producer, sent, dupes, producerFile>>
        /\ pc = "setup" /\ pc' = "snapshot" /\ checkpoint' \in {checkpoint, None}
        /\ table' \in {table, {}} /\ letters' \in {letters, {}} /\ raw' \in {raw, <<>>}
    BY DEF Setup, counted, files, query, progress, producing
  <1>2. /\ driver = "off" /\ producer = "off" /\ before.raw = 0 /\ start = None
        /\ position = 0 /\ batch = None /\ ~drained /\ stable = 0
    BY <1>0, <1>1 DEF Phases, Claimed, SumsMet, Counting, Ended, HarnessType
  <1>3. Events' = Events /\ raw' \in Seq(Events) /\ Len(raw') \in Nat
    <2>1. raw \in Seq(Events) /\ <<>> \in Seq(Events) /\ raw' \in {raw, <<>>}
      BY <1>0, <1>1 DEF DataType
    <2>2. raw' \in Seq(Events)
      BY <2>1
    <2> QED BY <1>1, <2>2 DEF Events
  <1>4. HarnessType'
    BY <1>0, <1>1 DEF HarnessType
  <1>5. DataType'
    BY <1>0, <1>1, <1>3 DEF DataType
  <1>6. StreamType'
    BY <1>0, <1>1, <1>2, <1>3 DEF StreamType, None
  <1>7. OthersType'
    BY <1>0, <1>1 DEF OthersType
  <1>8. Phases' /\ SumsMet'
    BY <1>1, <1>2 DEF Phases, SumsMet, Ended, Counting
  <1>9. Claimed'
    BY <1>1, <1>2, <1>3 DEF Claimed
  <1> QED BY <1>4, <1>5, <1>6, <1>7, <1>8, <1>9, TypeInFourNext DEF HarnessInv

LEMMA StartStreamHolds ==
  ASSUME HarnessInv, StartStream
  PROVE  HarnessInv'
  <1>0. /\ TypeOK /\ HarnessType /\ DataType /\ StreamType /\ OthersType
        /\ Phases /\ Claimed /\ SumsMet
    BY TypeInFour DEF HarnessInv
  <1>1. /\ UNCHANGED <<args, failing, before, stable, target, drained, abandoned, tally>>
        /\ UNCHANGED <<raw, table, letters, dlqMessages, checkpoint, start, position, batch>>
        /\ UNCHANGED <<written, consumed, lag, producer, sent, dupes, producerFile>>
        /\ pc = "start" /\ pc' = "wait_ready" /\ driver' = "starting"
        /\ ready' = FALSE /\ stopFile' = FALSE
    BY DEF StartStream, counted, data, query, progress, producing
  <1>2. driver = "off" /\ producer = "off" /\ start = None /\ ~drained /\ stable = 0
    BY <1>0, <1>1 DEF Phases, Claimed, SumsMet, Counting, Ended, HarnessType
  <1>3. Events' = Events
    BY <1>1 DEF Events
  <1>4. HarnessType' /\ DataType'
    BY <1>0, <1>1, <1>3 DEF HarnessType, DataType
  <1>5. StreamType'
    BY <1>0, <1>1, <1>3 DEF StreamType
  <1>6. OthersType'
    BY <1>0, <1>1 DEF OthersType
  <1>7. Phases' /\ SumsMet'
    BY <1>1, <1>2 DEF Phases, SumsMet, Ended, Counting
  <1>8. Claimed'
    BY <1>0, <1>1, <1>2 DEF Claimed
  <1> QED BY <1>4, <1>5, <1>6, <1>7, <1>8, TypeInFourNext DEF HarnessInv

LEMMA StartProducingHolds ==
  ASSUME HarnessInv, StartProducing
  PROVE  HarnessInv'
  <1>0. /\ TypeOK /\ HarnessType /\ DataType /\ StreamType /\ OthersType
        /\ Phases /\ Claimed /\ SumsMet
    BY TypeInFour DEF HarnessInv
  <1>1. /\ UNCHANGED <<args, failing, before, stable, target, drained, abandoned, tally>>
        /\ UNCHANGED <<ready, stopFile, raw, table, letters, dlqMessages, driver, checkpoint>>
        /\ UNCHANGED <<start, position, batch, written, consumed, lag, sent, dupes, producerFile>>
        /\ pc = "grace" /\ pc' = "produce" /\ producer' = "running"
    BY DEF StartProducing, counted, files, data, stream, query, progress
  <1>2. Events' = Events
    BY <1>1 DEF Events
  <1>3. HarnessType' /\ DataType'
    BY <1>0, <1>1, <1>2 DEF HarnessType, DataType
  <1>4. StreamType'
    BY <1>0, <1>1, <1>2 DEF StreamType
  <1>5. OthersType'
    BY <1>0, <1>1 DEF OthersType
  <1>6. Phases' /\ SumsMet'
    BY <1>0, <1>1 DEF Phases, SumsMet, Ended, Counting
  <1>7. Claimed'
    BY <1>0, <1>1 DEF Claimed
  <1> QED BY <1>3, <1>4, <1>5, <1>6, <1>7, TypeInFourNext DEF HarnessInv

LEMMA StopStreamHolds ==
  ASSUME HarnessInv, StopStream
  PROVE  HarnessInv'
  <1>0. /\ TypeOK /\ HarnessType /\ DataType /\ StreamType /\ OthersType
        /\ Phases /\ Claimed /\ SumsMet
    BY TypeInFour DEF HarnessInv
  <1>1. /\ UNCHANGED <<args, failing, before, stable, target, drained, abandoned, tally>>
        /\ UNCHANGED <<ready, raw, table, letters, dlqMessages, driver, checkpoint>>
        /\ UNCHANGED <<start, position, batch, written, consumed, lag>>
        /\ UNCHANGED <<producer, sent, dupes, producerFile>>
        /\ pc = "stop" /\ pc' = "stopping" /\ stopFile' = TRUE
    BY DEF StopStream, counted, data, stream, query, progress, producing
  <1>2. Events' = Events
    BY <1>1 DEF Events
  <1>3. HarnessType' /\ DataType'
    BY <1>0, <1>1, <1>2 DEF HarnessType, DataType
  <1>4. StreamType'
    BY <1>0, <1>1, <1>2 DEF StreamType
  <1>5. OthersType'
    BY <1>0, <1>1 DEF OthersType
  <1>6. Phases' /\ SumsMet'
    BY <1>0, <1>1 DEF Phases, SumsMet, Ended, Counting, KafkaMessages
  <1>7. Claimed'
    BY <1>0, <1>1 DEF Claimed
  <1> QED BY <1>3, <1>4, <1>5, <1>6, <1>7, TypeInFourNext DEF HarnessInv

LEMMA KillStreamHolds ==
  ASSUME HarnessInv, KillStream
  PROVE  HarnessInv'
  <1>0. /\ TypeOK /\ HarnessType /\ DataType /\ StreamType /\ OthersType
        /\ Phases /\ Claimed /\ SumsMet
    BY TypeInFour DEF HarnessInv
  <1>1. /\ UNCHANGED <<args, failing, before, stable, target, drained, abandoned, tally>>
        /\ UNCHANGED <<ready, stopFile, raw, table, letters, dlqMessages, checkpoint>>
        /\ UNCHANGED <<start, position, consumed, lag>>
        /\ UNCHANGED <<producer, sent, dupes, producerFile>>
        /\ pc = "stopping" /\ pc' = (IF failing THEN "failed" ELSE "report")
        /\ driver' = "exited" /\ batch' = None /\ written' = {}
    BY DEF KillStream, AfterStop, counted, files, data, progress, producing
  <1>2. Events' = Events
    BY <1>1 DEF Events
  <1>3. HarnessType' /\ DataType'
    BY <1>0, <1>1, <1>2 DEF HarnessType, DataType
  <1>4. StreamType'
    BY <1>0, <1>1, <1>2 DEF StreamType
  <1>5. OthersType'
    BY <1>0, <1>1 DEF OthersType
  <1>6. Phases' /\ SumsMet'
    BY <1>0, <1>1 DEF Phases, SumsMet, Ended, Counting, KafkaMessages, HarnessType
  <1>7. Claimed'
    BY <1>0, <1>1 DEF Claimed
  <1> QED BY <1>3, <1>4, <1>5, <1>6, <1>7, TypeInFourNext DEF HarnessInv

-----------------------------------------------------------------------------
(* What the harness watches.                                               *)

(* The stream: it changes no topic of the producer and no phase, and what  *)
(* it has consumed never shrinks.                                          *)
LEMMA StreamHolds ==
  ASSUME HarnessInv, StreamStep
  PROVE  HarnessInv'
  <1>0. /\ TypeOK /\ HarnessType /\ DataType /\ StreamType /\ OthersType
        /\ Phases /\ Claimed /\ SumsMet /\ Len(raw) \in Nat
        /\ None \notin Nat /\ None \notin Events
    BY TypeInFour, ArgsKnown DEF HarnessInv
  <1>1. /\ UNCHANGED <<args, pc, failing, before, stable, target, drained, abandoned, tally>>
        /\ UNCHANGED <<raw, checkpoint, producer, sent, dupes, producerFile>>
    BY DEF StreamStep, DriverMain, WriteReady, ClaimOffsets, PlanBatch, WriteBatch,
           RecordBatch, DriverExits, harness, counted, data, query, producing
  <1>2. Events' = Events /\ HarnessType'
    BY <1>0, <1>1 DEF Events, HarnessType
  <1>3. OthersType'
    <2>1. stopFile' \in {stopFile, FALSE}
      BY DEF StreamStep, DriverMain, WriteReady, ClaimOffsets, PlanBatch, WriteBatch,
         RecordBatch, DriverExits, files
    <2> QED BY <1>0, <1>1, <2>1 DEF OthersType
  <1>4. ASSUME NEW W \in SUBSET Events, NEW L \in SUBSET Events, WriteBatch(W, L)
        PROVE  DataType' /\ StreamType' /\ Claimed' /\ driver' = driver
               /\ consumed' = consumed
    <2>1. /\ UNCHANGED <<ready, driver, start, position, batch, consumed, lag>>
          /\ written' = W /\ table' = table \cup W /\ letters' = letters \cup L
          /\ dlqMessages' = dlqMessages + Cardinality(L)
      BY <1>4 DEF WriteBatch, files, progress
    <2>2. Cardinality(L) \in Nat
      <3>1. IsFiniteSet(Events)
        BY <1>0, ArgsKnown, FS_Interval DEF Events
      <3> QED BY <3>1, FS_Subset, FS_CardinalityType
    <2>3. DataType'
      BY <1>0, <1>1, <1>2, <2>1, <2>2 DEF DataType
    <2>4. StreamType'
      BY <1>0, <1>1, <1>2, <2>1 DEF StreamType
    <2>5. Claimed'
      BY <1>0, <1>1, <2>1 DEF Claimed
    <2> QED BY <2>1, <2>3, <2>4, <2>5
  <1>5. ASSUME DriverMain \/ WriteReady \/ ClaimOffsets \/ PlanBatch \/ RecordBatch \/ DriverExits
        PROVE  DataType'
    <2>1. UNCHANGED <<table, letters, dlqMessages>>
      BY <1>5 DEF DriverMain, WriteReady, ClaimOffsets, PlanBatch, RecordBatch,
         DriverExits, data
    <2> QED BY <1>0, <1>1, <1>2, <2>1 DEF DataType
  <1>6. ASSUME DriverMain \/ WriteReady
        PROVE  /\ StreamType' /\ Claimed' /\ consumed' = consumed
               /\ driver \in {"starting", "opening"} /\ driver' # "exited"
    <2>1. /\ UNCHANGED <<start, position, batch, written, lag>>
          /\ ready' \in BOOLEAN /\ driver \in {"starting", "opening"}
          /\ driver' \in {"opening", "listening"} /\ consumed' \in {0, consumed}
      BY <1>6 DEF DriverMain, WriteReady, query, progress
    <2>2. start = None /\ consumed = 0
      BY <1>0, <2>1 DEF Claimed, StreamType
    <2>3. StreamType'
      BY <1>0, <1>1, <1>2, <2>1, <2>2 DEF StreamType
    <2>4. Claimed'
      BY <1>0, <1>1, <2>1, <2>2 DEF Claimed
    <2> QED BY <2>1, <2>2, <2>3, <2>4
  <1>7. ASSUME ClaimOffsets
        PROVE  StreamType' /\ Claimed' /\ consumed' = consumed /\ driver' = driver
    <2>1. /\ UNCHANGED <<ready, driver, batch, written, consumed>>
          /\ driver = "listening" /\ start = None
          /\ start' = (IF checkpoint = None THEN Len(raw) ELSE checkpoint)
          /\ position' = start' /\ lag' = Len(raw) - start'
      BY <1>7 DEF ClaimOffsets, files
    <2>2. consumed = 0 /\ batch = None /\ start' \in 0 .. Len(raw)
      BY <1>0, <2>1 DEF StreamType, Claimed
    <2>3. StreamType'
      BY <1>0, <1>1, <1>2, <2>1, <2>2 DEF StreamType
    <2>4. Claimed'
      BY <1>0, <1>1, <2>1, <2>2 DEF Claimed
    <2> QED BY <2>1, <2>3, <2>4
  <1>8. ASSUME PlanBatch
        PROVE  StreamType' /\ Claimed' /\ consumed' = consumed /\ driver' = driver
    <2>1. /\ UNCHANGED <<ready, driver, start, position, consumed, lag>>
          /\ driver = "listening" /\ start # None
          /\ batch' \in position + 1 .. Len(raw) /\ written' = {None}
      BY <1>8 DEF PlanBatch, files, progress
    <2>2. StreamType'
      BY <1>0, <1>1, <1>2, <2>1 DEF StreamType
    <2>3. Claimed'
      BY <1>0, <1>1, <2>1 DEF Claimed
    <2> QED BY <2>1, <2>2, <2>3
  <1>9. ASSUME RecordBatch
        PROVE  StreamType' /\ Claimed' /\ consumed <= consumed' /\ driver' = driver
    <2>1. /\ UNCHANGED <<ready, driver, start>> /\ batch # None
          /\ consumed' = consumed + (batch - position) /\ lag' = Len(raw) - batch
          /\ position' = batch /\ batch' = None /\ written' = {}
      BY <1>9 DEF RecordBatch, files
    <2>2. /\ start # None /\ start \in Nat /\ position \in Nat
          /\ batch \in position + 1 .. Len(raw) /\ consumed = position - start
      BY <1>0, <2>1 DEF StreamType, Claimed
    <2>3. StreamType'
      BY <1>0, <1>1, <1>2, <2>1, <2>2 DEF StreamType
    <2>4. Claimed'
      BY <1>0, <1>1, <2>1, <2>2 DEF Claimed
    <2> QED BY <2>1, <2>2, <2>3, <2>4
  <1>10. ASSUME DriverExits
         PROVE  StreamType' /\ Claimed' /\ consumed' = consumed /\ driver' = "exited"
    <2>1. /\ UNCHANGED <<ready, start, position, consumed, lag>>
          /\ driver' = "exited" /\ batch' = None /\ written' = {}
      BY <1>10 DEF DriverExits, files, progress
    <2>2. StreamType'
      BY <1>0, <1>1, <1>2, <2>1 DEF StreamType
    <2>3. Claimed'
      BY <1>0, <1>1, <2>1 DEF Claimed
    <2> QED BY <2>1, <2>2, <2>3
  <1>11. DataType' /\ StreamType' /\ Claimed'
    BY <1>4, <1>5, <1>6, <1>7, <1>8, <1>9, <1>10 DEF StreamStep
  <1>12. Phases'
    <2>1. ~Ended /\ driver \notin {"off", "exited"}
      BY <1>0 DEF StreamStep, DriverMain, WriteReady, ClaimOffsets, PlanBatch, WriteBatch,
         RecordBatch, DriverExits, Watched, Claimed
    <2> QED BY <1>0, <1>1, <2>1 DEF Phases, Ended, Counting
  <1>13. SumsMet'
    <2>1. consumed \in Int /\ consumed' \in Int
      BY <1>0, <1>11 DEF StreamType, Claimed
    <2>2. consumed <= consumed'
      <3>1. consumed' = consumed \/ consumed <= consumed'
        BY <1>4, <1>6, <1>7, <1>8, <1>9, <1>10 DEF StreamStep
      <3> QED BY <2>1, <3>1
    <2>3. target \in Nat /\ KafkaMessages' = KafkaMessages
      BY <1>0, <1>1 DEF HarnessType, KafkaMessages
    <2> QED BY <1>0, <1>1, <2>1, <2>2, <2>3 DEF SumsMet, Counting, Ended
  <1> QED BY <1>2, <1>3, <1>11, <1>12, <1>13, TypeInFourNext DEF HarnessInv

(* The producer: the topic only grows while it is running. *)
LEMMA ProducerHolds ==
  ASSUME HarnessInv, ProducerStep
  PROVE  HarnessInv'
  <1>0. /\ TypeOK /\ HarnessType /\ DataType /\ StreamType /\ OthersType
        /\ Phases /\ Claimed /\ SumsMet /\ Len(raw) \in Nat /\ args.events \in Nat
    BY TypeInFour, ArgsKnown DEF HarnessInv
  <1>1. /\ UNCHANGED <<args, pc, failing, before, stable, target, drained, abandoned, tally>>
        /\ UNCHANGED <<ready, stopFile, table, driver, checkpoint>>
        /\ UNCHANGED <<start, position, batch, written, consumed, lag>>
        /\ producer = "running"
    BY DEF ProducerStep, Emit, ProducerReports, ProducerCrashes, harness, counted, files, data,
           stream, query, progress
  <1>2. Events' = Events /\ HarnessType'
    BY <1>0, <1>1 DEF Events, HarnessType
  <1>3. DataType' /\ OthersType' /\ Len(raw) <= Len(raw') /\ Len(raw') \in Nat
    <2>1. ASSUME NEW d \in BOOLEAN, NEW l \in BOOLEAN, NEW n \in 0 .. 2, Emit(d, n, l)
          PROVE  DataType' /\ OthersType' /\ Len(raw) <= Len(raw') /\ Len(raw') \in Nat
      <3> DEFINE more == [i \in 1 .. n |-> sent']
      <3>1. /\ sent < args.events /\ sent' = sent + 1
            /\ dupes' = dupes + (IF d THEN 1 ELSE 0) /\ raw' = raw \o more
            /\ letters' \in {letters, letters \cup {sent'}}
            /\ dlqMessages' \in {dlqMessages, dlqMessages + 1}
            /\ UNCHANGED <<producer, producerFile>>
        BY <2>1 DEF Emit
      <3>2. sent' \in Events /\ sent' \in 0 .. args.events /\ dupes' \in 0 .. sent'
        BY <1>0, <3>1 DEF OthersType, Events
      <3>3. more \in Seq(Events) /\ Len(more) \in Nat
        BY <3>2
      <3> HIDE DEF more
      <3>4. raw' \in Seq(Events) /\ Len(raw') = Len(raw) + Len(more)
        BY <1>0, <3>1, <3>3 DEF DataType
      <3>5. DataType'
        BY <1>0, <1>1, <1>2, <3>1, <3>2, <3>4 DEF DataType
      <3>6. OthersType'
        BY <1>0, <1>1, <3>1, <3>2 DEF OthersType
      <3> QED BY <1>0, <3>3, <3>4, <3>5, <3>6
    <2>2. CASE ProducerReports \/ ProducerCrashes
      <3>1. /\ UNCHANGED <<raw, letters, dlqMessages, sent, dupes>>
            /\ producer' \in {"done", "crashed"}
        BY <2>2 DEF ProducerReports, ProducerCrashes, data
      <3>2. producerFile' \in [run : {"none", "earlier", "this"}, dupes : Nat]
        BY <1>0, <2>2 DEF ProducerReports, ProducerCrashes, OthersType
      <3> QED BY <1>0, <1>1, <1>2, <3>1, <3>2 DEF DataType, OthersType
    <2> QED BY <2>1, <2>2 DEF ProducerStep
  <1>4. StreamType'
    BY <1>0, <1>1, <1>2, <1>3 DEF StreamType
  <1>5. Phases'
    <2>1. pc \notin {"gate", "setup", "snapshot", "start", "wait_ready", "grace"}
      BY <1>0, <1>1 DEF Phases
    <2>2. pc \in {"measure", "drain", "stop", "stopping"} \/ Counting =>
            pc \in {"stop", "stopping"} /\ failing
      BY <1>0, <1>1 DEF Phases, HarnessType
    <2> QED BY <1>0, <1>1, <2>1, <2>2 DEF Phases, Ended, Counting
  <1>6. Claimed'
    BY <1>0, <1>1, <1>3 DEF Claimed, HarnessType
  <1>7. SumsMet'
    <2>1. ~drained /\ pc # "drain"
      BY <1>0, <1>1 DEF SumsMet, Phases, HarnessType
    <2> QED BY <1>1, <2>1 DEF SumsMet
  <1> QED BY <1>2, <1>3, <1>4, <1>5, <1>6, <1>7, TypeInFourNext DEF HarnessInv

LEMMA StutterHolds ==
  ASSUME HarnessInv, UNCHANGED vars
  PROVE  HarnessInv'
  <1>1. WorldStays /\ UNCHANGED harness /\ TypeOK
    BY DEF vars, WorldStays, harness, HarnessInv
  <1>2. TypeOK'
    BY <1>1, WorldKept, HarnessKept, TypeInFourNext
  <1>3. Phases' /\ Claimed' /\ SumsMet'
    BY <1>1 DEF WorldStays, harness, files, data, stream, query, progress, producing, counted, HarnessInv, Phases, Claimed, SumsMet, Ended, Counting, KafkaMessages
  <1> QED BY <1>2, <1>3 DEF HarnessInv

-----------------------------------------------------------------------------
(* The counts *)

LEMMA EventsFinite ==
  ASSUME TypeOK
  PROVE  /\ IsFiniteSet(Events) /\ IsFiniteSet(table) /\ IsFiniteSet(letters)
         /\ sent \in Nat /\ dupes \in Nat /\ before.raw \in Nat /\ dlqMessages \in Nat
  <1>1. args.events \in Nat
    BY ArgsKnown
  <1>2. IsFiniteSet(Events)
    BY <1>1, FS_Interval DEF Events
  <1>3. IsFiniteSet(table) /\ IsFiniteSet(letters)
    BY <1>2, FS_Subset DEF TypeOK
  <1>4. sent \in 0 .. args.events /\ dupes \in 0 .. sent
    BY DEF TypeOK
  <1> QED BY <1>1, <1>2, <1>3, <1>4 DEF TypeOK

LEMMA NewKept ==
  ASSUME UNCHANGED <<raw, before>>
  PROVE  NewEvents' = NewEvents /\ KafkaMessages' = KafkaMessages
  BY DEF NewEvents, KafkaMessages

LEMMA OldAlone ==
  ASSUME NEW S, S \subseteq {Old}
  PROVE  S \ {Old} = {} /\ Cardinality(S \ {Old}) = 0
  <1>1. S \ {Old} = {}
    OBVIOUS
  <1> QED BY <1>1, FS_EmptySet

LEMMA CountsInit == Init => Counts /\ Reported
  <1> SUFFICES ASSUME Init PROVE Counts /\ Reported
    OBVIOUS
  <1>1. /\ pc = "gate" /\ table \subseteq {Old} /\ letters \subseteq {Old} /\ dlqMessages = 0
        /\ before.trips = 0 /\ report.made = FALSE /\ producerFile.run # "this"
    BY DEF Init, Earlier, NoReport
  <1>2. Cardinality(letters \ {Old}) = 0
    BY <1>1, OldAlone
  <1> QED BY <1>1, <1>2 DEF Counts, Reported, UpToSnapshot

(* Steps that leave alone whatever is counted. *)
LEMMA CountsKept ==
  ASSUME Counts,
         UNCHANGED <<raw, table, letters, dlqMessages, before, sent, dupes, producerFile>>,
         UpToSnapshot' => UpToSnapshot,
         ~UpToSnapshot' /\ pc' # "failed" => ~UpToSnapshot /\ pc # "failed",
         producer' = producer \/ producerFile.run # "this"
  PROVE  Counts'
  <1>1. NewEvents' = NewEvents /\ KafkaMessages' = KafkaMessages
    BY NewKept
  <1> QED BY <1>1 DEF Counts

LEMMA CountsSetup ==
  ASSUME Counts, Setup
  PROVE  Counts'
  <1>1. /\ pc = "setup" /\ pc' = "snapshot" /\ table' \in {table, {}} /\ letters' \in {letters, {}}
        /\ UNCHANGED <<before, dlqMessages, producer, producerFile, dupes>>
    BY DEF Setup, producing
  <1>2. table' \subseteq {Old} /\ letters' \subseteq {Old} /\ before.trips = 0
    BY <1>1 DEF Counts, UpToSnapshot
  <1>3. letters' \ {Old} = letters \ {Old}
    BY <1>1, <1>2 DEF Counts, UpToSnapshot
  <1> QED BY <1>1, <1>2, <1>3 DEF Counts, UpToSnapshot

LEMMA CountsSnapshot ==
  ASSUME TypeOK, Counts, Snapshot
  PROVE  Counts'
  <1>1. /\ pc = "snapshot" /\ pc' = "start"
        /\ UNCHANGED <<raw, table, letters, dlqMessages, producer, sent, dupes, producerFile>>
        /\ before'.raw = Len(raw) /\ before'.trips \in {0, Cardinality(table), -1}
    BY ArgsKnown DEF Snapshot, data, producing
  <1>2. table = {} \/ table = {Old}
    BY <1>1 DEF Counts, UpToSnapshot
  <1>3. Cardinality(table) \in {0, 1} /\ (Cardinality(table) = 1 => Old \in table)
    <2>1. CASE table = {}
      BY <2>1, FS_EmptySet
    <2>2. CASE table = {Old}
      BY <2>2, FS_Singleton
    <2> QED BY <1>2, <2>1, <2>2
  <1>4. Len(raw) \in Nat /\ dupes \in Nat
    BY ArgsKnown, EventsFinite
  <1>5. NewEvents' = {} /\ KafkaMessages' = 0
    BY <1>1, <1>4 DEF NewEvents, KafkaMessages
  <1>6. Cardinality(NewEvents') = 0
    BY <1>5, FS_EmptySet
  <1>7. KafkaMessages' <= Cardinality(NewEvents') + dupes'
    BY <1>1, <1>4, <1>5, <1>6
  <1> QED BY <1>1, <1>3, <1>5, <1>7 DEF Counts, UpToSnapshot

LEMMA CountsHarness ==
  ASSUME HarnessInv, Counts, HarnessStep
  PROVE  Counts'
  <1>0. TypeOK /\ Phases
    BY DEF HarnessInv
  <1>1. CASE Setup
    BY <1>1, CountsSetup
  <1>2. CASE Snapshot
    BY <1>0, <1>2, CountsSnapshot
  <1>3. CASE HealthGate \/ SetupRaises
    <2>1. /\ pc \in {"gate", "setup", "snapshot"} /\ pc' \in {"setup", "failed"}
          /\ UNCHANGED <<raw, table, letters, dlqMessages, before, sent, dupes, producerFile,
                         producer>>
      BY <1>3 DEF HealthGate, SetupRaises, data, producing
    <2> QED BY <2>1, CountsKept DEF UpToSnapshot
  <1>4. CASE StartStream \/ WaitReady \/ RunProducer \/ MeasureBacklog \/ PollDrain
    <2>1. /\ ~UpToSnapshot /\ ~UpToSnapshot' /\ pc # "failed"
          /\ UNCHANGED <<raw, table, letters, dlqMessages, before, sent, dupes, producerFile,
                         producer>>
      BY <1>4 DEF StartStream, WaitReady, RunProducer, MeasureBacklog, PollDrain,
         UpToSnapshot, data, producing
    <2> QED BY <2>1, CountsKept
  <1>5. CASE \/ DrainTimesOut \/ StopStream \/ StreamStopped \/ KillStream \/ StreamSurvives
             \/ BuildReport \/ ReportRaises
             \/ \E seen \in {None} \cup 0 .. Cardinality(letters) : InspectLetters(seen)
             \/ \E rows \in {None, Cardinality(table)} : CountTables(rows)
    <2>1. /\ ~UpToSnapshot /\ ~UpToSnapshot' /\ pc # "failed"
          /\ UNCHANGED <<raw, table, letters, dlqMessages, before, sent, dupes, producerFile,
                         producer>>
      BY <1>5 DEF DrainTimesOut, StopStream, StreamStopped, KillStream, StreamSurvives,
         ReportRaises, BuildReport, InspectLetters, CountTables, AfterStop, Counting,
         UpToSnapshot, data, producing
    <2> QED BY <2>1, CountsKept
  <1>6. CASE StartProducing
    <2>1. /\ ~UpToSnapshot /\ ~UpToSnapshot' /\ pc # "failed" /\ pc = "grace"
          /\ UNCHANGED <<raw, table, letters, dlqMessages, before, sent, dupes, producerFile>>
      BY <1>6 DEF StartProducing, UpToSnapshot, data
    <2>2. producerFile.run # "this"
      BY <1>0, <2>1 DEF Phases, Counts
    <2> QED BY <2>1, <2>2, CountsKept
  <1> QED BY <1>1, <1>2, <1>3, <1>4, <1>5, <1>6 DEF HarnessStep

(* The stream only adds to what is counted, and each letter is a message. *)
LEMMA CountsStream ==
  ASSUME HarnessInv, Counts, StreamStep
  PROVE  Counts'
  <1>0. TypeOK /\ Phases /\ Claimed
    BY DEF HarnessInv
  <1>1. /\ UNCHANGED <<raw, before, pc, sent, dupes, producerFile, producer>>
        /\ ~UpToSnapshot
    <2>1. /\ UNCHANGED <<raw, before, pc, sent, dupes, producerFile, producer>>
          /\ driver # "off"
      BY <1>0 DEF StreamStep, DriverMain, WriteReady, ClaimOffsets, PlanBatch, WriteBatch,
         RecordBatch, DriverExits, Claimed, harness, data, producing
    <2> QED BY <1>0, <2>1 DEF Phases, UpToSnapshot
  <1>2. CASE UNCHANGED <<table, letters, dlqMessages>>
    BY <1>1, <1>2, CountsKept DEF UpToSnapshot
  <1>3. ASSUME NEW W \in SUBSET Events, NEW L \in SUBSET Events, WriteBatch(W, L)
        PROVE  Counts'
    <2>1. /\ table' = table \cup W /\ letters' = letters \cup L
          /\ dlqMessages' = dlqMessages + Cardinality(L)
      BY <1>3 DEF WriteBatch
    <2>2. IsFiniteSet(L) /\ IsFiniteSet(letters \ {Old}) /\ dlqMessages \in Nat
          /\ Cardinality(L) \in Nat /\ Cardinality(letters \ {Old}) \in Nat
      <3>1. IsFiniteSet(L) /\ IsFiniteSet(letters \ {Old})
        BY <1>0, EventsFinite, FS_Subset
      <3> QED BY <1>0, <3>1, EventsFinite, FS_CardinalityType
    <2>3. Cardinality(letters' \ {Old}) <= Cardinality(letters \ {Old}) + Cardinality(L)
      <3>1. /\ IsFiniteSet((letters \ {Old}) \cup L)
            /\ Cardinality((letters \ {Old}) \cup L)
                 = Cardinality(letters \ {Old}) + Cardinality(L)
                   - Cardinality((letters \ {Old}) \cap L)
        BY <2>2, FS_Union
      <3>2. Cardinality((letters \ {Old}) \cap L) \in Nat
        BY <2>2, FS_Intersection, FS_CardinalityType
      <3>3. letters' \ {Old} \subseteq (letters \ {Old}) \cup L
        BY <2>1
      <3>4. /\ Cardinality(letters' \ {Old}) <= Cardinality((letters \ {Old}) \cup L)
            /\ Cardinality(letters' \ {Old}) \in Nat
        BY <3>1, <3>3, FS_Subset, FS_CardinalityType
      <3> QED BY <2>2, <3>1, <3>2, <3>4
    <2>4. Cardinality(letters' \ {Old}) <= dlqMessages'
      <3>1. IsFiniteSet(letters' \ {Old})
        <4>1. letters' \ {Old} \subseteq (letters \ {Old}) \cup L
          BY <2>1
        <4> QED BY <2>2, <4>1, FS_Union, FS_Subset
      <3>2. Cardinality(letters' \ {Old}) \in Nat
        BY <3>1, FS_CardinalityType
      <3>3. Cardinality(letters \ {Old}) <= dlqMessages
        BY DEF Counts
      <3> QED BY <2>1, <2>2, <2>3, <3>2, <3>3
    <2>5. NewEvents' = NewEvents /\ KafkaMessages' = KafkaMessages
      BY <1>1, NewKept
    <2> QED BY <1>1, <2>1, <2>4, <2>5 DEF Counts, UpToSnapshot
  <1>4. CASE DriverMain \/ WriteReady \/ ClaimOffsets \/ PlanBatch \/ RecordBatch \/ DriverExits
    <2>1. UNCHANGED <<table, letters, dlqMessages>>
      BY <1>4 DEF DriverMain, WriteReady, ClaimOffsets, PlanBatch, RecordBatch, DriverExits, data
    <2> QED BY <1>2, <2>1
  <1> QED BY <1>3, <1>4 DEF StreamStep

(* The messages of one event: what follows the snapshot gains the event    *)
(* if there are any, and the event is a new one.                           *)
LEMMA NewEmitted ==
  ASSUME NEW T, NEW s \in Seq(T), NEW k \in Nat, k <= Len(s), NEW e, NEW n \in 0 .. 2,
         NEW more \in Seq(T), Len(more) = n, \A i \in 1 .. n : more[i] = e,
         NEW t, t = s \o more
  PROVE  /\ Len(t) = Len(s) + n
         /\ \A x : (\E i \in k + 1 .. Len(t) : x = t[i])
                    <=> (\E i \in k + 1 .. Len(s) : x = s[i]) \/ (n # 0 /\ x = e)
  <1>1. Len(s) \in Nat /\ Len(more) = n
    OBVIOUS
  <1>2. /\ Len(t) = Len(s) + n
        /\ \A i \in 1 .. Len(s) + n : t[i] = IF i <= Len(s) THEN s[i] ELSE more[i - Len(s)]
    OBVIOUS
  <1>3. \A i \in 1 .. Len(s) : t[i] = s[i]
    BY <1>1, <1>2
  <1>4. \A i \in Len(s) + 1 .. Len(s) + n : t[i] = e
    <2> SUFFICES ASSUME NEW i \in Len(s) + 1 .. Len(s) + n PROVE t[i] = e
      OBVIOUS
    <2>1. i \in 1 .. Len(s) + n /\ ~(i <= Len(s)) /\ i - Len(s) \in 1 .. n
      BY <1>1
    <2> QED BY <1>1, <1>2, <2>1
  <1>5. ASSUME NEW i \in k + 1 .. Len(t)
        PROVE  (\E j \in k + 1 .. Len(s) : t[i] = s[j]) \/ (n # 0 /\ t[i] = e)
    <2>1. CASE i <= Len(s)
      <3>1. i \in k + 1 .. Len(s) /\ i \in 1 .. Len(s)
        BY <1>1, <1>2, <2>1
      <3> QED BY <1>3, <3>1
    <2>2. CASE ~(i <= Len(s))
      <3>1. i \in Len(s) + 1 .. Len(s) + n /\ n # 0
        BY <1>1, <1>2, <2>2
      <3> QED BY <1>4, <3>1
    <2> QED BY <2>1, <2>2
  <1>6. ASSUME NEW i \in k + 1 .. Len(s)
        PROVE  \E j \in k + 1 .. Len(t) : s[i] = t[j]
    <2>1. i \in k + 1 .. Len(t) /\ t[i] = s[i]
      BY <1>1, <1>2, <1>3
    <2> QED BY <2>1
  <1>7. n # 0 => \E j \in k + 1 .. Len(t) : e = t[j]
    <2>1. n # 0 => Len(s) + 1 \in k + 1 .. Len(t) /\ t[Len(s) + 1] = e
      BY <1>1, <1>2, <1>4
    <2> QED BY <2>1
  <1> QED BY <1>2, <1>5, <1>6, <1>7

LEMMA CountsProducer ==
  ASSUME HarnessInv, Counts, ProducerStep
  PROVE  Counts'
  <1>0. TypeOK /\ Phases /\ Claimed /\ Len(raw) \in Nat
    BY ArgsKnown DEF HarnessInv
  <1>1. /\ UNCHANGED <<before, pc, table>> /\ producer = "running"
        /\ pc \notin {"done", "failed"} /\ ~UpToSnapshot
    BY <1>0 DEF ProducerStep, Emit, ProducerReports, ProducerCrashes, harness, data,
       Watched, Ended, Phases, UpToSnapshot
  <1>2. ASSUME NEW d \in BOOLEAN, NEW l \in BOOLEAN, NEW n \in 0 .. 2, Emit(d, n, l)
        PROVE  Counts'
    <2>1. /\ n <= (IF d THEN 2 ELSE 1) /\ sent' = sent + 1
          /\ dupes' = dupes + (IF d THEN 1 ELSE 0)
          /\ raw' = raw \o [i \in 1 .. n |-> sent']
          /\ \/ letters' = letters \cup {sent'} /\ dlqMessages' = dlqMessages + 1
             \/ UNCHANGED <<letters, dlqMessages>>
          /\ UNCHANGED <<producer, producerFile>>
      BY <1>2 DEF Emit
    <2>2. sent \in Nat /\ dupes \in Nat /\ before.raw \in Nat /\ dlqMessages \in Nat
      BY <1>0, EventsFinite
    <2>3. /\ Len(raw') = Len(raw) + n
          /\ NewEvents' = NewEvents \cup (IF n = 0 THEN {} ELSE {sent'})
      <3>1. raw \in Seq(Events) /\ before.raw <= Len(raw) /\ before.raw \in Nat
        BY <1>0, <2>2 DEF TypeOK, Claimed
      <3> DEFINE k == before.raw  e == sent'  t == raw'  more == [i \in 1 .. n |-> e]
      <3>2. k \in Nat /\ k <= Len(raw) /\ t = raw \o more
        BY <2>1, <3>1
      <3>3. /\ \A x : x \in NewEvents' <=> \E i \in k + 1 .. Len(t) : x = t[i]
            /\ \A x : x \in NewEvents <=> \E i \in k + 1 .. Len(raw) : x = raw[i]
        BY <1>1 DEF NewEvents
      <3>4. more \in Seq(Events) /\ Len(more) = n /\ \A i \in 1 .. n : more[i] = e
        <4>1. sent < args.events /\ args.events \in Nat
          BY <1>0, <1>2, ArgsKnown DEF Emit
        <4>2. sent' \in Events
          BY <2>1, <2>2, <4>1 DEF Events
        <4> QED BY <4>2
      <3> HIDE DEF k, e, t, more
      <3>5. /\ Len(t) = Len(raw) + n
            /\ \A x : (\E i \in k + 1 .. Len(t) : x = t[i])
                       <=> (\E i \in k + 1 .. Len(raw) : x = raw[i]) \/ (n # 0 /\ x = e)
        BY <3>1, <3>2, <3>4, NewEmitted
      <3> QED BY <3>3, <3>5 DEF e, t
    <2>4. /\ NewEvents \subseteq 1 .. sent
          /\ KafkaMessages <= Cardinality(NewEvents) + dupes
      BY <1>1 DEF Counts
    <2>5. IsFiniteSet(NewEvents) /\ Cardinality(NewEvents) \in Nat
      <3>1. IsFiniteSet(1 .. sent)
        BY <2>2, FS_Interval
      <3> QED BY <2>4, <3>1, FS_Subset, FS_CardinalityType
    <2>6. NewEvents' \subseteq 1 .. sent'
      BY <2>1, <2>2, <2>3, <2>4
    <2>7. KafkaMessages' <= Cardinality(NewEvents') + dupes'
      <3>1. KafkaMessages' = KafkaMessages + n /\ KafkaMessages \in Int
        BY <1>0, <1>1, <2>2, <2>3 DEF KafkaMessages
      <3>2. CASE n = 0
        <4>1. NewEvents' = NewEvents
          BY <2>3, <3>2
        <4> QED BY <2>1, <2>2, <2>4, <2>5, <3>1, <3>2, <4>1
      <3>3. CASE n # 0
        <4>1. NewEvents' = NewEvents \cup {sent'} /\ sent' \notin NewEvents
          BY <2>1, <2>2, <2>3, <2>4, <3>3
        <4>2. Cardinality(NewEvents') = Cardinality(NewEvents) + 1
          BY <2>5, <4>1, FS_AddElement
        <4> QED BY <2>1, <2>2, <2>4, <2>5, <3>1, <3>3, <4>2
      <3> QED BY <3>2, <3>3
    <2>8. Cardinality(letters' \ {Old}) <= dlqMessages'
      <3>1. Cardinality(letters \ {Old}) <= dlqMessages
        BY DEF Counts
      <3>2. IsFiniteSet(letters \ {Old}) /\ Cardinality(letters \ {Old}) \in Nat
        BY <1>0, EventsFinite, FS_Subset, FS_CardinalityType
      <3>3. CASE UNCHANGED <<letters, dlqMessages>>
        BY <3>1, <3>3
      <3>4. CASE letters' = letters \cup {sent'} /\ dlqMessages' = dlqMessages + 1
        <4>1. letters' \ {Old} \subseteq (letters \ {Old}) \cup {sent'}
          BY <3>4
        <4>2. /\ IsFiniteSet((letters \ {Old}) \cup {sent'})
              /\ Cardinality((letters \ {Old}) \cup {sent'}) <= Cardinality(letters \ {Old}) + 1
              /\ Cardinality((letters \ {Old}) \cup {sent'}) \in Nat
          BY <3>2, FS_AddElement, FS_CardinalityType
        <4>3. /\ Cardinality(letters' \ {Old}) <= Cardinality((letters \ {Old}) \cup {sent'})
              /\ Cardinality(letters' \ {Old}) \in Nat
          BY <4>1, <4>2, FS_Subset, FS_CardinalityType
        <4> QED BY <2>2, <3>1, <3>2, <3>4, <4>2, <4>3
      <3> QED BY <2>1, <3>3, <3>4
    <2> QED BY <1>1, <2>1, <2>6, <2>7, <2>8 DEF Counts, UpToSnapshot
  <1>3. CASE ProducerReports \/ ProducerCrashes
    <2>1. /\ UNCHANGED <<raw, table, letters, dlqMessages, sent, dupes>>
          /\ \/ producer' = "done" /\ producerFile' = [run |-> "this", dupes |-> dupes]
             \/ UNCHANGED producerFile
      BY <1>3 DEF ProducerReports, ProducerCrashes, data
    <2>2. producerFile.run # "this"
      BY <1>1 DEF Counts
    <2>3. NewEvents' = NewEvents /\ KafkaMessages' = KafkaMessages
      BY <1>1, <2>1, NewKept
    <2>4. producerFile'.run = "this" => producer' = "done" /\ producerFile'.dupes = dupes
      BY <2>1, <2>2
    <2> QED BY <1>1, <2>1, <2>3, <2>4 DEF Counts, UpToSnapshot
  <1> QED BY <1>2, <1>3 DEF ProducerStep

(* Nothing moves when the program has ended. *)
LEMMA NothingMoves ==
  ASSUME Next
  PROVE  ~Ended
  <1>1. CASE HarnessStep
    BY <1>1 DEF HarnessStep, HealthGate, Setup, Snapshot, SetupRaises, StartStream, WaitReady,
       StartProducing, RunProducer, MeasureBacklog, PollDrain, DrainTimesOut,
       StopStream, StreamStopped, KillStream, StreamSurvives, InspectLetters, CountTables,
       BuildReport, ReportRaises, Counting, Ended
  <1>2. CASE StreamStep \/ ProducerStep
    BY <1>2 DEF StreamStep,
       DriverMain, WriteReady, ClaimOffsets, PlanBatch, WriteBatch, RecordBatch, DriverExits,
       ProducerStep, Emit, ProducerReports, ProducerCrashes, Watched
  <1> QED BY <1>1, <1>2 DEF Next

(* While the harness counts, a settled stream has nothing left to write:   *)
(* what it had to read was read when the sums met.                         *)
LEMMA SettledQuiet ==
  ASSUME HarnessInv, Counting, Settled, [Next]_vars
  PROVE  UNCHANGED data
  <1>0. /\ TypeOK /\ Phases /\ Claimed /\ SumsMet
        /\ Len(raw) \in Nat /\ None \notin Nat
    BY ArgsKnown DEF HarnessInv
  <1>1. CASE UNCHANGED vars
    BY <1>1 DEF vars
  <1>2. CASE HarnessStep
    BY <1>2 DEF HarnessStep, HealthGate, Setup, Snapshot, SetupRaises, StartStream, WaitReady,
       StartProducing, RunProducer, MeasureBacklog, PollDrain, DrainTimesOut,
       StopStream, StreamStopped, KillStream, StreamSurvives, InspectLetters, CountTables,
       BuildReport, ReportRaises, Counting
  <1>4. CASE ProducerStep
    BY <1>0, <1>4 DEF ProducerStep, Emit, ProducerReports, ProducerCrashes, Phases
  <1>5. CASE DriverMain \/ WriteReady \/ ClaimOffsets \/ PlanBatch \/ RecordBatch \/ DriverExits
    BY <1>5 DEF DriverMain, WriteReady, ClaimOffsets, PlanBatch, RecordBatch, DriverExits
  <1>6. ASSUME NEW W, NEW L, WriteBatch(W, L) PROVE FALSE
    <2>1. batch # None /\ driver # "exited"
      BY <1>0, <1>6 DEF WriteBatch, Claimed
    <2>2. drained /\ checkpoint = None
      BY <1>0, <2>1 DEF Phases, Settled
    <2>3. /\ start # None /\ before.raw <= start
          /\ KafkaMessages <= consumed
      BY <1>0, <2>1, <2>2 DEF Claimed, SumsMet
    <2>4. /\ start \in Nat /\ before.raw \in Nat /\ consumed = position - start
          /\ position \in Nat /\ batch \in position + 1 .. Len(raw)
      BY <1>0, <2>1, <2>3 DEF TypeOK
    <2> QED BY <1>0, <2>3, <2>4 DEF KafkaMessages
  <1> QED BY <1>1, <1>2, <1>4, <1>5, <1>6 DEF Next, StreamStep

(* Steps after which the counted numbers are those of before.              *)
LEMMA TallyKept ==
  ASSUME Reported, ~report.made, UNCHANGED <<tally, report>>,
         pc' \in {"count", "offsets", "done"} /\ Settled' =>
           pc' = pc /\ Settled /\ UNCHANGED data
  PROVE  Reported'
  <1>1. CASE pc' \in {"count", "offsets", "done"} /\ Settled'
    <2>1. pc' = pc /\ Settled /\ UNCHANGED <<table, letters, dlqMessages>>
      BY <1>1 DEF data
    <2> QED BY <2>1 DEF Reported
  <1>2. CASE ~(pc' \in {"count", "offsets", "done"} /\ Settled')
    BY <1>2 DEF Reported
  <1> QED BY <1>1, <1>2

LEMMA ReportedStep ==
  ASSUME HarnessInv, Reported, Next
  PROVE  Reported'
  <1>0. ~report.made /\ [Next]_vars
    BY NothingMoves DEF Reported, Ended
  <1>1. Counting /\ Settled => UNCHANGED data
    BY <1>0, SettledQuiet
  <1>2. ASSUME NEW seen \in {None} \cup 0 .. Cardinality(letters), InspectLetters(seen)
        PROVE  Reported'
    <2>1. /\ tally' = [tally EXCEPT !.seen = seen, !.messages = dlqMessages]
          /\ pc' = "count" /\ UNCHANGED <<report, letters, dlqMessages>>
      BY <1>2 DEF InspectLetters, data
    <2>2. tally'.seen = seen /\ tally'.messages = dlqMessages
      BY <2>1 DEF HarnessInv, TypeOK
    <2> QED BY <1>0, <2>1, <2>2 DEF Reported
  <1>3. ASSUME NEW rows \in {None, Cardinality(table)}, CountTables(rows)
        PROVE  Reported'
    <2>1. /\ tally' = [tally EXCEPT !.rows = rows] /\ pc = "count" /\ pc' = "offsets"
          /\ UNCHANGED <<report, table, letters, dlqMessages, abandoned, drained, checkpoint>>
      BY <1>3 DEF CountTables, data, stream
    <2>2. /\ tally'.rows = rows /\ tally'.seen = tally.seen /\ tally'.messages = tally.messages
      BY <2>1 DEF HarnessInv, TypeOK
    <2> QED BY <1>0, <2>1, <2>2 DEF Reported, Settled
  <1>4. CASE BuildReport
    <2>1. /\ report' = ReportOf /\ pc = "offsets" /\ pc' = "done"
          /\ UNCHANGED <<raw, before, tally, producerFile, table, letters, dlqMessages,
                         abandoned, drained, checkpoint>>
      BY <1>4 DEF BuildReport, data, stream, producing
    <2>2. ReportOf' = ReportOf
      BY <2>1 DEF ReportOf, Residual, KafkaMessages, ReportedDupes, Written, DlqRun
    <2>3. report' = ReportOf'
      BY <2>1, <2>2
    <2> QED BY <2>1, <2>3 DEF Reported, Settled
  <1>5. CASE \/ HealthGate \/ Setup \/ Snapshot \/ SetupRaises \/ StartStream \/ WaitReady
             \/ StartProducing \/ RunProducer \/ MeasureBacklog \/ PollDrain
             \/ DrainTimesOut \/ StopStream \/ StreamStopped \/ KillStream \/ StreamSurvives
             \/ ReportRaises
    <2>1. UNCHANGED <<tally, report>> /\ pc' \notin {"count", "offsets", "done"}
      BY <1>5 DEF HealthGate, Setup, Snapshot, SetupRaises, StartStream, WaitReady,
         StartProducing, RunProducer, MeasureBacklog, PollDrain, DrainTimesOut,
         StopStream, StreamStopped, KillStream, StreamSurvives, ReportRaises, AfterStop, counted
    <2> QED BY <1>0, <2>1, TallyKept
  <1>6. CASE StreamStep \/ ProducerStep
    <2>1. UNCHANGED <<pc, tally, report, abandoned, drained, checkpoint>>
      BY <1>6 DEF StreamStep, DriverMain,
         WriteReady, ClaimOffsets, PlanBatch, WriteBatch, RecordBatch, DriverExits,
         ProducerStep, Emit, ProducerReports, ProducerCrashes, harness, counted, stream
    <2>2. pc # "done"
      BY NothingMoves DEF Ended
    <2>3. Settled' => Settled
      BY <2>1 DEF Settled
    <2> QED BY <1>0, <1>1, <2>1, <2>2, <2>3, TallyKept DEF Counting
  <1> QED BY <1>2, <1>3, <1>4, <1>5, <1>6 DEF Next, HarnessStep

LEMMA CountsStep ==
  ASSUME HarnessInv, Counts, Reported, [Next]_vars
  PROVE  Counts' /\ Reported'
  <1>1. CASE UNCHANGED vars
    <2>1. UNCHANGED <<pc, report, tally, raw, table, letters, dlqMessages, before, sent, dupes,
                      producerFile, producer, abandoned, drained, checkpoint>>
      BY <1>1 DEF vars, harness, counted, data, stream, producing
    <2>2. Counts'
      BY <2>1, CountsKept DEF UpToSnapshot
    <2>3. ReportOf' = ReportOf /\ Settled' = Settled
      BY <2>1 DEF ReportOf, Residual, KafkaMessages, ReportedDupes, Written, DlqRun, Settled
    <2>4. Reported'
      BY <2>1, <2>3 DEF Reported
    <2> QED BY <2>2, <2>4
  <1>2. CASE Next
    <2>1. Reported'
      BY <1>2, ReportedStep
    <2> QED BY <1>2, <2>1, CountsHarness, CountsStream, CountsProducer DEF Next
  <1> QED BY <1>1, <1>2

-----------------------------------------------------------------------------
(* The invariant of a scenario: the harness is in a phase that fits what   *)
(* runs, the stream's claim is not before the snapshot, a drained backlog  *)
(* is one whose sums have met, and the report is of numbers that are worth *)
(* what it takes them for (run_scenario.py: Scenario.run, build_report).   *)
THEOREM ScenarioInvariant == Spec => []ScenarioInv
  <1>1. Init => ScenarioInv
    BY InitHolds, CountsInit DEF HarnessInv, ScenarioInv
  <1>2. ScenarioInv /\ [Next]_vars => ScenarioInv'
    <2> SUFFICES ASSUME HarnessInv, Counts, Reported, [Next]_vars
                 PROVE  HarnessInv' /\ Counts' /\ Reported'
      BY DEF HarnessInv, ScenarioInv
    <2>1. CASE HarnessStep
      BY <2>1, QuietHolds, SetupHolds, StartStreamHolds, StartProducingHolds,
         StopStreamHolds, KillStreamHolds, CountsStep DEF HarnessStep, QuietHarnessStep
    <2>3. CASE StreamStep
      BY <2>3, StreamHolds, CountsStep
    <2>4. CASE ProducerStep
      BY <2>4, ProducerHolds, CountsStep
    <2>5. CASE UNCHANGED vars
      BY <2>5, StutterHolds, CountsStep
    <2> QED BY <2>1, <2>3, <2>4, <2>5 DEF Next
  <1> QED BY <1>1, <1>2, PTL DEF Spec

(* The state of a scenario keeps its types, and the progress file counts   *)
(* what this stream has read (run_scenario.py: Scenario).                  *)
THEOREM ScenarioTypeCorrect == Spec => []TypeOK
  <1>1. ScenarioInv => TypeOK
    BY DEF ScenarioInv
  <1> QED BY <1>1, ScenarioInvariant, PTL

(* Topics and tables are counted at rest, unless a driver that survived    *)
(* pkill still has a backlog (run_scenario.py: stop_stream, build_report). *)
THEOREM ScenarioQuietAtReport == Spec => QuietAtReport
  <1>1. ScenarioInv /\ [Next]_vars => [Counting /\ Settled => UNCHANGED data]_vars
    BY SettledQuiet DEF ScenarioInv, HarnessInv
  <1> QED BY <1>1, ScenarioInvariant, PTL DEF Spec, QuietAtReport

(* A backlog that was called drained has been read to the end, although    *)
(* only two sums were compared (run_scenario.py: wait_for_drain).          *)
THEOREM ScenarioDrainedComplete == Spec => []DrainedIsComplete
  <1>1. ScenarioInv => DrainedIsComplete
    <2> SUFFICES ASSUME ScenarioInv, drained, checkpoint = None, KafkaMessages > 0
                 PROVE  start = before.raw /\ position = Len(raw)
      BY DEF DrainedIsComplete
    <2>1. /\ Len(raw) \in Nat /\ before.raw \in Nat /\ position \in 0 .. Len(raw)
          /\ consumed = (IF start = None THEN 0 ELSE position - start)
          /\ start \in Nat \cup {None}
      BY DEF ScenarioInv, TypeOK
    <2>2. KafkaMessages <= consumed
      BY DEF ScenarioInv, SumsMet
    <2>3. start # None
      BY <2>1, <2>2 DEF KafkaMessages
    <2>4. before.raw <= start
      BY <2>3 DEF ScenarioInv, Claimed
    <2> QED BY <2>1, <2>2, <2>3, <2>4 DEF KafkaMessages, None
  <1> QED BY <1>1, ScenarioInvariant, PTL

(* What the two sums of the reconciliation are, when all was counted. *)
LEMMA ReportMeans ==
  ASSUME ScenarioInv, Sound
  PROVE  LET r == KafkaMessages - dupes - (Cardinality(table) - before.trips + DlqRun)
         IN  /\ report.unaccounted = (IF r > 0 THEN r ELSE 0)
             /\ before.trips \in {0, 1}
             /\ tally.seen \in {None} \cup 0 .. Cardinality(letters)
             /\ tally.messages = dlqMessages
  <1>1. /\ report = ReportOf /\ pc = "done" /\ Settled
        /\ producerFile.run = "this" /\ report.counted
    BY DEF ScenarioInv, Reported, Sound
  <1>2. /\ tally.seen \in {None} \cup 0 .. Cardinality(letters)
        /\ tally.messages = dlqMessages
        /\ tally.rows \in {None, Cardinality(table)}
    BY <1>1 DEF ScenarioInv, Reported
  <1>3. tally.rows # None /\ before.trips # None
    BY <1>1 DEF ReportOf
  <1>4. before.trips \in {0, 1} /\ producerFile.dupes = dupes
    BY <1>1, <1>3 DEF ScenarioInv, Counts, None
  <1>5. Residual = KafkaMessages - dupes - (Cardinality(table) - before.trips + DlqRun)
    BY <1>2, <1>3, <1>4 DEF Residual, ReportedDupes, Written
  <1>6. report.unaccounted = (IF Residual > 0 THEN Residual ELSE 0)
    BY <1>1 DEF ReportOf
  <1> QED BY <1>2, <1>4, <1>5, <1>6

(* What is known of the sets behind the counts of a report. *)
LEMMA ReportSets ==
  ASSUME ScenarioInv, report.made
  PROVE  /\ NewEvents \subseteq 1 .. sent /\ KafkaMessages <= Cardinality(NewEvents) + dupes
         /\ IsFiniteSet(NewEvents) /\ IsFiniteSet(table) /\ IsFiniteSet(letters)
         /\ Cardinality(NewEvents) \in Nat /\ Cardinality(table) \in Nat
         /\ Cardinality(letters) \in Nat /\ IsFiniteSet(Lost) /\ Cardinality(Lost) \in Nat
         /\ KafkaMessages \in Int /\ dupes \in Nat /\ dlqMessages \in Nat
         /\ Old \notin NewEvents
  <1>1. /\ NewEvents \subseteq 1 .. sent /\ KafkaMessages <= Cardinality(NewEvents) + dupes
    BY DEF ScenarioInv, Reported, Counts, UpToSnapshot
  <1>2. /\ IsFiniteSet(table) /\ IsFiniteSet(letters) /\ sent \in Nat /\ dupes \in Nat
        /\ before.raw \in Nat /\ dlqMessages \in Nat /\ Len(raw) \in Nat
    BY EventsFinite, ArgsKnown DEF ScenarioInv
  <1>3. IsFiniteSet(NewEvents)
    <2>1. IsFiniteSet(1 .. sent)
      BY <1>2, FS_Interval
    <2> QED BY <1>1, <2>1, FS_Subset
  <1>4. Lost \subseteq NewEvents
    BY DEF Lost
  <1>5. IsFiniteSet(Lost)
    BY <1>3, <1>4, FS_Subset
  <1>6. KafkaMessages \in Int /\ Old \notin NewEvents
    BY <1>1, <1>2 DEF KafkaMessages, Old
  <1> QED BY <1>1, <1>2, <1>3, <1>5, <1>6, FS_CardinalityType

(* A reported loss is real: at most so many events of this run have        *)
(* neither a row nor a dead letter, and at most so many dead letters were  *)
(* missed by the inspection (run_scenario.py: build_report).               *)
THEOREM ScenarioLossReal == Spec => []LossIsReal
  <1>1. ScenarioInv => LossIsReal
    <2> SUFFICES ASSUME ScenarioInv, Sound
                 PROVE  report.unaccounted <= Cardinality(Lost) + Missed
      BY DEF LossIsReal
    <2>1. LET r == KafkaMessages - dupes - (Cardinality(table) - before.trips + DlqRun)
          IN  /\ report.unaccounted = (IF r > 0 THEN r ELSE 0)
              /\ before.trips \in {0, 1}
              /\ tally.seen \in {None} \cup 0 .. Cardinality(letters)
              /\ tally.messages = dlqMessages
      BY ReportMeans
    <2>2. /\ KafkaMessages <= Cardinality(NewEvents) + dupes
          /\ IsFiniteSet(NewEvents) /\ IsFiniteSet(table) /\ IsFiniteSet(letters)
          /\ Cardinality(NewEvents) \in Nat /\ Cardinality(table) \in Nat
          /\ Cardinality(letters) \in Nat /\ IsFiniteSet(Lost) /\ Cardinality(Lost) \in Nat
          /\ KafkaMessages \in Int /\ dupes \in Nat /\ dlqMessages \in Nat
          /\ Old \notin NewEvents
      BY ReportSets DEF Sound
    <2> DEFINE stored == NewEvents \cap table
               lettered == NewEvents \cap letters
    <2>3. /\ NewEvents = Lost \cup (stored \cup lettered)
          /\ stored \subseteq table /\ lettered \subseteq letters \ {Old}
          /\ Old \notin stored
      BY <2>2 DEF Lost
    <2> HIDE DEF stored, lettered
    <2>4. /\ IsFiniteSet(stored) /\ Cardinality(stored) \in Nat
          /\ Cardinality(stored) + before.trips <= Cardinality(table)
      <3>1. IsFiniteSet(stored) /\ Cardinality(stored) \in Nat
            /\ Cardinality(stored) <= Cardinality(table)
        BY <2>2, <2>3, FS_Subset, FS_CardinalityType
      <3>2. CASE before.trips = 0
        BY <2>2, <3>1, <3>2
      <3>3. CASE before.trips = 1
        <4>1. stored \cup {Old} \subseteq table
          BY <2>3, <3>3 DEF ScenarioInv, Counts
        <4>2. Cardinality(stored \cup {Old}) = Cardinality(stored) + 1
          BY <2>3, <3>1, FS_AddElement
        <4>3. Cardinality(stored \cup {Old}) <= Cardinality(table)
          BY <2>2, <4>1, FS_Subset
        <4> QED BY <3>1, <3>3, <4>2, <4>3
      <3> QED BY <2>1, <3>1, <3>2, <3>3
    <2>5. /\ IsFiniteSet(lettered) /\ Cardinality(lettered) \in Nat
          /\ DlqRun \in Nat /\ Missed \in Nat
          /\ Cardinality(lettered) <= DlqRun + Missed
      <3>1. /\ IsFiniteSet(letters \ {Old}) /\ Cardinality(letters \ {Old}) \in Nat
            /\ Cardinality(letters \ {Old}) <= Cardinality(letters)
        BY <2>2, FS_Subset, FS_CardinalityType
      <3>2. /\ IsFiniteSet(lettered) /\ Cardinality(lettered) \in Nat
            /\ Cardinality(lettered) <= Cardinality(letters \ {Old})
        BY <2>3, <3>1, FS_Subset, FS_CardinalityType
      <3>3. CASE tally.seen = None
        <4>1. Cardinality(letters \ {Old}) <= dlqMessages
          BY DEF ScenarioInv, Counts
        <4>2. DlqRun = dlqMessages /\ Missed = 0
          BY <2>1, <3>3 DEF DlqRun, Missed
        <4> QED BY <2>2, <3>1, <3>2, <4>1, <4>2
      <3>4. CASE tally.seen # None
        <4>1. /\ tally.seen \in 0 .. Cardinality(letters) /\ DlqRun = tally.seen
              /\ Missed = Cardinality(letters) - tally.seen
          BY <2>1, <3>4 DEF DlqRun, Missed
        <4> QED BY <2>2, <3>1, <3>2, <4>1
      <3> QED BY <3>3, <3>4
    <2>6. Cardinality(NewEvents)
            <= Cardinality(Lost) + Cardinality(stored) + Cardinality(lettered)
      <3>1. /\ IsFiniteSet(stored \cup lettered)
            /\ Cardinality(stored \cup lettered) = Cardinality(stored) + Cardinality(lettered)
                 - Cardinality(stored \cap lettered)
            /\ Cardinality(stored \cap lettered) \in Nat
            /\ Cardinality(stored \cup lettered) \in Nat
        BY <2>4, <2>5, FS_Union, FS_Intersection, FS_CardinalityType
      <3>2. /\ Cardinality(Lost \cup (stored \cup lettered))
                 = Cardinality(Lost) + Cardinality(stored \cup lettered)
                   - Cardinality(Lost \cap (stored \cup lettered))
            /\ Cardinality(Lost \cap (stored \cup lettered)) \in Nat
        BY <2>2, <3>1, FS_Union, FS_Intersection, FS_CardinalityType
      <3>3. Cardinality(NewEvents) = Cardinality(Lost \cup (stored \cup lettered))
        BY <2>3
      <3> QED BY <2>2, <2>4, <2>5, <3>1, <3>2, <3>3
    <2> DEFINE r == KafkaMessages - dupes - (Cardinality(table) - before.trips + DlqRun)
    <2>7. r <= Cardinality(Lost) + Missed /\ r \in Int
      BY <2>1, <2>2, <2>4, <2>5, <2>6
    <2>8. report.unaccounted = (IF r > 0 THEN r ELSE 0)
      BY <2>1
    <2> HIDE DEF r
    <2> QED BY <2>2, <2>5, <2>7, <2>8
  <1> QED BY <1>1, ScenarioInvariant, PTL

(* A loss is reported in full, if every letter was seen and nothing stands *)
(* in for it (run_scenario.py: build_report).                              *)
THEOREM ScenarioLossNamed == Spec => []LossIsNamed
  <1>1. ScenarioInv => LossIsNamed
    <2> SUFFICES ASSUME ScenarioInv, Sound, InspectedAll, CleanCounts,
                        table \cap letters = {}
                 PROVE  report.unaccounted = Cardinality(Lost)
      BY DEF LossIsNamed
    <2>1. LET r == KafkaMessages - dupes - (Cardinality(table) - before.trips + DlqRun)
          IN  report.unaccounted = (IF r > 0 THEN r ELSE 0)
      BY ReportMeans
    <2>2. /\ IsFiniteSet(NewEvents) /\ IsFiniteSet(table) /\ IsFiniteSet(letters)
          /\ Cardinality(NewEvents) \in Nat /\ Cardinality(table) \in Nat
          /\ Cardinality(letters) \in Nat /\ IsFiniteSet(Lost) /\ Cardinality(Lost) \in Nat
          /\ dupes \in Nat
      BY ReportSets DEF Sound
    <2>3. /\ table \cup letters \subseteq NewEvents /\ before.trips = 0
          /\ Cardinality(NewEvents) + dupes = KafkaMessages
      BY DEF CleanCounts
    <2>4. DlqRun = Cardinality(letters)
      BY <2>2 DEF InspectedAll, DlqRun, None
    <2> DEFINE both == table \cup letters
    <2>5. /\ IsFiniteSet(both) /\ Cardinality(both) = Cardinality(table) + Cardinality(letters)
          /\ Cardinality(both) \in Nat
      <3>1. /\ IsFiniteSet(both)
            /\ Cardinality(both) = Cardinality(table) + Cardinality(letters)
                 - Cardinality(table \cap letters)
        BY <2>2, FS_Union
      <3>2. Cardinality(table \cap letters) = 0
        BY FS_EmptySet
      <3> HIDE DEF both
      <3> QED BY <2>2, <3>1, <3>2
    <2>6. Cardinality(Lost) = Cardinality(NewEvents) - Cardinality(both)
      <3>1. both \subseteq NewEvents /\ Lost = NewEvents \ both
        BY <2>3 DEF Lost
      <3> HIDE DEF both
      <3>2. NewEvents \cap both = both
        BY <3>1
      <3>3. Cardinality(NewEvents \ both)
              = Cardinality(NewEvents) - Cardinality(NewEvents \cap both)
        BY <2>2, FS_Difference
      <3> QED BY <3>1, <3>2, <3>3
    <2> DEFINE r == KafkaMessages - dupes - (Cardinality(table) - before.trips + DlqRun)
    <2>7. r = Cardinality(Lost)
      BY <2>2, <2>3, <2>4, <2>5, <2>6
    <2>8. report.unaccounted = (IF r > 0 THEN r ELSE 0)
      BY <2>1
    <2> HIDE DEF r
    <2> QED BY <2>2, <2>7, <2>8
  <1> QED BY <1>1, ScenarioInvariant, PTL
=============================================================================
