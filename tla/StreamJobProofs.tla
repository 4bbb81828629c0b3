-------------------------- MODULE StreamJobProofs --------------------------
(***************************************************************************)
(* Proofs about StreamJob for every value of its constants.                *)
(***************************************************************************)
EXTENDS StreamJob, TLAPS

(* A dead-letter write sends rows of the good frame only. *)
LEMMA DlqRowsInFrame == DlqRows \subseteq DOMAIN rows
  BY DEF DlqRows, LateRows, With

(* The stage recorded in a dead letter is one of the three of the stream. *)
LEMMA FailureStageType == \A o : FailureStage(o) \in DlqStages
  BY DEF FailureStage, DlqStages

(* Sending rows of the batch to the dead letters keeps both dead-letter    *)
(* variables in their types.                                               *)
LEMMA QuarantineType ==
  ASSUME TypeOK, NEW S, S \subseteq 1..planned, Quarantine(S)
  PROVE  /\ quarantined' \subseteq (1..planned) \X DlqStages
         /\ copies' \in [Offsets -> Nat]
  <1>1. quarantined' \subseteq (1..planned) \X DlqStages
    BY FailureStageType DEF Quarantine, TypeOK
  <1>2. copies' \in [Offsets -> Nat]
    BY DEF Quarantine, TypeOK
  <1> QED BY <1>1, <1>2

(* Keeping a part of the good frame keeps its type. *)
LEMMA KeepType ==
  ASSUME rows \in [DOMAIN rows -> Outcomes], NEW S, S \subseteq DOMAIN rows, Keep(S)
  PROVE  DOMAIN rows' = S /\ rows' \in [S -> Outcomes]
  BY DEF Keep

(* A record that is in a planned batch is one of the events. *)
LEMMA BatchRecord ==
  ASSUME TypeOK, NEW o \in 1..planned
  PROVE  /\ topic[o] \in Events
         /\ topic[o].time \in Nat \cup {NoTime}
         /\ o \in 1..Len(topic)
  <1>1. o \in 1..Len(topic)
    BY DEF TypeOK
  <1>2. topic[o] \in Events
    BY <1>1 DEF TypeOK
  <1> QED BY <1>1, <1>2, StreamAssumption

LEMMA TypeInit == Init => TypeOK
  <1> SUFFICES ASSUME Init PROVE TypeOK
    OBVIOUS
  <1> USE StreamAssumption DEF Init
  <1>1. topic \in Seq(Events) /\ Len(topic) = 0
    OBVIOUS
  <1>2. rows \in [DOMAIN rows -> Outcomes] /\ DOMAIN rows \subseteq Batch
    BY DEF NoRows
  <1>3. stage \in BatchStages \cup {"idle", "down"}
    OBVIOUS
  <1>4. copies \in [Offsets -> Nat]
    OBVIOUS
  <1> QED BY <1>1, <1>2, <1>3, <1>4 DEF TypeOK

LEMMA TypeStep == TypeOK /\ BatchOpen /\ [Next]_vars => TypeOK' /\ BatchOpen'
  <1> SUFFICES ASSUME TypeOK, BatchOpen, [Next]_vars PROVE TypeOK' /\ BatchOpen'
    OBVIOUS
  <1> USE StreamAssumption
  <1>1. ASSUME NEW e \in Events, Produce(e) PROVE TypeOK' /\ BatchOpen'
    <2>1. topic' \in Seq(Events) /\ Len(topic') = Len(topic) + 1
      BY <1>1 DEF Produce, TypeOK
    <2> QED BY <1>1, <2>1
            DEF Produce, TypeOK, BatchOpen, durable, deadLetters, Batch
  <1>2. CASE PlanBatch
    <2>0. Len(topic) \in Nat
      BY DEF TypeOK
    <2>1. planned' \in Nat /\ planned <= planned' /\ planned' <= Len(topic)
          /\ committed < planned' /\ planned' <= committed + MaxBatch
      BY <1>2, <2>0 DEF PlanBatch, TypeOK, BatchOpen
    <2>2. rows' \in [DOMAIN rows' -> Outcomes] /\ DOMAIN rows' \subseteq Batch'
      BY <1>2 DEF PlanBatch, Pending, Outcomes, Batch
    <2>3. 1..planned \subseteq 1..planned'
      BY <2>1 DEF TypeOK
    <2>4. stored' \subseteq 1..planned' /\ quarantined' \subseteq (1..planned') \X DlqStages
      BY <1>2, <2>3 DEF PlanBatch, TypeOK, deadLetters
    <2> QED BY <1>2, <2>1, <2>2, <2>4
            DEF PlanBatch, TypeOK, BatchOpen, deadLetters, BatchStages
  <1>3. CASE RouteUnparseable
    <2>1. DOMAIN rows \ DlqRows \subseteq DOMAIN rows /\ DlqRows \subseteq 1..planned
      BY DlqRowsInFrame DEF TypeOK, Batch
    <2>2. rows' \in [DOMAIN rows' -> Outcomes] /\ DOMAIN rows' \subseteq Batch
      BY <1>3, <2>1, KeepType DEF RouteUnparseable, TypeOK
    <2>3. quarantined' \subseteq (1..planned) \X DlqStages /\ copies' \in [Offsets -> Nat]
      BY <1>3, <2>1, QuarantineType DEF RouteUnparseable
    <2> QED BY <1>3, <2>2, <2>3
            DEF RouteUnparseable, TypeOK, BatchOpen, durable, BatchStages, Batch
  <1>4. CASE RouteLate
    <2>1. DlqRows \subseteq 1..planned
      BY DlqRowsInFrame DEF TypeOK, Batch
    <2>2. rows' \in [DOMAIN rows' -> Outcomes] /\ DOMAIN rows' \subseteq Batch
      <3>1. {o \in DOMAIN rows : NotOlder(topic[o])} \subseteq DOMAIN rows
        OBVIOUS
      <3> QED BY <1>4, <3>1, KeepType DEF RouteLate, TypeOK
    <2>3. quarantined' \subseteq (1..planned) \X DlqStages /\ copies' \in [Offsets -> Nat]
      BY <1>4, <2>1, QuarantineType DEF RouteLate
    <2> QED BY <1>4, <2>2, <2>3
            DEF RouteLate, TypeOK, BatchOpen, durable, BatchStages, SinkStages, Batch
  <1>5. ASSUME NEW o \in DOMAIN rows, WriteRow(o) PROVE TypeOK' /\ BatchOpen'
    <2>1. rows' \in [DOMAIN rows' -> Outcomes] /\ DOMAIN rows' = DOMAIN rows
      BY <1>5 DEF WriteRow, TypeOK, Outcomes
    <2>2. stored' \subseteq 1..planned
      BY <1>5 DEF WriteRow, TypeOK, Batch
    <2> QED BY <1>5, <2>1, <2>2
            DEF WriteRow, TypeOK, BatchOpen, deadLetters, Batch
  <1>5a. ASSUME NEW o \in DOMAIN rows, WriteRowTimesOut(o) PROVE TypeOK' /\ BatchOpen'
    <2>1. rows' \in [DOMAIN rows' -> Outcomes] /\ DOMAIN rows' = DOMAIN rows
      BY <1>5a DEF WriteRowTimesOut, TypeOK, Outcomes
    <2>2. stored' \subseteq 1..planned /\ faults' \in 0..MaxFaults
      BY <1>5a DEF WriteRowTimesOut, TypeOK, Batch
    <2> QED BY <1>5a, <2>1, <2>2
            DEF WriteRowTimesOut, TypeOK, BatchOpen, deadLetters, Batch
  <1>6. CASE CollectStats
    BY <1>6 DEF CollectStats, TypeOK, BatchOpen, durable, deadLetters,
            BatchStages, SinkStages, Batch
  <1>7. CASE CountDlq
    BY <1>7 DEF CountDlq, TypeOK, BatchOpen, durable, deadLetters,
            BatchStages, SinkStages, Batch
  <1>8. CASE EmitDlq
    <2>1. DlqRows \subseteq 1..planned
      BY DlqRowsInFrame DEF TypeOK, Batch
    <2>2. quarantined' \subseteq (1..planned) \X DlqStages /\ copies' \in [Offsets -> Nat]
      BY <1>8, <2>1, QuarantineType DEF EmitDlq
    <2> QED BY <1>8, <2>2
            DEF EmitDlq, TypeOK, BatchOpen, durable, BatchStages, SinkStages, Batch
  <1>9. CASE AdvanceWatermark
    <2>1. \A o \in DOMAIN rows : topic[o].time \in Nat \cup {NoTime}
      <3>1. DOMAIN rows \subseteq 1..planned
        BY DEF TypeOK, Batch
      <3> QED BY <3>1, BatchRecord
    <2>2. hwm' \in Nat \cup {NoTime}
      BY <1>9, <2>1 DEF AdvanceWatermark, TypeOK
    <2> QED BY <1>9, <2>2 DEF AdvanceWatermark, TypeOK, BatchOpen, durable,
            deadLetters, BatchStages, Batch
  <1>10. CASE CommitBatch
    <2>1. rows' \in [DOMAIN rows' -> Outcomes] /\ DOMAIN rows' \subseteq Batch'
      BY <1>10 DEF CommitBatch, NoRows
    <2> QED BY <1>10, <2>1
            DEF CommitBatch, TypeOK, BatchOpen, deadLetters, BatchStages, SinkStages
  <1>11. ASSUME NEW S \in SUBSET DlqRows, TornDlqWrite(S) PROVE TypeOK' /\ BatchOpen'
    <2>1. S \subseteq 1..planned
      BY DlqRowsInFrame DEF TypeOK, Batch
    <2>2. quarantined' \subseteq (1..planned) \X DlqStages /\ copies' \in [Offsets -> Nat]
      BY <1>11, <2>1, QuarantineType DEF TornDlqWrite
    <2> QED BY <1>11, <2>2 DEF TornDlqWrite, TypeOK, BatchOpen, durable, Batch
  <1>12. ASSUME NEW S \in SUBSET DOMAIN rows, LoseOutcomes(S) PROVE TypeOK' /\ BatchOpen'
    <2>1. rows' \in [DOMAIN rows' -> Outcomes] /\ DOMAIN rows' = DOMAIN rows
      BY <1>12 DEF LoseOutcomes, TypeOK, Outcomes
    <2>2. UNCHANGED <<topic, committed, planned, stored, quarantined, copies, stage, hwm, since>>
      BY <1>12 DEF LoseOutcomes, durable, deadLetters
    <2>3. faults' \in 0..MaxFaults
      BY <1>12 DEF LoseOutcomes, TypeOK
    <2>4. DOMAIN rows' \subseteq Batch'
      BY <2>1, <2>2 DEF TypeOK, Batch
    <2> QED BY <2>1, <2>2, <2>3, <2>4 DEF TypeOK, BatchOpen
  <1>13. CASE DriverDies
    <2>1. rows' \in [DOMAIN rows' -> Outcomes] /\ DOMAIN rows' \subseteq Batch'
      BY <1>13 DEF DriverDies, NoRows
    <2> QED BY <1>13, <2>1
            DEF DriverDies, TypeOK, BatchOpen, durable, deadLetters, BatchStages, SinkStages
  <1>14. CASE Restart
    <2>1. rows' \in [DOMAIN rows' -> Outcomes] /\ DOMAIN rows' \subseteq Batch
      BY <1>14 DEF Restart, Pending, Outcomes
    <2> QED BY <1>14, <2>1 DEF Restart, TypeOK, BatchOpen, durable, deadLetters, BatchStages, SinkStages, Batch
  <1>15. CASE UNCHANGED vars
    BY <1>15 DEF vars, TypeOK, BatchOpen, durable, deadLetters, Batch
  <1> QED
    BY <1>1, <1>2, <1>3, <1>4, <1>5, <1>5a, <1>6, <1>7, <1>8, <1>9, <1>10, <1>11,
       <1>12, <1>13, <1>14, <1>15 DEF Next, DriverStep, Fault

(* Every reachable state of the driver is type-correct, whatever the       *)
(* records, the batch size, the lateness and the number of faults.         *)
THEOREM StreamTypeCorrect == Spec => []TypeOK
  <1>1. Init => TypeOK /\ BatchOpen
    BY TypeInit, StreamAssumption DEF Init, BatchOpen, BatchStages, SinkStages
  <1> QED BY <1>1, TypeStep, PTL DEF Spec

-----------------------------------------------------------------------------
(* Nothing is ever taken out of the tables, the dead letters or the topic. *)
LEMMA DurableGrows ==
  ASSUME TypeOK, [Next]_vars
  PROVE  /\ stored \subseteq stored'
         /\ quarantined \subseteq quarantined'
         /\ \A p \in 1..Len(topic) : topic'[p] = topic[p]
  <1>1. ASSUME NEW e \in Events, Produce(e)
        PROVE  \A p \in 1..Len(topic) : topic'[p] = topic[p]
    BY <1>1 DEF Produce, TypeOK
  <1>2. topic' = topic \/ \E e \in Events : Produce(e)
    BY DEF Next, DriverStep, Fault, vars, durable, PlanBatch, RouteUnparseable,
       RouteLate, WriteRow, CollectStats, CountDlq, EmitDlq, AdvanceWatermark,
       CommitBatch, TornDlqWrite, WriteRowTimesOut, LoseOutcomes, DriverDies, Restart
  <1>3. stored \subseteq stored'
    BY DEF Next, DriverStep, Fault, vars, durable, Produce, PlanBatch,
       RouteUnparseable, RouteLate, WriteRow, CollectStats, CountDlq, EmitDlq,
       AdvanceWatermark, CommitBatch, TornDlqWrite, WriteRowTimesOut, LoseOutcomes, DriverDies, Restart
  <1>4. quarantined \subseteq quarantined'
    BY DEF Next, DriverStep, Fault, vars, durable, deadLetters, Quarantine, Produce,
       PlanBatch, RouteUnparseable, RouteLate, WriteRow, CollectStats, CountDlq,
       EmitDlq, AdvanceWatermark, CommitBatch, TornDlqWrite, WriteRowTimesOut, LoseOutcomes,
       DriverDies, Restart
  <1> QED BY <1>1, <1>2, <1>3, <1>4

(* A record that was overtaken stays overtaken: the topic only grows. *)
LEMMA OvertakenGrows ==
  ASSUME TypeOK, [Next]_vars, NEW o \in 1..planned
  PROVE  Overtaken(o) => Overtaken(o)'
  <1>1. 1..o \subseteq 1..Len(topic) /\ 1..(o - 1) \subseteq 1..o
    BY DEF TypeOK
  <1>2. \A p \in 1..o : topic'[p] = topic[p]
    BY <1>1, DurableGrows
  <1>3. o \in 1..o
    BY DEF TypeOK
  <1> QED BY <1>1, <1>2, <1>3 DEF Overtaken

(* The offset log only moves forward. *)
LEMMA PlannedGrows ==
  ASSUME TypeOK, BatchOpen, [Next]_vars
  PROVE  1..planned \subseteq 1..planned'
  <1>1. CASE PlanBatch
    BY <1>1, StreamAssumption DEF PlanBatch, TypeOK, BatchOpen
  <1>2. CASE ~PlanBatch
    <2>1. planned' = planned
      BY <1>2 DEF Next, DriverStep, Fault, vars, durable, Produce,
         RouteUnparseable, RouteLate, WriteRow, CollectStats, CountDlq, EmitDlq,
         AdvanceWatermark, CommitBatch, TornDlqWrite, WriteRowTimesOut, LoseOutcomes, DriverDies, Restart
    <2> QED BY <2>1
  <1> QED BY <1>1, <1>2

(* A safe record stays safe. *)
LEMMA SafeGrows ==
  ASSUME TypeOK, BatchOpen, [Next]_vars, NEW o \in 1..planned
  PROVE  Safe(o) => Safe(o)'
  <1>1. topic'[o] = topic[o]
    BY BatchRecord, DurableGrows
  <1>2. Accounted(o) => Accounted(o)'
    BY DurableGrows DEF Accounted
  <1>3. NearLate(o) => NearLate(o)'
    <2>1. \A q \in 1..planned : topic'[q] = topic[q] /\ q \in 1..planned'
      BY BatchRecord, DurableGrows, PlannedGrows
    <2> QED BY <2>1, OvertakenGrows DEF NearLate
  <1>4. Forsaken(o) => Forsaken(o)'
    BY <1>1, <1>3, OvertakenGrows DEF Forsaken
  <1> QED BY <1>2, <1>4 DEF Safe

(* A record sent to the dead letters is accounted for. *)
LEMMA QuarantinedIsSafe ==
  ASSUME NEW S, Quarantine(S), NEW o \in S
  PROVE  Safe(o)'
  BY FailureStageType DEF Quarantine, Safe, Accounted

(* A row older than the cutoff was overtaken by the record that set the    *)
(* watermark, which belongs to an earlier batch.                           *)
LEMMA LateRowOvertaken ==
  ASSUME TypeOK, WatermarkSeen, stage = "late", NEW o \in LateRows
  PROVE  Overtaken(o)
  <1>1. o \in DOMAIN rows /\ hwm # NoTime /\ OlderThanCutoff(topic[o])
    BY DEF LateRows
  <1>2. PICK p \in 1..committed : topic[p].time = hwm
    BY <1>1 DEF WatermarkSeen
  <1>3. p \in 1..(o - 1)
    BY <1>1 DEF TypeOK, Batch
  <1> QED BY <1>1, <1>2, <1>3 DEF Overtaken, OlderThanCutoff

LEMMA LateStep ==
  ASSUME TypeOK, BatchOpen, WatermarkSeen, LateIsJustified, [Next]_vars
  PROVE  LateIsJustified'
  <1> SUFFICES ASSUME NEW o \in 1..planned', <<o, "late_event">> \in quarantined'
               PROVE  Overtaken(o)'
    BY DEF LateIsJustified
  <1>1. CASE <<o, "late_event">> \in quarantined
    <2>1. o \in 1..planned
      BY <1>1 DEF TypeOK
    <2> QED BY <1>1, <2>1, OvertakenGrows DEF LateIsJustified
  <1>2. CASE <<o, "late_event">> \notin quarantined
    <2>1. ASSUME NEW S, S \subseteq DlqRows, Quarantine(S) PROVE Overtaken(o)'
      <3>1. o \in S /\ FailureStage(o) = "late_event"
        BY <1>2, <2>1 DEF Quarantine
      <3>2. stage = "late" /\ o \in LateRows
        BY <2>1, <3>1 DEF FailureStage, DlqRows
      <3>3. o \in 1..planned
        BY <2>1, <3>1, DlqRowsInFrame DEF TypeOK, Batch
      <3> QED BY <3>2, <3>3, LateRowOvertaken, OvertakenGrows
    <2>2. \/ quarantined' = quarantined
          \/ \E S \in SUBSET DlqRows : Quarantine(S)
      BY DEF Next, DriverStep, Fault, vars, durable, deadLetters, Produce,
         PlanBatch, RouteUnparseable, RouteLate, WriteRow, CollectStats, CountDlq,
         EmitDlq, AdvanceWatermark, CommitBatch, TornDlqWrite, WriteRowTimesOut, LoseOutcomes,
         DriverDies, Restart
    <2> QED BY <1>2, <2>1, <2>2
  <1> QED BY <1>1, <1>2

LEMMA WatermarkStep ==
  ASSUME TypeOK, BatchOpen, WatermarkSeen, [Next]_vars
  PROVE  WatermarkSeen'
  <1> SUFFICES ASSUME hwm' # NoTime
               PROVE  \E p \in 1..(IF stage' = "commit" THEN planned' ELSE committed') :
                        topic'[p].time = hwm'
    BY DEF WatermarkSeen
  <1>1. 1..planned \subseteq 1..Len(topic) /\ 1..committed \subseteq 1..planned
    BY DEF TypeOK
  <1>2. \A p \in 1..planned : topic'[p] = topic[p]
    BY <1>1, DurableGrows
  <1>3. CASE AdvanceWatermark
    <2>1. stage = "advance" /\ stage' = "commit" /\ planned' = planned
      BY <1>3 DEF AdvanceWatermark, durable
    <2>2. CASE hwm' = hwm
      BY <1>1, <1>2, <2>1, <2>2 DEF WatermarkSeen
    <2>3. CASE hwm' # hwm
      <3>1. PICK o \in DOMAIN rows : hwm' = topic[o].time
        BY <1>3, <2>3 DEF AdvanceWatermark
      <3>2. o \in 1..planned
        BY DEF TypeOK, Batch
      <3> QED BY <1>2, <2>1, <3>1, <3>2
    <2> QED BY <2>2, <2>3
  <1>4. CASE CommitBatch
    BY <1>2, <1>4 DEF CommitBatch, WatermarkSeen
  <1>5. CASE ~AdvanceWatermark /\ ~CommitBatch
    <2>1. hwm' = hwm /\ committed' = committed
      BY <1>5 DEF Next, DriverStep, Fault, vars, durable, Produce, PlanBatch,
         RouteUnparseable, RouteLate, WriteRow, CollectStats, CountDlq, EmitDlq,
         TornDlqWrite, WriteRowTimesOut, LoseOutcomes, DriverDies, Restart
    <2>2. \/ stage # "commit" /\ stage' # "commit"
          \/ stage' = stage /\ planned' = planned
      <3>1. CASE DriverDies
        BY <3>1 DEF DriverDies
      <3>2. CASE PlanBatch \/ RouteUnparseable \/ RouteLate \/ CollectStats \/ CountDlq
                 \/ EmitDlq \/ Restart
        BY <3>2 DEF PlanBatch, RouteUnparseable, RouteLate, CollectStats, CountDlq,
           EmitDlq, Restart
      <3>3. CASE \/ \E e \in Events : Produce(e)
                 \/ \E o \in DOMAIN rows : WriteRow(o)
                 \/ \E o \in DOMAIN rows : WriteRowTimesOut(o)
                 \/ \E S \in SUBSET DlqRows : TornDlqWrite(S)
                 \/ \E S \in SUBSET DOMAIN rows : LoseOutcomes(S)
                 \/ UNCHANGED vars
        BY <3>3 DEF Produce, WriteRow, TornDlqWrite, WriteRowTimesOut, LoseOutcomes, vars, durable
      <3> QED BY <1>5, <3>1, <3>2, <3>3 DEF Next, DriverStep, Fault
    <2> QED BY <1>1, <1>2, <2>1, <2>2 DEF WatermarkSeen
  <1> QED BY <1>3, <1>4, <1>5

-----------------------------------------------------------------------------
(* The coverage of a batch survives every step; one case per action.       *)
LEMMA CoverStep ==
  ASSUME TypeOK, BatchOpen, FrameCovers, WatermarkSeen, [Next]_vars
  PROVE  FrameCovers'
  <1>0. /\ 1..planned \subseteq 1..Len(topic) /\ DOMAIN rows \subseteq Batch
        /\ Batch \subseteq 1..planned
    BY DEF TypeOK, Batch
  <1>1. ASSUME NEW o \in 1..planned PROVE (Safe(o) => Safe(o)') /\ topic'[o] = topic[o]
    BY <1>0, SafeGrows, DurableGrows
  <1>2. ASSUME UNCHANGED <<committed, planned, stage, rows>>, stored \subseteq stored'
        PROVE  FrameCovers'
    BY <1>0, <1>1, <1>2 DEF FrameCovers, Batch
  <1>3. ASSUME NEW e \in Events, Produce(e) PROVE FrameCovers'
    BY <1>2, <1>3 DEF Produce
  <1>4. CASE PlanBatch
    <2>1. stage' = "parse" /\ rows' = [o \in Batch' |-> "pending"]
      BY <1>4 DEF PlanBatch, Pending, Batch
    <2> QED BY <2>1 DEF FrameCovers
  <1>5. CASE RouteUnparseable
    <2>1. /\ stage = "parse" /\ stage' = "late" /\ UNCHANGED <<committed, planned, stored>>
          /\ DOMAIN rows' = DOMAIN rows \ DlqRows
          /\ \A o \in DOMAIN rows' : rows'[o] = rows[o]
      BY <1>5 DEF RouteUnparseable, Keep, durable
    <2>2. \A o \in DlqRows : Safe(o)'
      BY <1>5, QuarantinedIsSafe DEF RouteUnparseable
    <2>3. \A o \in Batch : o \in DOMAIN rows \/ Safe(o)
      BY <2>1 DEF FrameCovers, BatchStages
    <2>4. \A o \in DOMAIN rows' : topic[o].kind # "unparseable"
      BY <2>1 DEF DlqRows
    <2>5. Batch' = Batch
      BY <2>1 DEF Batch
    <2> QED BY <1>0, <1>1, <2>1, <2>2, <2>3, <2>4, <2>5 DEF FrameCovers
  <1>6. CASE RouteLate
    <2>1. /\ stage = "late" /\ stage' = "collect" /\ UNCHANGED <<committed, planned, stored>>
          /\ DOMAIN rows' \subseteq DOMAIN rows
          /\ \A o \in DOMAIN rows' : rows'[o] = rows[o]
      BY <1>6 DEF RouteLate, Keep, durable
    <2>2. \A o \in DlqRows : Safe(o)'
      BY <1>6, QuarantinedIsSafe DEF RouteLate
    <2>3. \A o \in Batch : o \in DOMAIN rows \/ Safe(o)
      BY <2>1 DEF FrameCovers, BatchStages
    <2>4. ASSUME NEW o \in DOMAIN rows, o \notin DOMAIN rows' PROVE Safe(o)'
      <3>1. LateRows # {} /\ ~NotOlder(topic[o])
        BY <1>6, <2>4 DEF RouteLate, Keep
      <3>2. hwm # NoTime /\ LatePolicy # "process"
        BY <3>1 DEF LateRows
      <3>3. topic[o].kind # "unparseable"
        BY <2>1 DEF FrameCovers
      <3>4. CASE topic[o].time = NoTime
        <4>1. PICK q \in LateRows : TRUE
          BY <3>1
        <4>2. q \in DOMAIN rows /\ Overtaken(q) /\ topic[q].kind # "unparseable"
          BY <2>1, <4>1, LateRowOvertaken DEF LateRows, FrameCovers
        <4>3. q \in 1..planned /\ q - o < MaxBatch /\ o - q < MaxBatch
          BY <4>2, StreamAssumption DEF TypeOK, BatchOpen, Batch
        <4>4. NearLate(o)
          BY <4>2, <4>3 DEF NearLate
        <4> QED BY <1>0, <1>1, <3>2, <3>3, <3>4, <4>4 DEF Safe, Forsaken
      <3>5. CASE topic[o].time # NoTime
        <4>1. topic[o].time \in Nat /\ hwm \in Nat
          BY <1>0, <3>2, <3>5, BatchRecord DEF TypeOK
        <4>2. o \in LateRows
          BY <3>1, <3>2, <3>5, <4>1, StreamAssumption DEF LateRows, NotOlder, OlderThanCutoff
        <4>3. CASE LatePolicy = "dlq"
          BY <2>1, <2>2, <4>2, <4>3 DEF DlqRows
        <4>4. CASE LatePolicy = "drop"
          BY <1>0, <1>1, <2>1, <4>2, <4>4, LateRowOvertaken DEF Safe, Forsaken
        <4> QED BY <3>2, <4>3, <4>4, StreamAssumption
      <3> QED BY <3>4, <3>5
    <2>5. Batch' = Batch
      BY <2>1 DEF Batch
    <2>6. \A o \in DOMAIN rows' : topic[o].kind # "unparseable"
      BY <2>1 DEF FrameCovers
    <2> QED BY <1>0, <1>1, <2>1, <2>3, <2>4, <2>5, <2>6 DEF FrameCovers
  <1>7. ASSUME NEW o \in DOMAIN rows, WriteRow(o) \/ WriteRowTimesOut(o)
        PROVE  FrameCovers'
    <2>1. /\ stage \in SinkStages /\ UNCHANGED <<committed, planned, stage>>
          /\ DOMAIN rows' = DOMAIN rows /\ stored \subseteq stored'
          /\ \A p \in DOMAIN rows : rows'[p] = "stored" => rows[p] = "stored" \/ p \in stored'
      BY <1>7 DEF WriteRow, WriteRowTimesOut
    <2>2. Batch' = Batch
      BY <2>1 DEF Batch
    <2> QED BY <1>0, <1>1, <2>1, <2>2 DEF FrameCovers, SinkStages
  <1>8. CASE CollectStats
    <2>1. /\ stage = "collect" /\ stage' = "count"
          /\ UNCHANGED <<committed, planned, rows, stored>>
      BY <1>8 DEF CollectStats, durable
    <2>2. Batch' = Batch
      BY <2>1 DEF Batch
    <2> QED BY <1>0, <1>1, <2>1, <2>2 DEF FrameCovers, BatchStages, SinkStages
  <1>9. CASE CountDlq
    <2>1. /\ stage = "count" /\ UNCHANGED <<committed, planned, rows, stored>>
          /\ With("pending") = {}
          /\ stage' = IF With("failed") = {} THEN "advance" ELSE "emit"
      BY <1>9 DEF CountDlq, durable
    <2>2. Batch' = Batch
      BY <2>1 DEF Batch
    <2>3. \A o \in Batch : o \in DOMAIN rows \/ Safe(o)
      BY <2>1 DEF FrameCovers, BatchStages, SinkStages
    <2>4. ASSUME With("failed") = {}, NEW o \in Batch PROVE Safe(o)
      <3>1. o \in DOMAIN rows => rows[o] = "stored"
        BY <2>1, <2>4 DEF With, TypeOK, Outcomes
      <3> QED BY <2>3, <3>1 DEF FrameCovers, Safe, Accounted
    <2> QED BY <1>0, <1>1, <2>1, <2>2, <2>3, <2>4 DEF FrameCovers
  <1>10. CASE EmitDlq
    <2>1. /\ stage = "emit" /\ stage' = "advance"
          /\ UNCHANGED <<committed, planned, rows, stored>>
          /\ With("pending") = {}
      BY <1>10 DEF EmitDlq, durable
    <2>2. \A o \in With("failed") : Safe(o)'
      BY <1>10, <2>1, QuarantinedIsSafe DEF EmitDlq, DlqRows
    <2>3. ASSUME NEW o \in Batch PROVE Safe(o)'
      <3>1. CASE o \in DOMAIN rows
        <4>1. rows[o] = "stored" \/ o \in With("failed")
          BY <2>1, <3>1 DEF With, TypeOK, Outcomes
        <4> QED BY <1>0, <1>1, <2>2, <4>1, <3>1 DEF FrameCovers, Safe, Accounted
      <3>2. CASE o \notin DOMAIN rows
        BY <1>0, <1>1, <2>1, <3>2 DEF FrameCovers, BatchStages, SinkStages
      <3> QED BY <3>1, <3>2
    <2>4. Batch' = Batch
      BY <2>1 DEF Batch
    <2> QED BY <1>0, <1>1, <2>1, <2>3, <2>4 DEF FrameCovers
  <1>11. CASE AdvanceWatermark
    <2>1. /\ stage = "advance" /\ stage' = "commit"
          /\ UNCHANGED <<committed, planned, rows, stored>>
      BY <1>11 DEF AdvanceWatermark, durable
    <2>2. Batch' = Batch
      BY <2>1 DEF Batch
    <2> QED BY <1>0, <1>1, <2>1, <2>2 DEF FrameCovers
  <1>12. CASE CommitBatch
    BY <1>12 DEF CommitBatch, NoRows, FrameCovers, BatchStages, SinkStages
  <1>13. ASSUME NEW S \in SUBSET DlqRows, TornDlqWrite(S) PROVE FrameCovers'
    BY <1>2, <1>13 DEF TornDlqWrite, durable
  <1>14. ASSUME NEW S \in SUBSET DOMAIN rows, LoseOutcomes(S) PROVE FrameCovers'
    <2>1. /\ stage \in SinkStages /\ UNCHANGED <<committed, planned, stage, stored>>
          /\ DOMAIN rows' = DOMAIN rows
          /\ \A p \in DOMAIN rows : rows'[p] = "stored" => rows[p] = "stored"
      BY <1>14 DEF LoseOutcomes, durable
    <2>2. Batch' = Batch
      BY <2>1 DEF Batch
    <2> QED BY <1>0, <1>1, <2>1, <2>2 DEF FrameCovers, SinkStages
  <1>15. CASE DriverDies
    BY <1>15 DEF DriverDies, NoRows, FrameCovers, BatchStages, SinkStages
  <1>16. CASE Restart
    <2>1. /\ stage' = IF committed < planned THEN "parse" ELSE "idle"
          /\ rows' = [o \in Batch |-> "pending"] /\ UNCHANGED <<committed, planned>>
      BY <1>16 DEF Restart, Pending, durable
    <2>2. ~(committed < planned) => Batch = {}
      BY DEF Batch, TypeOK
    <2>3. Batch' = Batch
      BY <2>1 DEF Batch
    <2> QED BY <2>1, <2>2, <2>3 DEF FrameCovers, BatchStages, SinkStages
  <1>17. CASE UNCHANGED vars
    BY <1>2, <1>17 DEF vars, durable
  <1> QED
    BY <1>3, <1>4, <1>5, <1>6, <1>7, <1>8, <1>9, <1>10, <1>11, <1>12, <1>13, <1>14,
       <1>15, <1>16, <1>17 DEF Next, DriverStep, Fault

(* The committed offset moves in CommitBatch only, over a batch that is    *)
(* safe by then.                                                           *)
LEMMA LossStep ==
  ASSUME TypeOK, BatchOpen, FrameCovers, NoSilentLoss, [Next]_vars
  PROVE  NoSilentLoss'
  <1>1. 1..committed \subseteq 1..planned /\ Batch \subseteq 1..planned
    BY DEF TypeOK, Batch
  <1>2. CASE CommitBatch
    <2>1. committed' = planned /\ \A o \in Batch : Safe(o)
      BY <1>2 DEF CommitBatch, FrameCovers
    <2>2. \A o \in 1..planned : o \in 1..committed \/ o \in Batch
      BY DEF TypeOK, Batch
    <2> QED BY <1>1, <2>1, <2>2, SafeGrows DEF NoSilentLoss, Safe
  <1>3. CASE committed' = committed
    BY <1>1, <1>3, SafeGrows DEF NoSilentLoss, Safe
  <1>4. CommitBatch \/ committed' = committed
    BY DEF Next, DriverStep, Fault, vars, durable, Produce, PlanBatch,
       RouteUnparseable, RouteLate, WriteRow, CollectStats, CountDlq, EmitDlq,
       AdvanceWatermark, TornDlqWrite, WriteRowTimesOut, LoseOutcomes, DriverDies, Restart
  <1> QED BY <1>2, <1>3, <1>4

-----------------------------------------------------------------------------
(* Redelivery is paid for by faults. *)

LEMMA FatesType ==
  ASSUME TypeOK
  PROVE  \A o \in Offsets : Fates(o) \in Nat /\ copies[o] \in Nat
  BY DEF TypeOK, Fates

(* Only rows that were not stored are sent to the dead letters. *)
LEMMA DlqRowsUnstored ==
  ASSUME FatesPaid, NEW o \in DlqRows
  PROVE  /\ o \in DOMAIN rows /\ rows[o] # "stored"
         /\ stage \in {"parse", "late", "emit"}
  <1>1. o \in DOMAIN rows /\ stage \in {"parse", "late", "emit"}
    BY DlqRowsInFrame DEF DlqRows
  <1>2. rows[o] # "stored"
    BY <1>1 DEF DlqRows, FatesPaid, With
  <1> QED BY <1>1, <1>2

(* A write to the dead letters adds one fate to the rows that it sends. *)
LEMMA QuarantineFates ==
  ASSUME TypeOK, NEW S, Quarantine(S), stored' = stored
  PROVE  \A o \in Offsets :
           /\ Fates(o)' = Fates(o) + (IF o \in S THEN 1 ELSE 0)
           /\ copies'[o] = copies[o] + (IF o \in S THEN 1 ELSE 0)
  <1> SUFFICES ASSUME NEW o \in Offsets
               PROVE  /\ Fates(o)' = Fates(o) + (IF o \in S THEN 1 ELSE 0)
                      /\ copies'[o] = copies[o] + (IF o \in S THEN 1 ELSE 0)
    OBVIOUS
  <1>1. copies'[o] = copies[o] + (IF o \in S THEN 1 ELSE 0)
    BY DEF Quarantine
  <1>2. copies[o] \in Nat
    BY FatesType
  <1> QED BY <1>1, <1>2 DEF Fates

LEMMA FatesInit == Init => FatesPaid
  BY StreamAssumption DEF Init, FatesPaid, Fates, NoRows

(* Each step pays for what it repeats; one case per action. *)
LEMMA FatesStep ==
  ASSUME TypeOK, BatchOpen, FatesPaid, [Next]_vars
  PROVE  FatesPaid'
  <1> USE StreamAssumption
  <1>0. /\ faults \in Nat /\ planned \in Nat /\ committed \in Nat
        /\ DOMAIN rows \subseteq Offsets
        /\ \A o \in DOMAIN rows : ~(planned < o)
        /\ \A o \in Offsets : Fates(o) \in Nat /\ copies[o] \in Nat
    <2>1. faults \in Nat /\ planned \in Nat /\ committed \in Nat
      BY DEF TypeOK
    <2>2. planned <= MaxRecords /\ DOMAIN rows \subseteq Batch
      BY DEF TypeOK
    <2>3. DOMAIN rows \subseteq Offsets /\ \A o \in DOMAIN rows : ~(planned < o)
      BY <2>1, <2>2 DEF Batch, Offsets
    <2> QED BY <2>1, <2>3, FatesType
  <1>00. ASSUME UNCHANGED <<copies, stored>> PROVE \A o \in Offsets : Fates(o)' = Fates(o)
    BY <1>00 DEF Fates
  <1>1. ASSUME NEW e \in Events, Produce(e) PROVE FatesPaid'
    <2>1. UNCHANGED <<planned, copies, stored, faults, rows, stage>>
      BY <1>1 DEF Produce, deadLetters
    <2> QED BY <1>0, <1>00, <2>1 DEF FatesPaid
  <1>2. CASE PlanBatch
    <2>1. /\ UNCHANGED <<copies, stored, faults>> /\ stage = "idle" /\ stage' = "parse"
          /\ \A o \in Offsets : Fates(o)' = Fates(o)
      BY <1>00, <1>2 DEF PlanBatch, deadLetters
    <2>2. planned' \in Nat /\ planned <= planned' /\ planned' <= MaxRecords
      BY <1>2 DEF PlanBatch, TypeOK, BatchOpen
    <2>3. \A o \in DOMAIN rows' : rows'[o] = "pending" /\ o \in Offsets /\ planned < o
      <3>1. DOMAIN rows' = (planned + 1)..planned' /\ \A o \in DOMAIN rows' : rows'[o] = "pending"
        BY <1>2 DEF PlanBatch, Pending, BatchOpen
      <3> QED BY <1>0, <2>2, <3>1 DEF Offsets
    <2>4. \A o \in Offsets : planned < o => Fates(o) = 0
      <3> SUFFICES ASSUME NEW o \in Offsets, planned < o PROVE Fates(o) = 0
        OBVIOUS
      <3>1. o \notin stored
        BY DEF TypeOK, Offsets
      <3> QED BY <3>1 DEF FatesPaid, Fates
    <2>5. \A o \in Offsets : planned' < o => copies'[o] = 0
      BY <1>0, <2>1, <2>2 DEF FatesPaid, Offsets
    <2> QED BY <1>0, <2>1, <2>3, <2>4, <2>5 DEF FatesPaid
  <1>3. CASE RouteUnparseable
    <2>1. /\ stage = "parse" /\ stage' = "late" /\ UNCHANGED <<planned, stored, faults>>
          /\ DOMAIN rows' = DOMAIN rows \ DlqRows
          /\ \A o \in DOMAIN rows' : rows'[o] = rows[o]
          /\ Quarantine(DlqRows)
      BY <1>3 DEF RouteUnparseable, Keep, durable
    <2> QED BY <1>0, <2>1, DlqRowsUnstored, QuarantineFates DEF FatesPaid
  <1>4. CASE RouteLate
    <2>1. /\ stage = "late" /\ stage' = "collect" /\ UNCHANGED <<planned, stored, faults>>
          /\ DOMAIN rows' \subseteq DOMAIN rows
          /\ \A o \in DOMAIN rows' : rows'[o] = rows[o]
          /\ Quarantine(DlqRows)
      BY <1>4 DEF RouteLate, Keep, durable
    <2>2. \A o \in DOMAIN rows' : o \notin DlqRows
      <3> SUFFICES ASSUME NEW o \in DOMAIN rows', o \in LateRows PROVE FALSE
        BY <2>1 DEF DlqRows
      <3>1. NotOlder(topic[o]) /\ hwm # NoTime /\ OlderThanCutoff(topic[o])
        BY <1>4 DEF RouteLate, Keep, LateRows
      <3>2. o \in 1..planned
        BY <2>1 DEF TypeOK, Batch
      <3>3. topic[o].time \in Nat /\ hwm \in Nat
        BY <3>1, <3>2, BatchRecord DEF TypeOK, NotOlder
      <3> QED BY <3>1, <3>3 DEF NotOlder, OlderThanCutoff
    <2> QED BY <1>0, <2>1, <2>2, DlqRowsUnstored, QuarantineFates DEF FatesPaid
  <1>5. ASSUME NEW o \in DOMAIN rows, WriteRow(o) PROVE FatesPaid'
    <2>1. /\ stage \in SinkStages /\ rows[o] = "pending" /\ DOMAIN rows' = DOMAIN rows
          /\ UNCHANGED <<planned, copies, stage, faults>>
          /\ \A p \in DOMAIN rows : p # o => rows'[p] = rows[p]
          /\ \/ rows'[o] = "stored" /\ stored' = stored \cup {o}
             \/ rows'[o] = "failed" /\ stored' = stored
      BY <1>5 DEF WriteRow, deadLetters, TypeOK
    <2>2. Fates(o) <= faults
      BY <2>1 DEF FatesPaid, SinkStages
    <2>3. \A p \in Offsets : p # o => Fates(p)' = Fates(p)
      BY <2>1 DEF Fates
    <2>4. Fates(o)' <= 1 + faults /\ (stored' = stored => Fates(o)' = Fates(o))
      BY <1>0, <2>1, <2>2 DEF Fates
    <2> QED BY <1>0, <2>1, <2>2, <2>3, <2>4 DEF FatesPaid, SinkStages
  <1>5a. ASSUME NEW o \in DOMAIN rows, WriteRowTimesOut(o) PROVE FatesPaid'
    <2>1. /\ stage \in SinkStages /\ rows[o] = "pending" /\ DOMAIN rows' = DOMAIN rows
          /\ UNCHANGED <<planned, copies, stage>> /\ faults' = faults + 1
          /\ \A p \in DOMAIN rows : p # o => rows'[p] = rows[p]
          /\ stored' = stored \cup {o}
      BY <1>5a DEF WriteRowTimesOut, deadLetters, TypeOK
    <2>2. Fates(o) <= faults
      BY <2>1 DEF FatesPaid, SinkStages
    <2>3. \A p \in Offsets : p # o => Fates(p)' = Fates(p)
      BY <2>1 DEF Fates
    <2>4. Fates(o)' <= 1 + faults /\ Fates(o)' \in Nat
      BY <1>0, <2>1, <2>2 DEF Fates
    <2>5. \A p \in DOMAIN rows : p # o => (rows'[p] # "stored" => Fates(p)' <= faults')
      BY <1>0, <2>1, <2>3 DEF FatesPaid, SinkStages
    <2> QED BY <1>0, <2>1, <2>2, <2>3, <2>4, <2>5 DEF FatesPaid, SinkStages
  <1>6. CASE CollectStats
    BY <1>0, <1>00, <1>6 DEF CollectStats, FatesPaid, durable, deadLetters
  <1>7. CASE CountDlq
    <2>1. /\ UNCHANGED <<planned, copies, stored, faults, rows>>
          /\ stage = "count" /\ stage' \in {"advance", "emit"}
      BY <1>7 DEF CountDlq, durable, deadLetters
    <2> QED BY <1>0, <1>00, <2>1 DEF FatesPaid
  <1>8. CASE EmitDlq
    <2>1. /\ stage = "emit" /\ stage' = "advance" /\ UNCHANGED <<planned, stored, faults, rows>>
          /\ Quarantine(DlqRows)
      BY <1>8 DEF EmitDlq, durable
    <2> QED BY <1>0, <2>1, DlqRowsUnstored, QuarantineFates DEF FatesPaid
  <1>9. CASE AdvanceWatermark
    BY <1>0, <1>00, <1>9 DEF AdvanceWatermark, FatesPaid, durable, deadLetters
  <1>10. CASE CommitBatch
    BY <1>00, <1>10 DEF CommitBatch, FatesPaid, deadLetters, NoRows
  <1>11. ASSUME NEW S \in SUBSET DlqRows, TornDlqWrite(S) PROVE FatesPaid'
    <2>1. /\ S # {} /\ faults' = faults + 1 /\ UNCHANGED <<planned, stored, stage, rows>>
          /\ Quarantine(S)
      BY <1>11 DEF TornDlqWrite, durable
    <2>2. stage # "down"
      BY <2>1, DlqRowsUnstored
    <2>3. \A o \in Offsets : o \in S => Fates(o) <= faults
      BY DlqRowsUnstored DEF FatesPaid
    <2>4. \A o \in Offsets : Fates(o)' <= 1 + faults
      BY <1>0, <2>1, <2>3, QuarantineFates DEF FatesPaid
    <2>5. \A o \in Offsets : planned < o => copies'[o] = 0
      BY <1>0, <2>1, DlqRowsInFrame, QuarantineFates DEF FatesPaid
    <2>6. \A o \in Offsets : Fates(o)' \in Nat /\ Fates(o)' <= faults' /\ Fates(o)' <= 1 + faults'
      BY <1>0, <2>1, <2>4, QuarantineFates
    <2> QED BY <1>0, <2>1, <2>2, <2>5, <2>6 DEF FatesPaid
  <1>12. ASSUME NEW S \in SUBSET DOMAIN rows, LoseOutcomes(S) PROVE FatesPaid'
    <2>1. /\ faults' = faults + 1 /\ UNCHANGED <<planned, copies, stored, stage>>
          /\ DOMAIN rows' = DOMAIN rows /\ stage \in SinkStages
      BY <1>12 DEF LoseOutcomes, durable, deadLetters
    <2>2. \A o \in Offsets : Fates(o)' <= faults' /\ Fates(o)' <= 1 + faults'
      BY <1>0, <1>00, <2>1 DEF FatesPaid
    <2> QED BY <1>0, <2>1, <2>2 DEF FatesPaid, SinkStages
  <1>13. CASE DriverDies
    <2>1. /\ faults' = faults + 1 /\ UNCHANGED <<planned, copies, stored>>
          /\ DOMAIN rows' = {} /\ stage' = "down"
      BY <1>13 DEF DriverDies, durable, deadLetters, NoRows
    <2>2. \A o \in Offsets : Fates(o)' <= faults' /\ Fates(o)' <= 1 + faults'
      BY <1>0, <1>00, <2>1 DEF FatesPaid
    <2> QED BY <1>0, <2>1, <2>2 DEF FatesPaid
  <1>14. CASE Restart
    <2>1. /\ UNCHANGED <<planned, copies, stored, faults>> /\ stage = "down"
          /\ stage' # "down"
          /\ DOMAIN rows' = Batch /\ \A o \in Batch : rows'[o] = "pending"
      BY <1>14 DEF Restart, Pending, durable, deadLetters
    <2>2. Batch \subseteq Offsets
      BY DEF TypeOK, Batch, Offsets
    <2>3. \A o \in Offsets : Fates(o)' <= faults'
      BY <1>00, <2>1 DEF FatesPaid
    <2> QED BY <1>0, <1>00, <2>1, <2>2, <2>3 DEF FatesPaid
  <1>15. CASE UNCHANGED vars
    BY <1>0, <1>00, <1>15 DEF vars, FatesPaid, durable, deadLetters
  <1> QED
    BY <1>1, <1>2, <1>3, <1>4, <1>5, <1>5a, <1>6, <1>7, <1>8, <1>9, <1>10, <1>11,
       <1>12, <1>13, <1>14, <1>15 DEF Next, DriverStep, Fault

-----------------------------------------------------------------------------
(* The watermark is the history of the process. *)

LEMMA WatermarkInit == Init => WatermarkLatest
  BY StreamAssumption DEF Init, WatermarkLatest, Completed, Filtered, BatchStages, SinkStages

(* What the driver has read keeps its times: the topic only grows. *)
LEMMA ReadIsFixed ==
  ASSUME TypeOK, BatchOpen, since <= committed, [Next]_vars
  PROVE  /\ Completed \subseteq 1..planned /\ Batch \subseteq 1..planned
         /\ Filtered \subseteq Batch
         /\ \A o \in 1..planned :
              /\ topic'[o] = topic[o] /\ (Timed(o)' <=> Timed(o))
              /\ topic[o].time \in Nat \cup {NoTime}
  <1>1. /\ Completed \subseteq 1..planned /\ Batch \subseteq 1..planned
        /\ Filtered \subseteq Batch
    BY DEF TypeOK, Completed, Batch, Filtered
  <1>2. \A o \in 1..planned : topic'[o] = topic[o] /\ topic[o].time \in Nat \cup {NoTime}
    BY BatchRecord, DurableGrows
  <1>3. \A o \in 1..planned : Timed(o)' <=> Timed(o)
    BY <1>2 DEF Timed
  <1> QED BY <1>1, <1>2, <1>3

(* A step that completes nothing and filters nothing timed keeps it. *)
LEMMA WatermarkKept ==
  ASSUME TypeOK, BatchOpen, WatermarkLatest, [Next]_vars,
         UNCHANGED <<hwm, since>>, since' <= committed', Completed' = Completed,
         stage # "down", stage' # "down",
         \A o \in Filtered' :
           \/ o \in Filtered
           \/ o \in 1..planned /\ (Timed(o) => hwm # NoTime /\ topic[o].time <= hwm)
  PROVE  WatermarkLatest'
  <1>1. \A o \in Completed \cup Filtered :
          Timed(o) => hwm # NoTime /\ topic[o].time <= hwm
    BY DEF WatermarkLatest
  <1>2. hwm # NoTime => \E o \in Completed : Timed(o) /\ topic[o].time = hwm
    BY DEF WatermarkLatest
  <1>3. \A o \in (Completed \cup Filtered)' :
          o \in 1..planned /\ (Timed(o) => hwm # NoTime /\ topic[o].time <= hwm)
    BY <1>1, ReadIsFixed DEF WatermarkLatest
  <1>4. \A o \in 1..planned : topic'[o] = topic[o] /\ (Timed(o)' <=> Timed(o))
    BY ReadIsFixed DEF WatermarkLatest
  <1>5. \A o \in (Completed \cup Filtered)' :
          Timed(o)' => hwm' # NoTime /\ topic'[o].time <= hwm'
    BY <1>3, <1>4
  <1>6. hwm' # NoTime => \E o \in Completed' : Timed(o)' /\ topic'[o].time = hwm'
    BY <1>2, <1>4, ReadIsFixed DEF WatermarkLatest
  <1> QED BY <1>5, <1>6 DEF WatermarkLatest

LEMMA WatermarkLatestStep ==
  ASSUME TypeOK, BatchOpen, FrameCovers, WatermarkLatest, [Next]_vars
  PROVE  WatermarkLatest'
  <1> USE StreamAssumption
  <1>0. /\ since <= committed /\ Completed \subseteq 1..planned /\ Batch \subseteq 1..planned
        /\ DOMAIN rows \subseteq Batch
        /\ \A o \in 1..planned :
             /\ topic'[o] = topic[o] /\ (Timed(o)' <=> Timed(o))
             /\ topic[o].time \in Nat \cup {NoTime}
    BY ReadIsFixed DEF WatermarkLatest, TypeOK
  <1>1. CASE PlanBatch
    <2>1. /\ UNCHANGED <<hwm, since, committed>> /\ stage = "idle" /\ stage' = "parse"
          /\ DOMAIN rows' = Batch'
      BY <1>1 DEF PlanBatch, Pending, Batch
    <2>2. Completed' = Completed /\ Filtered' = {}
      BY <2>1 DEF Completed, Filtered
    <2> QED BY <1>0, <2>1, <2>2, WatermarkKept
  <1>2. CASE RouteUnparseable
    <2>1. /\ UNCHANGED <<hwm, since, committed, planned>> /\ stage = "parse" /\ stage' = "late"
          /\ DOMAIN rows' = DOMAIN rows \ DlqRows
      BY <1>2 DEF RouteUnparseable, durable, Keep
    <2>2. Completed' = Completed /\ Batch' = Batch
      BY <2>1 DEF Completed, Batch
    <2>3. \A o \in DlqRows : ~Timed(o)
      BY <2>1 DEF DlqRows, Timed
    <2>4. \A o \in Filtered' :
            \/ o \in Filtered
            \/ o \in 1..planned /\ (Timed(o) => hwm # NoTime /\ topic[o].time <= hwm)
      <3>1. Filtered' = Batch \ DOMAIN rows' /\ Filtered = Batch \ DOMAIN rows
        BY <2>1, <2>2 DEF Filtered, BatchStages
      <3>2. \A o \in Filtered' : o \in Filtered \/ (o \in DlqRows /\ o \in Batch)
        BY <2>1, <3>1
      <3> QED BY <1>0, <2>3, <3>2
    <2> QED BY <1>0, <2>1, <2>2, <2>4, WatermarkKept
  <1>3. CASE RouteLate
    <2>1. /\ UNCHANGED <<hwm, since, committed, planned>> /\ stage = "late" /\ stage' = "collect"
      BY <1>3 DEF RouteLate, durable
    <2>2. Completed' = Completed /\ Batch' = Batch
      BY <2>1 DEF Completed, Batch
    <2>3. ASSUME NEW o \in DOMAIN rows, o \notin DOMAIN rows', Timed(o)
          PROVE  hwm # NoTime /\ topic[o].time <= hwm
      <3>1. LateRows # {} /\ ~NotOlder(topic[o])
        BY <1>3, <2>3 DEF RouteLate, Keep
      <3>2. hwm # NoTime /\ hwm \in Nat
        BY <3>1 DEF LateRows, TypeOK
      <3>3. topic[o].time \in Nat
        BY <1>0, <2>3 DEF Timed
      <3>4. ~(topic[o].time >= hwm - Lateness)
        BY <2>3, <3>1 DEF NotOlder, Timed
      <3> QED BY <3>2, <3>3, <3>4
    <2>4. \A o \in Filtered' :
            \/ o \in Filtered
            \/ o \in DOMAIN rows /\ o \notin DOMAIN rows'
      BY <2>1, <2>2 DEF Filtered, BatchStages
    <2>5. \A o \in Filtered' :
            \/ o \in Filtered
            \/ o \in 1..planned /\ (Timed(o) => hwm # NoTime /\ topic[o].time <= hwm)
      BY <1>0, <2>3, <2>4
    <2> QED BY <1>0, <2>1, <2>2, <2>5, WatermarkKept
  <1>4. CASE AdvanceWatermark
    <2> DEFINE times == {topic[o].time : o \in DOMAIN rows} \ {NoTime}
    <2>1. /\ stage = "advance" /\ stage' = "commit"
          /\ UNCHANGED <<since, committed, planned, rows>>
      BY <1>4 DEF AdvanceWatermark, durable
    <2>2. /\ Completed = (since + 1)..committed /\ Completed' = (since + 1)..planned
          /\ Filtered' = Batch \ DOMAIN rows /\ Filtered = Batch \ DOMAIN rows
      BY <2>1 DEF Completed, Filtered, Batch, BatchStages
    <2>3. /\ Completed' = Completed \cup Filtered \cup DOMAIN rows
          /\ Filtered' \subseteq Completed'
      BY <1>0, <2>2 DEF Batch, TypeOK
    <2>4. \A o \in Completed \cup Filtered :
            Timed(o) => hwm # NoTime /\ topic[o].time <= hwm
      BY <2>1 DEF WatermarkLatest
    <2>5. \A o \in DOMAIN rows : topic[o].kind # "unparseable"
      BY <2>1 DEF FrameCovers
    <2>6. \A o \in DOMAIN rows : Timed(o) <=> topic[o].time \in times
      BY <2>5 DEF Timed
    <2>7. hwm \in Nat \cup {NoTime} /\ \A t \in times : t \in Nat
      BY <1>0 DEF TypeOK
    <2>8. /\ times = {} => hwm' = hwm
          /\ times # {} => \E t \in times :
               /\ \A u \in times : u <= t
               /\ hwm' = IF hwm # NoTime /\ hwm > t THEN hwm ELSE t
      BY <1>4 DEF AdvanceWatermark
    <2>9. \A o \in Completed' : Timed(o) => hwm' # NoTime /\ topic[o].time <= hwm'
      <3> HIDE DEF times
      <3>1. \A t \in times : hwm' \in Nat /\ t <= hwm'
        BY <2>7, <2>8
      <3>2. hwm # NoTime => hwm' \in Nat /\ hwm <= hwm'
        BY <2>7, <2>8
      <3>3. \A o \in DOMAIN rows : Timed(o) => hwm' # NoTime /\ topic[o].time <= hwm'
        BY <2>6, <3>1
      <3>4. ASSUME NEW o \in Completed \cup Filtered, Timed(o)
            PROVE  hwm' # NoTime /\ topic[o].time <= hwm'
        <4>1. hwm # NoTime /\ topic[o].time <= hwm /\ topic[o].time \in Nat
          BY <1>0, <2>3, <2>4, <3>4, ReadIsFixed DEF Timed
        <4> QED BY <2>7, <3>2, <4>1
      <3> QED BY <2>3, <3>3, <3>4
    <2>10. hwm' # NoTime => \E o \in Completed' : Timed(o) /\ topic[o].time = hwm'
      <3>1. hwm' = hwm \/ \E o \in DOMAIN rows : topic[o].time = hwm' /\ hwm' \in times
        BY <2>8
      <3>2. hwm # NoTime => \E o \in Completed : Timed(o) /\ topic[o].time = hwm
        BY DEF WatermarkLatest
      <3> QED BY <2>3, <2>6, <3>1, <3>2
    <2>11. Completed' \subseteq 1..planned
      BY <1>0, <2>2, <2>3
    <2> QED BY <1>0, <2>1, <2>3, <2>9, <2>10, <2>11 DEF WatermarkLatest
  <1>5. CASE CommitBatch
    <2>1. /\ stage = "commit" /\ stage' = "idle" /\ committed' = planned
          /\ UNCHANGED <<hwm, since, planned>>
      BY <1>5 DEF CommitBatch
    <2>2. Completed' = Completed /\ Filtered' = {}
      BY <2>1 DEF Completed, Filtered, BatchStages, SinkStages
    <2>3. since' <= committed'
      BY <1>0, <2>1 DEF TypeOK
    <2> QED BY <2>1, <2>2, <2>3, WatermarkKept
  <1>6. CASE DriverDies
    <2>1. /\ stage' = "down" /\ hwm' = NoTime /\ UNCHANGED <<since, committed>>
      BY <1>6 DEF DriverDies, durable
    <2> QED BY <1>0, <2>1 DEF WatermarkLatest
  <1>7. CASE Restart
    <2>1. /\ stage = "down" /\ stage' \in {"parse", "idle"} /\ since' = committed
          /\ UNCHANGED <<hwm, committed, planned>> /\ DOMAIN rows' = Batch
      BY <1>7 DEF Restart, durable, Pending
    <2>2. Completed' = {} /\ Filtered' = {} /\ hwm' = NoTime
      BY <2>1 DEF Completed, Filtered, Batch, TypeOK, WatermarkLatest, BatchStages, SinkStages
    <2> QED BY <2>1, <2>2 DEF WatermarkLatest, TypeOK
  <1>8. CASE \/ \E e \in Events : Produce(e)
             \/ \E o \in DOMAIN rows : WriteRow(o)
             \/ CollectStats \/ CountDlq \/ EmitDlq
             \/ \E o \in DOMAIN rows : WriteRowTimesOut(o)
             \/ \E S \in SUBSET DlqRows : TornDlqWrite(S)
             \/ \E S \in SUBSET DOMAIN rows : LoseOutcomes(S)
             \/ UNCHANGED vars
    <2>1. UNCHANGED <<hwm, since, committed, planned>> /\ DOMAIN rows' = DOMAIN rows
      BY <1>8 DEF Produce, WriteRow, CollectStats, CountDlq, EmitDlq, TornDlqWrite,
         WriteRowTimesOut, LoseOutcomes, vars, durable
    <2>2. \/ stage' = stage
          \/ stage \in SinkStages /\ stage' \in {"count", "advance", "emit"}
      BY <1>8 DEF Produce, WriteRow, CollectStats, CountDlq, EmitDlq, TornDlqWrite,
         WriteRowTimesOut, LoseOutcomes, vars, SinkStages
    <2>3. Completed' = Completed /\ Filtered' = Filtered
      BY <2>1, <2>2 DEF Completed, Filtered, Batch, BatchStages, SinkStages
    <2>4. CASE stage = "down"
      <3>1. stage' = "down"
        BY <2>2, <2>4 DEF SinkStages
      <3> QED BY <1>0, <2>1, <2>4, <3>1 DEF WatermarkLatest
    <2>5. CASE stage # "down"
      <3>1. stage' # "down"
        BY <2>2, <2>5
      <3> QED BY <1>0, <2>1, <2>3, <2>5, <3>1, WatermarkKept
    <2> QED BY <2>4, <2>5
  <1> QED
    BY <1>1, <1>2, <1>3, <1>4, <1>5, <1>6, <1>7, <1>8 DEF Next, DriverStep, Fault

(* A watermark that is the time of a completed record, with none newer, is *)
(* the latest of their times.                                              *)
LEMMA LatestIsHistory ==
  ASSUME TypeOK, WatermarkLatest
  PROVE  WatermarkIsHistory
  <1> SUFFICES ASSUME stage \notin {"down", "commit"}
               PROVE  IsLatest(hwm, TimesIn((since + 1)..committed))
    BY DEF WatermarkIsHistory
  <1> DEFINE S == (since + 1)..committed
  <1>1. Completed = S
    BY DEF Completed
  <1>2. \A t : t \in TimesIn(S) <=> \E o \in S : Timed(o) /\ topic[o].time = t
    BY DEF TimesIn, Timed
  <1>3. \A t \in TimesIn(S) : hwm # NoTime /\ t <= hwm
    BY <1>1, <1>2 DEF WatermarkLatest
  <1>4. hwm # NoTime => hwm \in TimesIn(S)
    BY <1>1, <1>2 DEF WatermarkLatest
  <1> HIDE DEF S
  <1>5. IsLatest(hwm, TimesIn(S))
    BY <1>3, <1>4 DEF IsLatest
  <1> QED BY <1>5 DEF S

-----------------------------------------------------------------------------
LEMMA StreamInvInit == Init => StreamInv
  <1> SUFFICES ASSUME Init PROVE StreamInv
    OBVIOUS
  <1>1. FrameCovers /\ BatchOpen
    BY StreamAssumption DEF Init, NoRows, FrameCovers, BatchOpen, BatchStages, SinkStages
  <1>2. WatermarkSeen /\ LateIsJustified /\ NoSilentLoss
    BY DEF Init, WatermarkSeen, LateIsJustified, NoSilentLoss
  <1> QED BY <1>1, <1>2, TypeInit, FatesInit, WatermarkInit DEF StreamInv

LEMMA StreamInvStep == StreamInv /\ [Next]_vars => StreamInv'
  BY TypeStep, CoverStep, WatermarkStep, LateStep, LossStep, FatesStep,
     WatermarkLatestStep DEF StreamInv

(* The inductive invariant holds in every reachable state. *)
THEOREM StreamInvariant == Spec => []StreamInv
  BY StreamInvInit, StreamInvStep, PTL DEF Spec

(* Zero silent loss for every topic, batch size, lateness, late policy and *)
(* number of crashes: a record below the committed offset is stored,       *)
(* quarantined, or one that the late filter is known to give up.           *)
THEOREM StreamLosesNothing == Spec => []NoSilentLoss
  <1>1. StreamInv => NoSilentLoss
    BY DEF StreamInv
  <1> QED BY <1>1, StreamInvariant, PTL

(* No record is quarantined as late unless a record of an earlier batch    *)
(* overtook it by more than the allowed lateness.                          *)
THEOREM StreamLateJustified == Spec => []LateIsJustified
  <1>1. StreamInv => LateIsJustified
    BY DEF StreamInv
  <1> QED BY <1>1, StreamInvariant, PTL

(* A record meets more than one fate only as often as a fault made the     *)
(* driver repeat work or hid that a write was applied: _process_batch      *)
(* sends a row to the dead letters or to the tables once in a batch, only  *)
(* a fault makes it run a batch or a write again, and a row that the sink  *)
(* dead-letters is in the tables only if such a write reached them before. *)
THEOREM StreamRedeliveryBounded == Spec => []BoundedRedelivery
  <1>1. StreamInv => BoundedRedelivery
    BY DEF StreamInv, FatesPaid, Fates, BoundedRedelivery
  <1> QED BY <1>1, StreamInvariant, PTL

(* The watermark that a batch is judged by is the newest event time of the *)
(* batches this process has completed: _max_event_ms is raised after the   *)
(* batch, from the rows that the late filter kept, and those it took out   *)
(* were older.                                                             *)
THEOREM StreamWatermarkHistory == Spec => []WatermarkIsHistory
  <1>1. StreamInv => WatermarkIsHistory
    BY LatestIsHistory DEF StreamInv
  <1> QED BY <1>1, StreamInvariant, PTL

-----------------------------------------------------------------------------
(* Refinement: StreamJob implements DeliveryContract.                      *)

(* Records keep their neighbourhood: whether one was overtaken, or given   *)
(* up, does not depend on what is appended after the planned offset.       *)
LEMMA OvertakenStable ==
  ASSUME TypeOK, [Next]_vars, NEW o \in 1..planned
  PROVE  topic'[o] = topic[o] /\ (Overtaken(o)' <=> Overtaken(o))
  <1>1. 1..o \subseteq 1..Len(topic) /\ 1..(o - 1) \subseteq 1..o /\ o \in 1..o
    BY DEF TypeOK
  <1>2. \A p \in 1..o : topic'[p] = topic[p]
    BY <1>1, DurableGrows
  <1> QED BY <1>1, <1>2 DEF Overtaken

LEMMA ForsakenStable ==
  ASSUME TypeOK, [Next]_vars, planned' = planned, NEW o \in 1..planned
  PROVE  Forsaken(o)' <=> Forsaken(o)
  <1>1. NearLate(o)' <=> NearLate(o)
    BY OvertakenStable DEF NearLate
  <1> QED BY <1>1, OvertakenStable DEF Forsaken

LEMMA SettledGrows ==
  ASSUME TypeOK, TypeOK', BatchOpen, [Next]_vars
  PROVE  Settled \subseteq Settled' /\ Settled' \subseteq 1..Len(topic')
  <1>1. 1..planned \subseteq 1..planned'
    BY PlannedGrows
  <1>2. 1..planned' \subseteq 1..Len(topic')
    BY DEF TypeOK
  <1> QED BY <1>1, <1>2, SafeGrows DEF Settled, Safe

(* A step that leaves the tables, the dead letters and the plan alone      *)
(* settles nothing.                                                        *)
LEMMA SettledSame ==
  ASSUME TypeOK, [Next]_vars, UNCHANGED <<planned, stored, quarantined>>
  PROVE  Settled' = Settled
  <1>1. \A o \in 1..planned : Forsaken(o)' <=> Forsaken(o)
    BY ForsakenStable
  <1>2. \A o : Accounted(o)' <=> Accounted(o)
    BY DEF Accounted
  <1> QED BY <1>1, <1>2 DEF Settled

LEMMA ContractStep ==
  ASSUME StreamInv, StreamInv', [Next]_vars
  PROVE  [Contract!ContractNext]_(Contract!contractVars)
  <1>0. TypeOK /\ TypeOK' /\ BatchOpen
    BY DEF StreamInv
  <1>1. ASSUME NEW e \in Events, Produce(e) PROVE Contract!Acknowledge
    <2>1. Len(topic) < MaxRecords /\ Len(topic') = Len(topic) + 1
      BY <1>0, <1>1 DEF Produce, TypeOK
    <2>2. UNCHANGED <<planned, stored, quarantined, committed>>
      BY <1>1 DEF Produce, deadLetters
    <2>3. Settled' = Settled
      BY <1>0, <2>2, SettledSame
    <2> QED BY <2>1, <2>2, <2>3 DEF Contract!Acknowledge
  <1>2. CASE CommitBatch
    <2>1. /\ committed' = planned /\ stage = "commit"
          /\ UNCHANGED <<topic, planned, stored, quarantined>>
      BY <1>2 DEF CommitBatch, deadLetters
    <2>2. Settled' = Settled
      BY <1>0, <2>1, SettledSame
    <2>3. planned \in committed..Len(topic)
      BY <1>0 DEF TypeOK
    <2>4. 1..planned \subseteq Settled
      <3>1. \A o \in Batch : Safe(o)
        BY <2>1 DEF StreamInv, FrameCovers
      <3>2. \A o \in 1..planned : o \in 1..committed \/ o \in Batch
        BY <1>0 DEF TypeOK, Batch
      <3> QED BY <3>1, <3>2 DEF StreamInv, NoSilentLoss, Settled, Safe
    <2> QED BY <2>1, <2>2, <2>3, <2>4 DEF Contract!ContractNext, Contract!Commit
  <1>3. CASE committed' = committed /\ topic' = topic
    <2>1. Settled \subseteq Settled' /\ Settled' \subseteq 1..Len(topic)
      BY <1>0, <1>3, SettledGrows
    <2>2. Settled' \in SUBSET (1..Len(topic)) /\ Settled' = Settled \cup Settled'
      BY <2>1
    <2> QED BY <1>3, <2>2 DEF Contract!ContractNext, Contract!Settle
  <1>4. \/ \E e \in Events : Produce(e)
        \/ CommitBatch
        \/ committed' = committed /\ topic' = topic
    BY DEF Next, DriverStep, Fault, vars, durable, PlanBatch,
       RouteUnparseable, RouteLate, WriteRow, CollectStats, CountDlq, EmitDlq,
       AdvanceWatermark, TornDlqWrite, WriteRowTimesOut, LoseOutcomes, DriverDies, Restart
  <1> QED BY <1>1, <1>2, <1>3, <1>4 DEF Contract!ContractNext

(* Every behaviour of the driver is a behaviour of the delivery contract:  *)
(* records are acknowledged one by one, become settled and never           *)
(* un-settled, and the committed offset moves forward over settled records.*)
THEOREM StreamImplementsContract == Spec => ImplementsContract
  <1>1. Init => Contract!ContractInit
    BY DEF Init, Contract!ContractInit, Settled
  <1>2. StreamInv /\ StreamInv' /\ [Next]_vars
          => [Contract!ContractNext]_(Contract!contractVars)
    BY ContractStep
  <1> QED BY <1>1, <1>2, StreamInvariant, PTL
          DEF Spec, ImplementsContract, Contract!ContractSafety
=============================================================================
