-------------------------- MODULE BatchLayerProofs --------------------------
(***************************************************************************)
(* What holds of the batch layer for any trips and event times, any        *)
(* windows, any number of retries and backfills.                           *)
(***************************************************************************)
EXTENDS BatchLayer, FiniteSetTheorems, TLAPS

(* The invariant without the audit, which nothing else depends on. *)
LayerInv == TypeOK /\ ExtractLoaded /\ LoadedToCursor

-----------------------------------------------------------------------------
(* Tasks and hours *)

LEMMA RollupTasks ==
  /\ DOMAIN TaskOf = {"wait", "extract", "reading", "loaded", "verify"}
  /\ \A r \in DOMAIN TaskOf : TaskOf[r] \in {"wait", "extract", "verify"}
  /\ TaskOf["verify"] = "verify"
  /\ \A r \in DOMAIN TaskOf : TaskOf[r] = "verify" => r = "verify"
  BY DEF TaskOf

LEMMA BackfillTasks ==
  /\ DOMAIN BackfillTaskOf = {"plan", "planned", "reprocess", "reading", "close", "closed"}
  /\ \A b \in {"plan", "planned"} : BackfillTaskOf[b] = "plan"
  /\ \A b \in {"reprocess", "reading"} : BackfillTaskOf[b] = "reprocess"
  /\ \A b \in {"close", "closed"} : BackfillTaskOf[b] = "close"
  BY DEF BackfillTaskOf

(* The partition of an hour holds the trips of that hour. *)
LEMMA PartitionIsHour ==
  ASSUME NEW S, S \subseteq Trips, NEW at \in Int, at % 2 = 0
  PROVE  InPartition(S, at) = Within(S, at, at + 2)
  <1> SUFFICES ASSUME NEW t \in S
               PROVE  2 * HourOf(t) = at <=> at <= EventTime[t] /\ EventTime[t] < at + 2
    BY DEF InPartition, Within
  <1>1. EventTime[t] \in Nat
    BY BatchAssumption
  <1> QED BY <1>1 DEF HourOf

LEMMA HourIsEven ==
  ASSUME NEW h \in Int
  PROVE  (2 * h) \in Int /\ (2 * h) % 2 = 0
  OBVIOUS

(* Loading more keeps what is loaded. *)
LEMMA WithinGrows ==
  ASSUME NEW S, NEW T, S \subseteq T, NEW a, NEW b
  PROVE  Within(S, a, b) \subseteq Within(T, a, b)
  BY DEF Within

LEMMA WindowKnown ==
  ASSUME TypeOK
  PROVE  Start \in Nat /\ End \in Nat
  BY DEF TypeOK, Start, End

LEMMA InitHolds == Init => LayerInv
  <1> SUFFICES ASSUME Init PROVE LayerInv
    OBVIOUS
  <1>1. 0 \in 0 .. MaxNow /\ 0 \in 0 .. Retries /\ 0 \in 0 .. MaxBackfills
        /\ NoHour \in NoHour .. 0 - 1 /\ <<0, 1>> \in Nat \X Nat
    BY BatchAssumption DEF NoHour
  <1>2. TypeOK
    <2>1. /\ now \in 0 .. MaxNow /\ hour \in NoHour .. now - 1
          /\ tries \in 0 .. Retries /\ btries \in 0 .. Retries
          /\ backfills \in 0 .. MaxBackfills /\ window \in Nat \X Nat
          /\ cursor \in Nat /\ empty \in Nat
      BY <1>1 DEF Init
    <2>2. /\ cassandra \subseteq Trips /\ stage \subseteq cassandra
          /\ landed \subseteq cassandra /\ rows \subseteq cassandra
          /\ found \subseteq cassandra /\ seen \subseteq cassandra
          /\ blanded \subseteq cassandra
      BY DEF Init
    <2>3. rollup \in DOMAIN TaskOf \cup {"idle"} /\ backfill \in DOMAIN BackfillTaskOf \cup {"idle"}
      BY DEF Init
    <2>4. audit \in Seq([window : Nat \X Nat, loaded : Nat \cup {Open}])
      <3> DEFINE Row == [window : Nat \X Nat, loaded : Nat \cup {Open}]
      <3> HIDE DEF Row
      <3>1. audit \in Seq(Row)
        BY DEF Init
      <3> QED BY <3>1 DEF Row
    <2>5. alerted \in BOOLEAN
      BY DEF Init
    <2> QED BY <2>1, <2>2, <2>3, <2>4, <2>5 DEF TypeOK
  <1>3. ExtractLoaded /\ LoadedToCursor
    BY DEF Init, ExtractLoaded, LoadedToCursor
  <1> QED BY <1>2, <1>3 DEF LayerInv

-----------------------------------------------------------------------------
(* What one half of the layer relies on while the other half moves: the    *)
(* clock does not go back and the tables only grow.                        *)
RollupType ==
  /\ rollup \in DOMAIN TaskOf \cup {"idle"}
  /\ hour \in NoHour .. now - 1
  /\ landed \subseteq cassandra /\ rows \subseteq cassandra
  /\ tries \in 0 .. Retries

BackfillType ==
  /\ btries \in 0 .. Retries
  /\ backfill \in DOMAIN BackfillTaskOf \cup {"idle"}
  /\ backfills \in 0 .. MaxBackfills /\ window \in Nat \X Nat
  /\ cursor \in Nat /\ empty \in Nat
  /\ found \subseteq cassandra /\ seen \subseteq cassandra
  /\ blanded \subseteq cassandra
  /\ audit \in Seq([window : Nat \X Nat, loaded : Nat \cup {Open}])
  /\ alerted \in BOOLEAN

TableType ==
  /\ now \in 0 .. MaxNow
  /\ cassandra \subseteq Trips /\ stage \subseteq cassandra

LEMMA TypeInThree == TypeOK <=> TableType /\ RollupType /\ BackfillType
  BY DEF TypeOK, TableType, RollupType, BackfillType

LEMMA TypeInThreeNext == TypeOK' <=> TableType' /\ RollupType' /\ BackfillType'
  BY DEF TypeOK, TableType, RollupType, BackfillType

TablesGrow == now <= now' /\ cassandra \subseteq cassandra' /\ stage \subseteq stage'

(* The clock does not make an hour that has closed an open one. *)
LEMMA EarlierHour ==
  ASSUME NEW m \in Int, NEW n \in Int, m <= n, NEW h \in NoHour .. m - 1
  PROVE  h \in NoHour .. n - 1
  BY DEF NoHour

LEMMA RollupKept ==
  ASSUME TypeOK, ExtractLoaded, UNCHANGED rollupVars, TablesGrow, TableType'
  PROVE  RollupType' /\ ExtractLoaded'
  <1>1. UNCHANGED <<rollup, hour, tries, landed, rows>>
    BY DEF rollupVars
  <1>2. RollupType'
    <2>1. now \in Int /\ now' \in Int /\ now <= now' /\ hour \in NoHour .. now - 1
      BY BatchAssumption DEF TypeOK, TablesGrow, TableType
    <2>2. hour \in NoHour .. now' - 1
      BY <2>1, EarlierHour
    <2>3. landed \subseteq cassandra' /\ rows \subseteq cassandra'
      BY DEF TypeOK, TablesGrow
    <2> QED BY <1>1, <2>2, <2>3 DEF TypeOK, RollupType
  <1>3. ExtractLoaded'
    <2>1. Within(stage, 2 * hour, 2 * hour + 2) \subseteq Within(stage', 2 * hour, 2 * hour + 2)
      BY WithinGrows DEF TablesGrow
    <2> QED BY <1>1, <2>1 DEF ExtractLoaded
  <1> QED BY <1>2, <1>3

LEMMA BackfillKept ==
  ASSUME TypeOK, LoadedToCursor, UNCHANGED backfillVars, TablesGrow
  PROVE  BackfillType' /\ LoadedToCursor'
  <1>1. UNCHANGED <<backfills, backfill, window, btries, cursor, found, empty, seen,
                    blanded, audit, alerted>>
    BY DEF backfillVars, attempt
  <1>2. BackfillType'
    BY <1>1 DEF TypeOK, BackfillType, TablesGrow
  <1>3. LoadedToCursor'
    BY <1>1 DEF LoadedToCursor, TablesGrow, Start, End
  <1> QED BY <1>2, <1>3

-----------------------------------------------------------------------------
(* The rollup *)
RollupMoves == ScheduleRollup \/ RollupStep \/ RollupTaskDies

LEMMA RollupHolds ==
  ASSUME LayerInv, RollupMoves
  PROVE  LayerInv'
  <1> USE BatchAssumption
  <1>0. /\ TypeOK /\ ExtractLoaded /\ LoadedToCursor
        /\ TableType /\ RollupType /\ BackfillType
        /\ now \in Int /\ hour \in Int /\ tries \in Int
    BY TypeInThree DEF LayerInv, RollupType, TableType, NoHour
  <1>1. UNCHANGED <<now, cassandra>> /\ UNCHANGED backfillVars
    BY DEF RollupMoves, ScheduleRollup, RollupStep, SensorPasses, SensorTimesOut,
       ExtractBegins, ExtractLoads, ExtractReturns, VerifySucceeds, VerifyFindsDrift,
       RollupTaskDies, RollupFails, tables
  <1>2. ASSUME NEW S \in SUBSET Trips, ExtractLoads(S)
        PROVE  /\ RollupType' /\ ExtractLoaded'
               /\ stage' \subseteq cassandra /\ stage \subseteq stage'
    <2>1. /\ landed \subseteq S /\ S \subseteq InPartition(cassandra, 2 * hour)
          /\ rows' = S /\ stage' = stage \cup S /\ rollup' = "loaded"
          /\ UNCHANGED <<hour, tries, landed>>
      BY <1>2 DEF ExtractLoads
    <2>2. InPartition(cassandra, 2 * hour) = Within(cassandra, 2 * hour, 2 * hour + 2)
      BY <1>0, HourIsEven, PartitionIsHour DEF TableType
    <2>3. S \subseteq cassandra /\ S \subseteq Within(stage', 2 * hour, 2 * hour + 2)
      BY <2>1, <2>2 DEF Within
    <2>4. RollupType'
      BY <1>0, <1>1, <2>1, <2>3, RollupTasks DEF RollupType
    <2>5. ExtractLoaded'
      BY <2>1, <2>3 DEF ExtractLoaded
    <2> QED BY <1>0, <2>1, <2>3, <2>4, <2>5 DEF TableType
  <1>3. ASSUME ScheduleRollup \/ SensorPasses \/ SensorTimesOut \/ ExtractBegins
               \/ ExtractReturns \/ VerifySucceeds
        PROVE  RollupType' /\ ExtractLoaded' /\ stage' = stage
    <2>1. stage' = stage
      BY <1>3 DEF ScheduleRollup, SensorPasses, SensorTimesOut, ExtractBegins,
         ExtractReturns, VerifySucceeds, tables
    <2>2. CASE ScheduleRollup \/ SensorPasses \/ ExtractReturns
      <3>1. /\ hour' \in {hour, now - 1} /\ hour' \in NoHour .. now - 1
            /\ tries' \in {tries, 0} /\ UNCHANGED <<landed, rows>>
            /\ rollup' \in {"wait", "extract", "verify"}
            /\ rollup' = "verify" => hour' = hour /\ rollup = "loaded"
        BY <1>0, <2>2 DEF ScheduleRollup, SensorPasses, ExtractReturns, RollupType, NoHour
      <3>2. RollupType'
        BY <1>0, <1>1, <3>1, RollupTasks DEF RollupType
      <3>3. ExtractLoaded'
        BY <1>0, <2>1, <3>1 DEF ExtractLoaded
      <3> QED BY <2>1, <3>2, <3>3
    <2>3. CASE SensorTimesOut \/ VerifySucceeds
      <3>1. rollup' = "idle" /\ tries' = 0 /\ landed' = {} /\ rows' = {} /\ hour' = hour
        BY <2>3 DEF SensorTimesOut, VerifySucceeds, RollupIsOver
      <3> QED BY <1>0, <1>1, <2>1, <3>1 DEF RollupType, ExtractLoaded
    <2>4. CASE ExtractBegins
      <3>1. /\ rollup' = "reading" /\ landed' \subseteq cassandra
            /\ UNCHANGED <<hour, tries, rows>>
        BY <2>4 DEF ExtractBegins, InPartition
      <3> QED BY <1>0, <1>1, <2>1, <3>1, RollupTasks DEF RollupType, ExtractLoaded
    <2> QED BY <1>3, <2>2, <2>3, <2>4
  <1>4. ASSUME RollupFails, rollup # "idle"
        PROVE  RollupType' /\ ExtractLoaded' /\ stage' = stage
    <2>1. stage' = stage /\ hour' = hour
      BY <1>4 DEF RollupFails, tables
    <2>2. CASE tries < Retries
      <3>1. /\ tries' = tries + 1 /\ rollup' = TaskOf[rollup]
            /\ UNCHANGED <<landed, rows>> /\ rollup \in DOMAIN TaskOf
        BY <1>0, <1>4, <2>2 DEF RollupFails, RollupType
      <3>2. rollup' \in {"wait", "extract", "verify"} /\ (rollup' = "verify" => rollup = "verify")
        BY <3>1, RollupTasks
      <3>3. tries' \in 0 .. Retries
        BY <1>0, <2>2, <3>1 DEF RollupType
      <3>4. RollupType'
        BY <1>0, <1>1, <2>1, <3>1, <3>2, <3>3, RollupTasks DEF RollupType
      <3>5. ExtractLoaded'
        BY <1>0, <2>1, <3>1, <3>2 DEF ExtractLoaded
      <3> QED BY <2>1, <3>4, <3>5
    <2>3. CASE ~(tries < Retries)
      <3>1. rollup' = "idle" /\ tries' = 0 /\ landed' = {} /\ rows' = {}
        BY <1>4, <2>3 DEF RollupFails, RollupIsOver
      <3> QED BY <1>0, <1>1, <2>1, <3>1 DEF RollupType, ExtractLoaded
    <2> QED BY <2>2, <2>3
  <1>5. /\ RollupType' /\ ExtractLoaded'
        /\ stage \subseteq stage' /\ stage' \subseteq cassandra
    <2>1. stage \subseteq cassandra
      BY <1>0 DEF TableType
    <2>2. VerifyFindsDrift \/ RollupTaskDies => RollupFails /\ rollup # "idle"
      BY DEF VerifyFindsDrift, RollupTaskDies
    <2> QED BY <1>2, <1>3, <1>4, <2>1, <2>2 DEF RollupMoves, RollupStep
  <1>6. TablesGrow /\ TableType'
    BY <1>0, <1>1, <1>5 DEF TablesGrow, TableType
  <1>7. BackfillType' /\ LoadedToCursor'
    BY <1>0, <1>1, <1>6, BackfillKept
  <1> QED BY <1>5, <1>6, <1>7, TypeInThreeNext DEF LayerInv

-----------------------------------------------------------------------------
(* The backfill *)
BackfillMoves == (\E w \in Windows : Trigger(w)) \/ BackfillStep \/ BackfillTaskDies

LEMMA NewAttemptHolds ==
  ASSUME TypeOK, NewAttempt, UNCHANGED <<cassandra, window>>, backfill' = "reprocess"
  PROVE  /\ LoadedToCursor'
         /\ cursor' \in Nat /\ empty' \in Nat
         /\ found' \subseteq cassandra' /\ seen' \subseteq cassandra'
         /\ blanded' \subseteq cassandra'
  <1>1. /\ cursor' = Start /\ found' = {} /\ empty' = 0 /\ blanded' = cassandra /\ seen' = {}
        /\ Start' = Start
    BY DEF NewAttempt, Start
  <1>2. Start \in Nat
    BY WindowKnown
  <1>3. Within(blanded', Start', cursor') = {}
    BY <1>1, <1>2, BatchAssumption DEF Within, TypeOK
  <1>4. LoadedToCursor'
    BY <1>1, <1>3 DEF LoadedToCursor
  <1> QED BY <1>1, <1>2, <1>4

LEMMA BackfillFailsHolds ==
  ASSUME LayerInv, BackfillFails, backfill # "idle"
  PROVE  BackfillType' /\ LoadedToCursor' /\ UNCHANGED <<now, cassandra, stage, rollupVars>>
  <1> USE BatchAssumption
  <1>0. TypeOK /\ LoadedToCursor /\ BackfillType
    BY TypeInThree DEF LayerInv
  <1>1. UNCHANGED <<now, cassandra, stage, rollupVars, backfills, window, audit, alerted>>
    BY DEF BackfillFails, tables
  <1>2. backfill \in DOMAIN BackfillTaskOf
    BY <1>0 DEF BackfillType
  <1>3. /\ btries' \in 0 .. Retries /\ backfill' \in {BackfillTaskOf[backfill], "idle"}
    BY <1>0 DEF BackfillFails, BackfillType
  <1>4. CASE BackfillTaskOf[backfill] = "reprocess"
    <2>1. NewAttempt
      BY <1>4 DEF BackfillFails
    <2>2. CASE backfill' = "reprocess"
      <3>1. /\ LoadedToCursor' /\ cursor' \in Nat /\ empty' \in Nat
            /\ found' \subseteq cassandra' /\ seen' \subseteq cassandra'
            /\ blanded' \subseteq cassandra'
        BY <1>0, <1>1, <2>1, <2>2, NewAttemptHolds
      <3>2. BackfillType'
        BY <1>0, <1>1, <1>3, <2>2, <3>1, BackfillTasks DEF BackfillType
      <3> QED BY <1>1, <3>1, <3>2
    <2>3. CASE backfill' = "idle"
      <3>1. Start \in Nat
        BY <1>0, WindowKnown
      <3>2. BackfillType'
        BY <1>0, <1>1, <1>3, <2>1, <2>3, <3>1 DEF BackfillType, NewAttempt
      <3>3. LoadedToCursor'
        BY <2>3 DEF LoadedToCursor
      <3> QED BY <1>1, <3>2, <3>3
    <2> QED BY <1>3, <1>4, <2>2, <2>3
  <1>5. CASE BackfillTaskOf[backfill] # "reprocess"
    <2>1. UNCHANGED <<cursor, found, empty, seen, blanded>>
      BY <1>5 DEF BackfillFails, attempt
    <2>2. backfill' \in {"plan", "close", "idle"}
          /\ (backfill' = "close" => backfill \in {"close", "closed"})
      BY <1>2, <1>3, <1>5, BackfillTasks
    <2>3. BackfillType'
      BY <1>0, <1>1, <1>3, <2>1, <2>2, BackfillTasks DEF BackfillType
    <2>4. LoadedToCursor'
      BY <1>0, <1>1, <2>1, <2>2 DEF LoadedToCursor, Start, End
    <2> QED BY <1>1, <2>3, <2>4
  <1> QED BY <1>4, <1>5

LEMMA HourLoadsHolds ==
  ASSUME LayerInv, NEW S \in SUBSET Trips, HourLoads(S)
  PROVE  /\ BackfillType' /\ LoadedToCursor'
         /\ UNCHANGED <<now, cassandra, rollupVars>>
         /\ stage \subseteq stage' /\ stage' \subseteq cassandra
  <1>0. TypeOK /\ LoadedToCursor /\ BackfillType /\ TableType /\ Start \in Nat /\ End \in Nat
        /\ cursor \in Nat /\ empty \in Nat
    BY TypeInThree, WindowKnown DEF LayerInv, TypeOK
  <1>1. /\ backfill = "reading" /\ seen \subseteq S /\ S \subseteq InPartition(cassandra, cursor)
        /\ stage' = stage \cup S /\ found' = found \cup S
        /\ empty' = empty + (IF S = {} THEN 1 ELSE 0) /\ cursor' = cursor + 2
        /\ backfill' = "reprocess" /\ seen' = {}
        /\ UNCHANGED <<now, cassandra, rollupVars, backfills, window, btries, blanded,
                       audit, alerted>>
    BY DEF HourLoads
  <1>2. S \subseteq cassandra
    BY <1>1 DEF InPartition
  <1>3. BackfillType'
    BY <1>0, <1>1, <1>2, BackfillTasks DEF BackfillType
  <1>4. LoadedToCursor'
    <2> SUFFICES ASSUME Start % 2 = 0
                 PROVE  (cursor + 2) % 2 = 0 /\ Within(blanded, Start, cursor + 2) \subseteq stage \cup S
      BY <1>1 DEF LoadedToCursor, Start
    <2>1. /\ cursor % 2 = 0 /\ Within(blanded, Start, cursor) \subseteq stage
          /\ InPartition(blanded, cursor) \subseteq seen
      BY <1>0, <1>1 DEF LoadedToCursor
    <2>2. blanded \subseteq Trips
      BY <1>0 DEF TypeOK
    <2>3. InPartition(blanded, cursor) = Within(blanded, cursor, cursor + 2)
      BY <1>0, <2>1, <2>2, PartitionIsHour
    <2>4. Within(blanded, Start, cursor + 2)
            \subseteq Within(blanded, Start, cursor) \cup Within(blanded, cursor, cursor + 2)
      <3>1. \A t \in blanded : EventTime[t] \in Nat
        BY <2>2, BatchAssumption
      <3> QED BY <1>0, <3>1 DEF Within
    <2>5. (cursor + 2) % 2 = 0
      BY <1>0, <2>1
    <2> QED BY <1>1, <2>1, <2>3, <2>4, <2>5
  <1> QED BY <1>0, <1>1, <1>2, <1>3, <1>4 DEF TableType

LEMMA BackfillHolds ==
  ASSUME LayerInv, BackfillMoves
  PROVE  LayerInv'
  <1> USE BatchAssumption
  <1>0. /\ TypeOK /\ ExtractLoaded /\ LoadedToCursor
        /\ TableType /\ RollupType /\ BackfillType /\ Start \in Nat /\ End \in Nat
    BY TypeInThree, WindowKnown DEF LayerInv
  <1>1. ASSUME NEW w \in Windows, Trigger(w)
        PROVE  BackfillType' /\ LoadedToCursor' /\ UNCHANGED <<now, cassandra, stage, rollupVars>>
    <2>1. /\ UNCHANGED <<now, cassandra, stage, rollupVars, btries, cursor, found, empty,
                         seen, blanded, audit, alerted>>
          /\ backfills < MaxBackfills /\ backfills' = backfills + 1
          /\ window' = w /\ backfill' = "plan"
      BY <1>1 DEF Trigger, tables, attempt
    <2>2. BackfillType'
      BY <1>0, <2>1, BackfillTasks DEF BackfillType
    <2>3. LoadedToCursor'
      BY <2>1 DEF LoadedToCursor
    <2> QED BY <2>1, <2>2, <2>3
  <1>2. ASSUME Plan \/ CloseAudit
        PROVE  BackfillType' /\ LoadedToCursor' /\ UNCHANGED <<now, cassandra, stage, rollupVars>>
    <2>1. /\ UNCHANGED <<now, cassandra, stage, rollupVars, backfills, window, btries,
                         cursor, found, empty, seen, blanded, alerted>>
          /\ \/ backfill' = "planned"
             \/ backfill = "close" /\ backfill' = "closed"
      BY <1>2 DEF Plan, CloseAudit, tables, attempt
    <2>2. audit' \in Seq([window : Nat \X Nat, loaded : Nat \cup {Open}])
      <3> DEFINE Row == [window : Nat \X Nat, loaded : Nat \cup {Open}]
      <3>1. audit \in Seq(Row) /\ window \in Nat \X Nat
        BY <1>0 DEF BackfillType
      <3>2. CASE Plan
        <4>1. [window |-> window, loaded |-> Open] \in Row
          BY <3>1
        <4> HIDE DEF Row
        <4>2. audit' \in Seq(Row)
          BY <3>1, <3>2, <4>1 DEF Plan
        <4> QED BY <4>2 DEF Row
      <3>3. CASE CloseAudit
        <4>1. Cardinality(found) \in Nat
          <5>1. IsFiniteSet(found)
            BY <1>0, FS_Subset DEF BackfillType, TableType
          <5> QED BY <5>1, FS_CardinalityType
        <4>2. audit' = [audit EXCEPT ![Len(audit)].loaded = Cardinality(found)]
          BY <3>3 DEF CloseAudit
        <4>3. ASSUME NEW r \in Row
              PROVE  [r EXCEPT !.loaded = Cardinality(found)] \in Row
          BY <4>1
        <4> HIDE DEF Row
        <4>4. DOMAIN audit = 1 .. Len(audit) /\ Len(audit) \in Nat
              /\ \A n \in 1 .. Len(audit) : audit[n] \in Row
          BY <3>1
        <4>5. DOMAIN audit' = 1 .. Len(audit) /\ \A n \in 1 .. Len(audit) : audit'[n] \in Row
          BY <4>2, <4>3, <4>4
        <4>6. audit' \in [1 .. Len(audit) -> Row]
          BY <4>2, <4>4, <4>5
        <4>7. audit' \in Seq(Row)
          BY <4>4, <4>6
        <4> QED BY <4>7 DEF Row
      <3> QED BY <1>2, <3>2, <3>3
    <2>3. BackfillType'
      BY <1>0, <2>1, <2>2, BackfillTasks DEF BackfillType
    <2>4. LoadedToCursor'
      BY <1>0, <2>1 DEF LoadedToCursor, Start, End
    <2> QED BY <2>1, <2>3, <2>4
  <1>3. ASSUME PlanReturns
        PROVE  BackfillType' /\ LoadedToCursor' /\ UNCHANGED <<now, cassandra, stage, rollupVars>>
    <2>1. /\ UNCHANGED <<now, cassandra, stage, rollupVars, backfills, window, audit, alerted>>
          /\ NewAttempt /\ backfill' = "reprocess" /\ btries' = 0
      BY <1>3 DEF PlanReturns, tables
    <2>2. /\ LoadedToCursor' /\ cursor' \in Nat /\ empty' \in Nat
          /\ found' \subseteq cassandra' /\ seen' \subseteq cassandra'
          /\ blanded' \subseteq cassandra'
      BY <1>0, <2>1, NewAttemptHolds
    <2>3. BackfillType'
      BY <1>0, <2>1, <2>2, BackfillTasks DEF BackfillType
    <2> QED BY <2>1, <2>2, <2>3
  <1>4. ASSUME HourBegins
        PROVE  BackfillType' /\ LoadedToCursor' /\ UNCHANGED <<now, cassandra, stage, rollupVars>>
    <2>1. /\ UNCHANGED <<now, cassandra, stage, rollupVars, backfills, window, btries,
                         cursor, found, empty, blanded, audit, alerted>>
          /\ backfill = "reprocess" /\ backfill' = "reading"
          /\ seen' = InPartition(cassandra, cursor)
      BY <1>4 DEF HourBegins, tables
    <2>2. seen' \subseteq cassandra /\ InPartition(blanded, cursor) \subseteq seen'
      BY <1>0, <2>1 DEF InPartition, BackfillType
    <2>3. BackfillType'
      BY <1>0, <2>1, <2>2, BackfillTasks DEF BackfillType
    <2>4. LoadedToCursor'
      BY <1>0, <2>1, <2>2 DEF LoadedToCursor, Start, End
    <2> QED BY <2>1, <2>3, <2>4
  <1>5. ASSUME ReprocessReturns \/ BackfillEnds
        PROVE  BackfillType' /\ LoadedToCursor' /\ UNCHANGED <<now, cassandra, stage, rollupVars>>
    <2>1. /\ UNCHANGED <<now, cassandra, stage, rollupVars, backfills, window,
                         cursor, found, empty, seen, blanded, audit>>
          /\ btries' = 0 /\ alerted' \in {alerted, empty = PlannedHours}
          /\ \/ backfill' = "idle"
             \/ backfill = "reprocess" /\ backfill' = "close" /\ End <= cursor
      BY <1>0, <1>5 DEF ReprocessReturns, BackfillEnds, tables, attempt, BackfillType
    <2>2. alerted' \in BOOLEAN
      <3>1. alerted \in BOOLEAN
        BY <1>0 DEF BackfillType
      <3>2. (empty = PlannedHours) \in BOOLEAN
        OBVIOUS
      <3> QED BY <2>1, <3>1, <3>2, Zenon
    <2>3. btries' \in 0 .. Retries /\ backfill' \in DOMAIN BackfillTaskOf \cup {"idle"}
      BY <2>1, BackfillTasks
    <2>4. BackfillType'
      BY <1>0, <2>1, <2>2, <2>3 DEF BackfillType
    <2>5. LoadedToCursor'
      BY <1>0, <2>1 DEF LoadedToCursor, Start, End
    <2> QED BY <2>1, <2>4, <2>5
  <1>6. ASSUME PlanRejects \/ BackfillTaskDies
        PROVE  BackfillType' /\ LoadedToCursor' /\ UNCHANGED <<now, cassandra, stage, rollupVars>>
    <2>1. BackfillFails /\ backfill # "idle"
      BY <1>6 DEF PlanRejects, BackfillTaskDies
    <2> QED BY <2>1, BackfillFailsHolds
  <1>7. /\ BackfillType' /\ LoadedToCursor' /\ UNCHANGED <<now, cassandra, rollupVars>>
        /\ stage \subseteq stage' /\ stage' \subseteq cassandra
    <2>1. stage \subseteq cassandra
      BY <1>0 DEF TableType
    <2> QED BY <1>1, <1>2, <1>3, <1>4, <1>5, <1>6, <2>1, HourLoadsHolds
            DEF BackfillMoves, BackfillStep
  <1>8. TablesGrow /\ TableType'
    BY <1>0, <1>7 DEF TablesGrow, TableType
  <1>9. RollupType' /\ ExtractLoaded'
    BY <1>0, <1>7, <1>8, RollupKept
  <1> QED BY <1>7, <1>8, <1>9, TypeInThreeNext DEF LayerInv

(* The clock, and trips that land. *)
LEMMA WorldHolds ==
  ASSUME LayerInv, Tick \/ (\E t \in Trips : TripLands(t))
  PROVE  LayerInv'
  <1>0. TypeOK /\ ExtractLoaded /\ LoadedToCursor /\ TableType
    BY TypeInThree DEF LayerInv
  <1>1. /\ UNCHANGED rollupVars /\ UNCHANGED backfillVars
        /\ TablesGrow /\ TableType'
    BY <1>0, BatchAssumption DEF Tick, TripLands, tables, TablesGrow, TableType
  <1> QED BY <1>0, <1>1, RollupKept, BackfillKept, TypeInThreeNext DEF LayerInv

LEMMA StutterHolds ==
  ASSUME LayerInv, UNCHANGED vars
  PROVE  LayerInv'
  <1>0. TypeOK /\ ExtractLoaded /\ LoadedToCursor /\ TableType
    BY TypeInThree DEF LayerInv
  <1>1. /\ UNCHANGED rollupVars /\ UNCHANGED backfillVars
        /\ TablesGrow /\ TableType'
    BY <1>0, BatchAssumption DEF vars, tables, backfillVars, TablesGrow, TableType
  <1> QED BY <1>0, <1>1, RollupKept, BackfillKept, TypeInThreeNext DEF LayerInv

-----------------------------------------------------------------------------
(* The audit *)

LEMMA OneRunMore ==
  ASSUME NEW n \in Nat, n > 0
  PROVE  /\ RowsOfRuns(n - 1) \in Nat /\ RowsOfRuns(n) \in Nat
         /\ RowsOfRuns(n) = RowsOfRuns(n - 1) + Retries + 1
  <1>1. Retries \in Nat
    BY BatchAssumption
  <1>2. \A m \in Int, r \in Int : m * (r + 1) = (m - 1) * (r + 1) + r + 1
    OBVIOUS
  <1>3. \A m \in Nat, r \in Nat : m * (r + 1) \in Nat
    OBVIOUS
  <1> QED BY <1>1, <1>2, <1>3 DEF RowsOfRuns

LEMMA ClosedFinite ==
  ASSUME TypeOK
  PROVE  /\ ClosedRows \subseteq 1 .. Len(audit) /\ Len(audit) \in Nat
         /\ DOMAIN audit = 1 .. Len(audit)
         /\ IsFiniteSet(ClosedRows) /\ Cardinality(ClosedRows) \in Nat
         /\ ClosedBefore \subseteq ClosedRows
         /\ IsFiniteSet(ClosedBefore) /\ Cardinality(ClosedBefore) \in Nat
         /\ Cardinality(ClosedRows) <= Cardinality(ClosedBefore) + 1
  <1>1. DOMAIN audit = 1 .. Len(audit) /\ Len(audit) \in Nat
    BY DEF TypeOK
  <1>2. ClosedRows \subseteq 1 .. Len(audit)
    BY <1>1 DEF ClosedRows
  <1>3. ClosedBefore \subseteq ClosedRows /\ ClosedRows \subseteq ClosedBefore \cup {Len(audit)}
    BY DEF ClosedBefore
  <1> HIDE DEF ClosedRows, ClosedBefore
  <1>4. IsFiniteSet(ClosedRows) /\ IsFiniteSet(ClosedBefore)
    <2>1. IsFiniteSet(1 .. Len(audit))
      BY <1>1, FS_Interval
    <2> QED BY <1>2, <1>3, <2>1, FS_Subset
  <1>5. Cardinality(ClosedRows) \in Nat /\ Cardinality(ClosedBefore) \in Nat
    BY <1>4, FS_CardinalityType
  <1>6. /\ IsFiniteSet(ClosedBefore \cup {Len(audit)})
        /\ \/ Cardinality(ClosedBefore \cup {Len(audit)}) = Cardinality(ClosedBefore)
           \/ Cardinality(ClosedBefore \cup {Len(audit)}) = Cardinality(ClosedBefore) + 1
    BY <1>4, FS_AddElement
  <1>7. Cardinality(ClosedRows) <= Cardinality(ClosedBefore \cup {Len(audit)})
    BY <1>3, <1>6, FS_Subset
  <1>8. Cardinality(ClosedRows) <= Cardinality(ClosedBefore) + 1
    BY <1>5, <1>6, <1>7
  <1> QED BY <1>1, <1>2, <1>3, <1>4, <1>5, <1>8

LEMMA AuditNumbers ==
  ASSUME TypeOK
  PROVE  /\ backfills \in Nat /\ btries \in Nat /\ btries <= Retries /\ Retries \in Nat
         /\ Len(audit) \in Nat
  <1>1. MaxBackfills \in Nat /\ Retries \in Nat
    BY BatchAssumption
  <1>2. backfills \in 0 .. MaxBackfills /\ btries \in 0 .. Retries
    BY DEF TypeOK
  <1> QED BY <1>1, <1>2, ClosedFinite

(* However far the run is, the rows are those of as many runs. *)
LEMMA RowsSoFar ==
  ASSUME TypeOK, AuditAccount
  PROVE  Len(audit) <= RowsOfRuns(backfills)
  <1>1. CASE backfill = "idle"
    BY <1>1 DEF AuditAccount
  <1>2. CASE backfill # "idle"
    <2>1. backfills \in Nat /\ backfills > 0
      BY <1>2, AuditNumbers DEF AuditAccount
    <2>2. /\ RowsOfRuns(backfills - 1) \in Nat
          /\ RowsOfRuns(backfills) = RowsOfRuns(backfills - 1) + Retries + 1
      BY <2>1, OneRunMore
    <2>3. \/ Len(audit) <= RowsOfRuns(backfills - 1) + btries
          \/ Len(audit) <= RowsOfRuns(backfills - 1) + btries + 1
          \/ Len(audit) <= RowsOfRuns(backfills)
      BY <1>2 DEF AuditAccount
    <2> HIDE DEF RowsOfRuns
    <2> QED BY <2>2, <2>3, AuditNumbers
  <1> QED BY <1>1, <1>2

LEMMA AuditInit == Init => AuditAccount
  <1> SUFFICES ASSUME Init PROVE AuditAccount
    OBVIOUS
  <1>1. backfill = "idle" /\ backfills = 0 /\ audit = <<>> /\ ~HasRow
    BY DEF Init, HasRow
  <1>2. Len(audit) = 0 /\ ClosedRows = {}
    BY <1>1 DEF ClosedRows
  <1>3. Cardinality(ClosedBefore) = 0
    BY <1>1, <1>2, FS_EmptySet DEF ClosedBefore
  <1>4. RowsOfRuns(0) = 0
    BY BatchAssumption DEF RowsOfRuns
  <1> QED BY <1>1, <1>2, <1>3, <1>4 DEF AuditAccount

(* Steps that leave the audit alone: what other runs have closed is the    *)
(* same while the run has its row, and one more at most when it has not.   *)
LEMMA SameRows ==
  ASSUME UNCHANGED audit
  PROVE  ClosedRows' = ClosedRows
  BY DEF ClosedRows

LEMMA AuditStays ==
  ASSUME AuditAccount, UNCHANGED <<backfills, backfill, btries, audit>>
  PROVE  AuditAccount'
  <1>1. HasRow' = HasRow /\ ClosedRows' = ClosedRows
    BY SameRows DEF HasRow
  <1>2. ClosedBefore' = ClosedBefore
    BY <1>1 DEF ClosedBefore
  <1> QED BY <1>1, <1>2 DEF AuditAccount

LEMMA AuditTriggered ==
  ASSUME TypeOK, AuditAccount, NEW w \in Windows, Trigger(w)
  PROVE  AuditAccount'
  <1>1. /\ backfill = "idle" /\ backfill' = "plan" /\ backfills' = backfills + 1
        /\ UNCHANGED <<btries, audit>> /\ backfills \in Nat /\ btries \in Nat
    BY BatchAssumption DEF Trigger, TypeOK
  <1>2. ~HasRow /\ ~HasRow' /\ ClosedRows' = ClosedRows
    BY <1>1, SameRows DEF HasRow
  <1>3. ClosedBefore' = ClosedBefore
    BY <1>2 DEF ClosedBefore
  <1>4. Len(audit) \in Nat /\ Len(audit) <= RowsOfRuns(backfills)
    BY <1>1, ClosedFinite DEF AuditAccount
  <1>5. /\ backfills' > 0 /\ backfills' - 1 = backfills
        /\ RowsOfRuns(backfills' - 1) \in Nat
    BY <1>1, OneRunMore
  <1>6. Len(audit') <= RowsOfRuns(backfills' - 1) + btries'
    BY <1>1, <1>4, <1>5
  <1>7. Cardinality(ClosedBefore') <= backfills' - 1
    BY <1>1, <1>3, <1>5 DEF AuditAccount
  <1> QED BY <1>1, <1>2, <1>5, <1>6, <1>7 DEF AuditAccount

LEMMA AuditPlanned ==
  ASSUME TypeOK, AuditAccount, Plan
  PROVE  AuditAccount'
  <1> DEFINE row == [window |-> window, loaded |-> Open]
  <1>1. /\ backfill = "plan" /\ backfill' = "planned" /\ audit' = Append(audit, row)
        /\ UNCHANGED <<backfills, btries>> /\ backfills \in Nat /\ btries \in Nat
    BY BatchAssumption DEF Plan, TypeOK
  <1>2. ~HasRow /\ HasRow'
    BY <1>1 DEF HasRow
  <1>3. /\ Len(audit) \in Nat /\ Len(audit') = Len(audit) + 1
        /\ DOMAIN audit' = 1 .. Len(audit) + 1 /\ audit'[Len(audit) + 1] = row
        /\ \A n \in 1 .. Len(audit) : audit'[n] = audit[n]
    <2>1. audit \in Seq([window : Nat \X Nat, loaded : Nat \cup {Open}])
      BY DEF TypeOK
    <2> HIDE DEF row
    <2> QED BY <1>1, <2>1
  <1>4. DOMAIN audit = 1 .. Len(audit)
    BY ClosedFinite
  <1>5. row.loaded = Open
    OBVIOUS
  <1> HIDE DEF row
  <1>6. ClosedRows' = ClosedRows
    BY <1>3, <1>4, <1>5 DEF ClosedRows
  <1>7. ClosedBefore' = ClosedBefore
    <2>1. Len(audit) + 1 \notin ClosedRows
      BY <1>3, <1>4 DEF ClosedRows
    <2> QED BY <1>2, <1>3, <1>6, <2>1 DEF ClosedBefore
  <1>8. /\ backfills > 0 /\ Len(audit) <= RowsOfRuns(backfills - 1) + btries
        /\ Cardinality(ClosedBefore) <= backfills - 1
    BY <1>1 DEF AuditAccount
  <1>9. Len(audit') <= RowsOfRuns(backfills' - 1) + btries' + 1
    <2>1. RowsOfRuns(backfills - 1) \in Nat
      BY <1>1, <1>8, OneRunMore
    <2> QED BY <1>1, <1>3, <1>8, <2>1
  <1>10. audit'[Len(audit')].loaded = Open
    BY <1>3, <1>5
  <1> QED BY <1>1, <1>2, <1>3, <1>7, <1>8, <1>9, <1>10 DEF AuditAccount

(* The run goes on with the row it has. *)
LEMMA AuditCarried ==
  ASSUME TypeOK, AuditAccount, UNCHANGED <<backfills, audit>>, HasRow,
         backfill' \in {"reprocess", "reading", "close"},
         backfill' # "close" => backfill \in {"planned", "reprocess", "reading"}
  PROVE  AuditAccount'
  <1>1. HasRow' /\ ClosedRows' = ClosedRows
    BY SameRows DEF HasRow
  <1>2. ClosedBefore' = ClosedBefore
    BY <1>1 DEF ClosedBefore
  <1>3. backfill \notin {"idle", "plan"}
    BY DEF HasRow
  <1>4. Len(audit) <= RowsOfRuns(backfills) /\ backfills > 0
    BY <1>3, RowsSoFar DEF AuditAccount
  <1>5. Cardinality(ClosedBefore) <= backfills - 1 /\ Len(audit) > 0
    BY <1>3 DEF AuditAccount, HasRow
  <1>6. backfill' # "close" => audit[Len(audit)].loaded = Open
    BY DEF AuditAccount
  <1> QED BY <1>1, <1>2, <1>3, <1>4, <1>5, <1>6 DEF AuditAccount

LEMMA AuditClosed ==
  ASSUME TypeOK, AuditAccount, CloseAudit
  PROVE  AuditAccount'
  <1>1. /\ backfill = "close" /\ backfill' = "closed"
        /\ audit' = [audit EXCEPT ![Len(audit)].loaded = Cardinality(found)]
        /\ UNCHANGED <<backfills, btries>>
    BY DEF CloseAudit
  <1>2. HasRow /\ HasRow'
    BY <1>1 DEF HasRow
  <1>3. /\ Len(audit') = Len(audit) /\ DOMAIN audit' = DOMAIN audit
        /\ \A n \in DOMAIN audit \ {Len(audit)} : audit'[n] = audit[n]
    <2>1. audit \in Seq([window : Nat \X Nat, loaded : Nat \cup {Open}])
      BY DEF TypeOK
    <2> QED BY <1>1, <2>1
  <1>4. ClosedBefore' = ClosedBefore
    BY <1>2, <1>3 DEF ClosedBefore, ClosedRows
  <1> QED BY <1>1, <1>2, <1>3, <1>4 DEF AuditAccount

(* The run has ended: of the rows closed now at most one is its own. *)
LEMMA AuditLeft ==
  ASSUME TypeOK, AuditAccount, UNCHANGED <<backfills, audit>>,
         backfill # "idle", backfill' = "idle"
  PROVE  AuditAccount'
  <1>1. ~HasRow' /\ ClosedRows' = ClosedRows /\ backfills \in Nat
    BY SameRows, AuditNumbers DEF HasRow
  <1>2. ClosedBefore' = ClosedRows
    BY <1>1 DEF ClosedBefore
  <1>3. Cardinality(ClosedRows) <= backfills
    <2>1. Cardinality(ClosedBefore) <= backfills - 1
      BY DEF AuditAccount
    <2> QED BY <1>1, <2>1, ClosedFinite
  <1>4. Len(audit) <= RowsOfRuns(backfills)
    BY RowsSoFar
  <1> QED BY <1>1, <1>2, <1>3, <1>4 DEF AuditAccount

(* plan_window raised, before or after its commit: a row that is there is  *)
(* open, and the next attempt will add another.                            *)
LEMMA AuditPlansAgain ==
  ASSUME TypeOK, AuditAccount, UNCHANGED <<backfills, audit>>,
         backfill \in {"plan", "planned"}, backfill' = "plan", btries' = btries + 1
  PROVE  AuditAccount'
  <1>1. /\ ~HasRow' /\ ClosedRows' = ClosedRows /\ backfills > 0
        /\ backfills \in Nat /\ btries \in Nat /\ Len(audit) \in Nat
    BY SameRows, AuditNumbers DEF HasRow, AuditAccount
  <1>2. ClosedBefore' = ClosedBefore
    <2>1. backfill = "planned" => Len(audit) \notin ClosedRows
      BY DEF AuditAccount, ClosedRows
    <2> QED BY <1>1, <2>1 DEF ClosedBefore, HasRow
  <1>3. Len(audit) <= RowsOfRuns(backfills - 1) + btries + 1
    <2>1. \/ Len(audit) <= RowsOfRuns(backfills - 1) + btries
          \/ Len(audit) <= RowsOfRuns(backfills - 1) + btries + 1
      BY DEF AuditAccount
    <2> QED BY <1>1, <2>1, OneRunMore
  <1>4. RowsOfRuns(backfills - 1) \in Nat
    BY <1>1, OneRunMore
  <1>5. Len(audit) <= RowsOfRuns(backfills - 1) + (btries + 1)
    BY <1>1, <1>3, <1>4
  <1>6. Cardinality(ClosedBefore) <= backfills - 1
    BY DEF AuditAccount
  <1> QED BY <1>1, <1>2, <1>5, <1>6 DEF AuditAccount

LEMMA AuditFails ==
  ASSUME TypeOK, AuditAccount, BackfillFails, backfill # "idle"
  PROVE  AuditAccount'
  <1>1. /\ UNCHANGED <<backfills, audit>>
        /\ \/ backfill' = BackfillTaskOf[backfill] /\ btries' = btries + 1
           \/ backfill' = "idle"
    BY DEF BackfillFails
  <1>2. backfill \in DOMAIN BackfillTaskOf
    BY DEF TypeOK
  <1>3. CASE backfill' = "idle"
    BY <1>1, <1>3, AuditLeft
  <1>4. CASE backfill' = BackfillTaskOf[backfill] /\ btries' = btries + 1
    <2>1. CASE backfill \in {"plan", "planned"}
      BY <1>1, <1>4, <2>1, BackfillTasks, AuditPlansAgain
    <2>2. CASE backfill \in {"reprocess", "reading"}
      <3>1. backfill' = "reprocess" /\ HasRow
        BY <1>4, <2>2, BackfillTasks DEF HasRow
      <3> QED BY <1>1, <2>2, <3>1, AuditCarried
    <2>3. CASE backfill \in {"close", "closed"}
      <3>1. backfill' = "close" /\ HasRow
        BY <1>4, <2>3, BackfillTasks DEF HasRow
      <3> QED BY <1>1, <3>1, AuditCarried
    <2> QED BY <1>2, <2>1, <2>2, <2>3, BackfillTasks
  <1> QED BY <1>1, <1>3, <1>4

LEMMA AuditStep ==
  ASSUME TypeOK, AuditAccount, [Next]_vars
  PROVE  AuditAccount'
  <1>1. CASE UNCHANGED <<backfills, backfill, btries, audit>>
    BY <1>1, AuditStays
  <1>2. CASE BackfillMoves
    <2>1. CASE \E w \in Windows : Trigger(w)
      BY <2>1, AuditTriggered
    <2>2. CASE Plan
      BY <2>2, AuditPlanned
    <2>3. CASE CloseAudit
      BY <2>3, AuditClosed
    <2>4. CASE PlanReturns \/ HourBegins \/ (\E S \in SUBSET Trips : HourLoads(S))
      <3>1. /\ UNCHANGED <<backfills, audit>>
            /\ backfill \in {"planned", "reprocess", "reading"}
            /\ backfill' \in {"reprocess", "reading"}
        BY <2>4 DEF PlanReturns, HourBegins, HourLoads
      <3> QED BY <3>1, AuditCarried DEF HasRow
    <2>5. CASE ReprocessReturns
      <3>1. UNCHANGED <<backfills, audit>> /\ backfill = "reprocess" /\ backfill' = "close"
        BY <2>5 DEF ReprocessReturns
      <3> QED BY <3>1, AuditCarried DEF HasRow
    <2>6. CASE BackfillEnds
      <3>1. UNCHANGED <<backfills, audit>> /\ backfill = "closed" /\ backfill' = "idle"
        BY <2>6 DEF BackfillEnds
      <3> QED BY <3>1, AuditLeft
    <2>7. CASE PlanRejects \/ BackfillTaskDies
      <3>1. BackfillFails /\ backfill # "idle"
        BY <2>7 DEF PlanRejects, BackfillTaskDies
      <3> QED BY <3>1, AuditFails
    <2> QED BY <1>2, <2>1, <2>2, <2>3, <2>4, <2>5, <2>6, <2>7 DEF BackfillMoves, BackfillStep
  <1>3. CASE RollupMoves \/ Tick \/ (\E t \in Trips : TripLands(t)) \/ UNCHANGED vars
    <2>1. UNCHANGED backfillVars
      BY <1>3 DEF RollupMoves, ScheduleRollup, RollupStep, SensorPasses, SensorTimesOut,
         ExtractBegins, ExtractLoads, ExtractReturns, VerifySucceeds, VerifyFindsDrift,
         RollupTaskDies, RollupFails, Tick, TripLands, vars, backfillVars
    <2> QED BY <2>1, AuditStays DEF backfillVars
  <1> QED BY <1>1, <1>2, <1>3 DEF Next, RollupMoves, BackfillMoves

-----------------------------------------------------------------------------
(* The invariant of the batch layer: what was extracted is loaded, a       *)
(* backfill has loaded everything before its cursor, and its audit row is  *)
(* the last one (trips_batch_rollup.py, trips_backfill.py).                *)
THEOREM BatchInvariant == Spec => []BatchInv
  <1>1. Init => BatchInv
    BY InitHolds, AuditInit DEF LayerInv, BatchInv
  <1>2. BatchInv /\ [Next]_vars => BatchInv'
    <2> SUFFICES ASSUME LayerInv, AuditAccount, [Next]_vars PROVE LayerInv' /\ AuditAccount'
      BY DEF LayerInv, BatchInv
    <2>1. LayerInv'
      BY RollupHolds, BackfillHolds, WorldHolds, StutterHolds
         DEF Next, RollupMoves, BackfillMoves
    <2>2. AuditAccount'
      BY AuditStep DEF LayerInv
    <2> QED BY <2>1, <2>2
  <1> QED BY <1>1, <1>2, PTL DEF Spec

(* The state of the batch layer keeps its types: the hour of a run has     *)
(* closed, and the stage holds nothing that Cassandra does not             *)
(* (trips_batch_rollup.py, trips_backfill.py).                             *)
THEOREM BatchTypeCorrect == Spec => []TypeOK
  <1>1. BatchInv => TypeOK
    BY DEF BatchInv
  <1> QED BY <1>1, BatchInvariant, PTL

(* A backfill of a window that begins on the hour has loaded the window    *)
(* when it closes its audit row (trips_backfill.py: reprocess_window).     *)
THEOREM BatchWindowLoaded == Spec => []ClosedWindowIsLoaded
  <1>1. BatchInv => ClosedWindowIsLoaded
    <2> SUFFICES ASSUME BatchInv, backfill \in {"close", "closed"}, Start % 2 = 0
                 PROVE  Within(blanded, Start, End) \subseteq stage
      BY DEF ClosedWindowIsLoaded
    <2>1. /\ Within(blanded, Start, cursor) \subseteq stage /\ End <= cursor
          /\ Start \in Nat /\ End \in Nat /\ cursor \in Nat /\ blanded \subseteq Trips
      BY WindowKnown DEF BatchInv, LoadedToCursor, TypeOK
    <2>2. \A t \in blanded : EventTime[t] \in Nat
      BY <2>1, BatchAssumption
    <2> QED BY <2>1, <2>2 DEF Within
  <1> QED BY <1>1, BatchInvariant, PTL

(* A run adds no more rows to backfill_audit than plan_window has attempts *)
(* and closes one at most; until then its row is open (trips_backfill.py:  *)
(* plan_window, close_audit).                                              *)
THEOREM BatchAuditHonest == Spec => []AuditIsHonest
  <1>1. BatchInv => AuditIsHonest
    <2> SUFFICES ASSUME TypeOK, AuditAccount PROVE AuditIsHonest
      BY DEF BatchInv
    <2>1. backfills \in Nat
      BY AuditNumbers
    <2>2. Len(audit) <= RowsOfRuns(backfills)
      BY RowsSoFar
    <2>3. Cardinality(ClosedRows) <= backfills
      <3>1. CASE backfill = "idle"
        BY <3>1 DEF AuditAccount, ClosedBefore, HasRow
      <3>2. CASE backfill # "idle"
        <4>1. Cardinality(ClosedBefore) <= backfills - 1
          BY <3>2 DEF AuditAccount
        <4> QED BY <2>1, <4>1, ClosedFinite
      <3> QED BY <3>1, <3>2
    <2> QED BY <2>2, <2>3 DEF AuditIsHonest, AuditAccount, RowsOfRuns
  <1> QED BY <1>1, BatchInvariant, PTL

(* The sets behind the two counts of verify_hour *)
LEMMA HourlyCounts ==
  ASSUME BatchInv, rollup = "verify"
  PROVE  LET hourly == Within(stage, 2 * hour, 2 * hour + 2)
         IN  /\ rows \subseteq hourly /\ landed \subseteq rows
             /\ IsFiniteSet(hourly) /\ IsFiniteSet(rows)
             /\ Cardinality(rows) \in Nat /\ Cardinality(hourly) \in Nat
             /\ Drift = Cardinality(rows) - Cardinality(hourly)
  <1> DEFINE hourly == Within(stage, 2 * hour, 2 * hour + 2)
  <1>1. rows \subseteq hourly /\ landed \subseteq rows
    BY DEF BatchInv, ExtractLoaded
  <1>2. hourly \subseteq Trips
    BY DEF BatchInv, TypeOK, Within
  <1>3. Drift = Cardinality(rows) - Cardinality(hourly)
    BY DEF Drift
  <1> HIDE DEF hourly
  <1>4. IsFiniteSet(hourly) /\ IsFiniteSet(rows)
    <2>1. rows \subseteq Trips
      BY <1>1, <1>2
    <2> QED BY <1>2, <2>1, FS_Subset, BatchAssumption
  <1>5. Cardinality(rows) \in Nat /\ Cardinality(hourly) \in Nat
    BY <1>4, FS_CardinalityType
  <1> QED BY <1>1, <1>3, <1>4, <1>5 DEF hourly

(* What verify_hour concludes from two counts is so of the two sets        *)
(* (trips_batch_rollup.py: verify_hour).                                   *)
THEOREM BatchVerifiedExact == Spec => VerifiedIsExact
  <1> DEFINE hourly == Within(stage, 2 * hour, 2 * hour + 2)
             Exact == /\ VerifySucceeds => hourly = rows /\ landed \subseteq rows
                      /\ VerifyFindsDrift => rows \subseteq hourly
  <1>1. BatchInv => Exact
    <2> SUFFICES ASSUME BatchInv PROVE Exact
      OBVIOUS
    <2>1. CASE VerifySucceeds
      <3>1. rollup = "verify" /\ Drift = 0 /\ ~VerifyFindsDrift
        BY <2>1 DEF VerifySucceeds, VerifyFindsDrift
      <3>2. /\ rows \subseteq hourly /\ landed \subseteq rows /\ IsFiniteSet(hourly)
            /\ Cardinality(rows) = Cardinality(hourly)
        BY <3>1, HourlyCounts
      <3> HIDE DEF hourly
      <3>3. hourly = rows
        BY <3>2, FS_Subset
      <3> QED BY <3>1, <3>2, <3>3
    <2>2. CASE VerifyFindsDrift
      <3>1. rollup = "verify" /\ ~VerifySucceeds
        BY <2>2 DEF VerifySucceeds, VerifyFindsDrift
      <3> QED BY <3>1, HourlyCounts
    <2> QED BY <2>1, <2>2
  <1>2. Spec => [][Exact]_vars
    <2> HIDE DEF Exact
    <2> QED BY <1>1, BatchInvariant, PTL
  <1> QED BY <1>2 DEF VerifiedIsExact

(* No step takes a row out of the stage; and while the rollup verifies, it *)
(* keeps its hour and its count.                                           *)
LEMMA StageGrows ==
  ASSUME BatchInv, [Next]_vars
  PROVE  stage \subseteq stage'
  BY DEF Next, RollupStep, BackfillStep, Tick, TripLands, ScheduleRollup, SensorPasses,
     SensorTimesOut, ExtractBegins, ExtractLoads, ExtractReturns, VerifySucceeds,
     VerifyFindsDrift, RollupTaskDies, RollupFails, Trigger, Plan, PlanRejects, PlanReturns,
     HourBegins, HourLoads, ReprocessReturns, CloseAudit, BackfillEnds, BackfillTaskDies,
     BackfillFails, tables, vars

LEMMA CountIsKept ==
  ASSUME [Next]_vars, rollup = "verify", rollup' = "verify"
  PROVE  UNCHANGED <<hour, rows>>
  <1>1. CASE RollupMoves
    BY <1>1 DEF RollupMoves, ScheduleRollup, RollupStep, SensorPasses, SensorTimesOut,
       ExtractBegins, ExtractLoads, ExtractReturns, VerifySucceeds, VerifyFindsDrift,
       RollupTaskDies, RollupFails, RollupIsOver
  <1>2. CASE ~RollupMoves
    <2>1. UNCHANGED rollupVars
      BY <1>2 DEF Next, RollupMoves, BackfillStep, Tick, TripLands, Trigger, Plan,
         PlanRejects, PlanReturns, HourBegins, HourLoads, ReprocessReturns, CloseAudit,
         BackfillEnds, BackfillTaskDies, BackfillFails, vars
    <2> QED BY <2>1 DEF rollupVars
  <1> QED BY <1>1, <1>2

(* A drift that verify_hour has found stays: the stage only grows, and the *)
(* count it is compared with is that of the extract                        *)
(* (trips_batch_rollup.py: verify_hour and its retries).                   *)
THEOREM BatchDriftForGood == Spec => DriftIsForGood
  <1> DEFINE Stays == rollup = "verify" /\ Drift # 0 /\ rollup' = "verify" => Drift' # 0
             hourly == Within(stage, 2 * hour, 2 * hour + 2)
             later == Within(stage', 2 * hour, 2 * hour + 2)
  <1>1. BatchInv /\ BatchInv' /\ [Next]_vars => Stays
    <2> SUFFICES ASSUME BatchInv, BatchInv', [Next]_vars,
                        rollup = "verify", Drift # 0, rollup' = "verify"
                 PROVE  Drift' # 0
      OBVIOUS
    <2>1. UNCHANGED <<hour, rows>> /\ stage \subseteq stage'
      BY CountIsKept, StageGrows
    <2>2. Drift' = Cardinality(rows) - Cardinality(later)
      BY <2>1 DEF Drift
    <2>3. /\ rows \subseteq hourly /\ IsFiniteSet(rows) /\ IsFiniteSet(hourly)
          /\ Cardinality(rows) \in Nat /\ Cardinality(hourly) \in Nat
          /\ Cardinality(rows) # Cardinality(hourly)
      BY HourlyCounts
    <2>4. hourly \subseteq later
      BY <2>1, WithinGrows
    <2>5. IsFiniteSet(later)
      <3>1. later \subseteq Trips
        BY DEF BatchInv, TypeOK, Within
      <3> HIDE DEF later
      <3> QED BY <3>1, FS_Subset, BatchAssumption
    <2> HIDE DEF hourly, later
    <2>6. Cardinality(rows) <= Cardinality(hourly)
      BY <2>3, FS_Subset
    <2>7. Cardinality(hourly) <= Cardinality(later) /\ Cardinality(later) \in Nat
      BY <2>4, <2>5, FS_Subset, FS_CardinalityType
    <2> QED BY <2>2, <2>3, <2>6, <2>7
  <1>2. Spec => [][Stays]_vars
    <2> HIDE DEF Stays
    <2> QED BY <1>1, BatchInvariant, PTL DEF Spec
  <1> QED BY <1>2 DEF DriftIsForGood

=============================================================================
