------------------------ MODULE CassandraSinkProofs ------------------------
(***************************************************************************)
(* Proofs about CassandraSink for every partition, table set, chunk size,  *)
(* attempt budget, schedule and number of task failures.                   *)
(***************************************************************************)
EXTENDS CassandraSink, FiniteSetTheorems, WellFoundedInduction, TLAPS

(* Statements, and the sets of statements the task keeps, are finite. *)
LEMMA StatementsFinite ==
  IsFiniteSet(Rows) /\ IsFiniteSet(Statements)
  <1> USE SinkAssumption
  <1>1. IsFiniteSet(Rows)
    BY FS_Interval DEF Rows
  <1>2. IsFiniteSet(Rows \ Defects)
    BY <1>1, FS_Difference
  <1> QED BY <1>1, <1>2, FS_Product DEF Statements

LEMMA CountIsNat ==
  ASSUME NEW S, S \subseteq Statements \/ S \subseteq Rows
  PROVE  IsFiniteSet(S) /\ Cardinality(S) \in Nat
  BY StatementsFinite, FS_Subset, FS_CardinalityType

(* The loop makes at least one attempt, and never more than the budget     *)
(* that the fast path left.                                                *)
LEMMA BudgetType ==
  /\ Budget \in Nat \ {0}
  /\ MaxAttempts >= 2 => Budget = MaxAttempts - 1
  BY SinkAssumption DEF Budget, LoopBudget

LEMMA DelayType == ASSUME NEW i \in Nat PROVE DelayMs(Schedule, i) \in Nat
  <1>1. CASE Schedule = <<>>
    BY <1>1 DEF DelayMs
  <1>2. CASE Schedule # <<>>
    <2>1. Len(Schedule) \in Nat \ {0}
      BY <1>2, SinkAssumption
    <2>2. (IF i < Len(Schedule) THEN i + 1 ELSE Len(Schedule)) \in 1..Len(Schedule)
      BY <2>1
    <2> QED BY <1>2, <2>2, SinkAssumption DEF DelayMs
  <1> QED BY <1>1, <1>2

-----------------------------------------------------------------------------
(* Lemmas about the accounting records.                                    *)

LEMMA NoStatsType == NoStats \in RetryStats
  BY DEF NoStats, RetryStats, Reasons

LEMMA NoCountersType == NoCounters \in Counters
  BY DEF NoCounters, Counters

LEMMA RecordReasonType ==
  ASSUME NEW st \in RetryStats, NEW r \in Reasons
  PROVE  /\ RecordReason(st, r) \in RetryStats
         /\ Failures(RecordReason(st, r)) = Failures(st) + 1
         /\ RecordReason(st, r).attempts = st.attempts
         /\ RecordReason(st, r).successes = st.successes
         /\ RecordReason(st, r).retries = st.retries
  BY DEF RecordReason, RetryStats, Reasons, Failures

LEMMA MergeType ==
  ASSUME NEW st \in RetryStats, NEW other \in RetryStats
  PROVE  /\ Merge(st, other) \in RetryStats
         /\ Failures(Merge(st, other)) = Failures(st) + Failures(other)
         /\ Merge(st, other).attempts = st.attempts + other.attempts
         /\ Merge(st, other).successes = st.successes + other.successes
         /\ Merge(st, other).retries = st.retries + other.retries
  BY DEF Merge, RetryStats, Reasons, Failures

(* One more attempt, recorded as a failure. *)
Balanced(st) == st.attempts = st.successes + Failures(st)

LEMMA AttemptFailed ==
  ASSUME loopStats \in RetryStats, NEW r \in Reasons,
         Balanced(loopStats)
  PROVE  /\ RecordReason(Attempted, r) \in RetryStats
         /\ Balanced(RecordReason(Attempted, r))
         /\ RecordReason(Attempted, r).successes = loopStats.successes
         /\ RecordReason(Attempted, r).retries = loopStats.retries
  <1>1. /\ Attempted \in RetryStats /\ Attempted.attempts = loopStats.attempts + 1
        /\ Attempted.successes = loopStats.successes
        /\ Attempted.retries = loopStats.retries
        /\ Attempted.reasons = loopStats.reasons
    BY DEF Attempted, RetryStats
  <1>2. loopStats.attempts \in Nat /\ loopStats.successes \in Nat /\ Failures(loopStats) \in Nat
    BY DEF RetryStats, Reasons, Failures
  <1> QED BY <1>1, <1>2, RecordReasonType DEF Failures, Balanced

(* The counters stay natural numbers whatever is added to them. *)
LEMMA CountersGrow ==
  ASSUME NEW c \in Counters, NEW n \in Nat, NEW m \in Nat
  PROVE  /\ [c EXCEPT !.validation_rejects = @ + m, !.dlq_emitted = @ + n] \in Counters
         /\ [c EXCEPT !.rows_written = @ + n] \in Counters
         /\ [c EXCEPT !.dlq_emitted = @ + 1] \in Counters
         /\ [c EXCEPT !.rows_written = @ + 1, !.retried_writes = @ + 1,
                      !.retried_writes_retries = @ + n + 1] \in Counters
  <1>1. ASSUME NEW i \in Nat, NEW j \in Nat, NEW k \in Nat
        PROVE  /\ [c EXCEPT !.validation_rejects = i, !.dlq_emitted = j] \in Counters
               /\ [c EXCEPT !.rows_written = i] \in Counters
               /\ [c EXCEPT !.dlq_emitted = i] \in Counters
               /\ [c EXCEPT !.rows_written = i, !.retried_writes = j,
                            !.retried_writes_retries = k] \in Counters
    BY DEF Counters
  <1>2. /\ c.validation_rejects + m \in Nat /\ c.dlq_emitted + n \in Nat
        /\ c.rows_written + n \in Nat /\ c.dlq_emitted + 1 \in Nat
        /\ c.rows_written + 1 \in Nat /\ c.retried_writes + 1 \in Nat
        /\ c.retried_writes_retries + n + 1 \in Nat
    BY DEF Counters
  <1> QED BY <1>1, <1>2

(* The record of a loop that ends with a success, and with a failure. *)
LEMMA SuccessType ==
  ASSUME loopStats \in RetryStats, attempt \in Nat
  PROVE  LET final == [Attempted EXCEPT !.successes = @ + 1, !.retries = @ + attempt]
         IN  /\ final.retries = loopStats.retries + attempt
             /\ [final EXCEPT !.retries = @ + 1] \in RetryStats
  <1> DEFINE final == [Attempted EXCEPT !.successes = @ + 1, !.retries = @ + attempt]
  <1>1. /\ Attempted \in RetryStats /\ Attempted.successes = loopStats.successes
        /\ Attempted.retries = loopStats.retries
    BY DEF Attempted, RetryStats
  <1>2. ASSUME NEW i \in Nat, NEW j \in Nat
        PROVE  /\ [Attempted EXCEPT !.successes = i, !.retries = j] \in RetryStats
               /\ [Attempted EXCEPT !.successes = i, !.retries = j].retries = j
    BY <1>1 DEF RetryStats
  <1>3. Attempted.successes + 1 \in Nat /\ Attempted.retries + attempt \in Nat
    BY <1>1 DEF RetryStats
  <1>4. final \in RetryStats /\ final.retries = loopStats.retries + attempt
    BY <1>1, <1>2, <1>3
  <1> HIDE DEF final
  <1>5. final.retries + 1 \in Nat
    BY <1>4 DEF RetryStats
  <1>6. ASSUME NEW i \in Nat PROVE [final EXCEPT !.retries = i] \in RetryStats
    BY <1>4 DEF RetryStats
  <1>7. [final EXCEPT !.retries = @ + 1] \in RetryStats
    BY <1>5, <1>6
  <1> QED BY <1>4, <1>7 DEF final

LEMMA FailureType ==
  ASSUME loopStats \in RetryStats, NEW r \in Reasons, NEW n \in Nat
  PROVE  /\ RecordReason(Attempted, r) \in RetryStats
         /\ [RecordReason(Attempted, r) EXCEPT !.exhausted = @ + 1] \in RetryStats
         /\ [RecordReason(Attempted, r) EXCEPT !.backoff = @ + n] \in RetryStats
  <1>1. Attempted \in RetryStats
    BY DEF Attempted, RetryStats
  <1>2. RecordReason(Attempted, r) \in RetryStats
    BY <1>1, RecordReasonType
  <1> QED BY <1>2 DEF RetryStats

(* The results of a fast path are added reason by reason. *)
LEMMA FastStatsType ==
  ASSUME NEW st \in RetryStats, NEW n \in Nat, NEW g \in Nat, NEW h \in [Reasons -> Nat]
  PROVE  [st EXCEPT !.attempts = n, !.successes = g, !.reasons = h] \in RetryStats
  BY DEF RetryStats

(* Leaving the loop empties it and merges its record. *)
LEMMA LeaveLoopType ==
  ASSUME TypeOK, NEW final \in RetryStats, LeaveLoop(final)
  PROVE  /\ stats' \in RetryStats /\ loopStats' \in RetryStats
         /\ DOMAIN failed' = DOMAIN failed \ {current}
         /\ \A s \in DOMAIN failed' : failed'[s] = failed[s]
         /\ failed' \in [DOMAIN failed' -> Reasons]
         /\ current' \in Statements \cup {NoStatement}
         /\ attempt' \in 0..(Budget - 1)
         /\ pc' = "retry"
  BY MergeType, NoStatsType, BudgetType DEF LeaveLoop, Settle, TypeOK

(* One chunk: the rows from next to the smaller of its end and the last.   *)
LEMMA TakeChunkFacts ==
  ASSUME TypeOK, TakeChunk
  PROVE  \E last \in next..NRows :
           /\ next' = last + 1
           /\ work' = ((next..last) \ Defects) \X Tables
           /\ letters' = letters \cup {Letter(r, "none", "parse", 0, "defect", 0) :
                                          r \in (next..last) \cap Defects}
           /\ counters' = [counters EXCEPT
                !.validation_rejects = @ + Cardinality((next..last) \cap Rejected),
                !.dlq_emitted = @ + Cardinality((next..last) \cap Defects)]
           /\ pc' = IF next..last \subseteq Defects THEN "chunk" ELSE "fast"
  <1> DEFINE last == IF next + ChunkSize - 1 < NRows THEN next + ChunkSize - 1 ELSE NRows
  <1>1. last \in next..NRows
    BY SinkAssumption DEF TakeChunk, TypeOK
  <1>2. (next..last) \ ((next..last) \cap Defects) = (next..last) \ Defects
    OBVIOUS
  <1> QED BY <1>1, <1>2 DEF TakeChunk

-----------------------------------------------------------------------------
LEMMA SinkTypeInit == Init => TypeOK
  <1> SUFFICES ASSUME Init PROVE TypeOK
    OBVIOUS
  <1>1. next \in 1..(NRows + 1) /\ attempt \in 0..(Budget - 1) /\ taskFailures \in 0..TaskMaxFailures
    BY SinkAssumption, BudgetType DEF Init, ResetTask
  <1>2. failed \in [DOMAIN failed -> Reasons] /\ DOMAIN failed \subseteq Statements
    BY DEF Init, ResetTask, NoFailures, Reasons
  <1> QED BY <1>1, <1>2, NoStatsType, NoCountersType DEF Init, ResetTask, TypeOK

LEMMA SinkTypeStep == TypeOK /\ PhaseFits /\ [Next]_vars => TypeOK'
  <1> SUFFICES ASSUME TypeOK, PhaseFits, [Next]_vars PROVE TypeOK'
    OBVIOUS
  <1>0. stats \in RetryStats /\ loopStats \in RetryStats /\ counters \in Counters
        /\ attempt \in Nat /\ tries \in [Statements -> Nat]
    BY BudgetType DEF TypeOK
  <1>1. CASE TakeChunk
    <2>1. PICK last \in next..NRows :
             /\ next' = last + 1
             /\ work' = ((next..last) \ Defects) \X Tables
             /\ counters' = [counters EXCEPT
                  !.validation_rejects = @ + Cardinality((next..last) \cap Rejected),
                  !.dlq_emitted = @ + Cardinality((next..last) \cap Defects)]
             /\ pc' = IF next..last \subseteq Defects THEN "chunk" ELSE "fast"
      BY <1>1, TakeChunkFacts
    <2>2. next..last \subseteq Rows
      BY SinkAssumption DEF Rows, TypeOK
    <2>3. next' \in 1..(NRows + 1) /\ work' \subseteq Statements
      BY <2>1, <2>2, SinkAssumption DEF TypeOK, Statements
    <2>4. /\ Cardinality((next..last) \cap Defects) \in Nat
          /\ Cardinality((next..last) \cap Rejected) \in Nat
      <3>1. (next..last) \cap Defects \subseteq Rows /\ (next..last) \cap Rejected \subseteq Rows
        BY <2>2
      <3> QED BY <3>1, CountIsNat
    <2>5. counters' \in Counters
      BY <1>0, <2>1, <2>4, CountersGrow
    <2> QED BY <1>1, <2>1, <2>3, <2>5 DEF TakeChunk, TypeOK
  <1>2. CASE FastPath
    <2>1. PICK result \in [work -> {"ok"} \cup Reasons] :
             LET good == {s \in work : result[s] = "ok"}
             IN  /\ \E applied \in SUBSET MayApply(work, result) :
                      tables' = tables \cup good \cup applied
                 /\ failed' = [s \in work \ good |-> result[s]]
                 /\ stats' = [stats EXCEPT
                      !.attempts = @ + Cardinality(work),
                      !.successes = @ + Cardinality(good),
                      !.reasons = [r \in Reasons |->
                         @[r] + Cardinality({s \in work : result[s] = r})]]
                 /\ counters' = [counters EXCEPT !.rows_written = @ + Cardinality(good)]
      BY <1>2 DEF FastPath
    <2> DEFINE good == {s \in work : result[s] = "ok"}
    <2>2. /\ Cardinality(work) \in Nat /\ Cardinality(good) \in Nat
          /\ \A r \in Reasons : Cardinality({s \in work : result[s] = r}) \in Nat
      <3>1. good \subseteq Statements
        BY DEF TypeOK
      <3>2. \A r \in Reasons : {s \in work : result[s] = r} \subseteq Statements
        BY DEF TypeOK
      <3> QED BY <3>1, <3>2, CountIsNat DEF TypeOK
    <2>3. stats' \in RetryStats
      <3> DEFINE h == [r \in Reasons |->
                         stats.reasons[r] + Cardinality({s \in work : result[s] = r})]
                 n == stats.attempts + Cardinality(work)
                 g == stats.successes + Cardinality(good)
      <3>1. h \in [Reasons -> Nat] /\ n \in Nat /\ g \in Nat
        BY <1>0, <2>2 DEF RetryStats
      <3>2. stats' = [stats EXCEPT !.attempts = n, !.successes = g, !.reasons = h]
        BY <2>1
      <3> HIDE DEF h, n, g
      <3> QED BY <1>0, <3>1, <3>2, FastStatsType
    <2>4. counters' \in Counters
      BY <1>0, <2>1, <2>2, CountersGrow
    <2>5. tables' \subseteq Statements
      BY <2>1 DEF TypeOK, MayApply
    <2>6. DOMAIN failed' \subseteq Statements /\ failed' \in [DOMAIN failed' -> Reasons]
      BY <2>1 DEF TypeOK
    <2>7. tries' \in [Statements -> Nat]
      BY <1>2 DEF FastPath, TypeOK
    <2> QED BY <1>2, <2>3, <2>4, <2>5, <2>6, <2>7 DEF FastPath, TypeOK
  <1>3. ASSUME NEW s \in DOMAIN failed, RejectPermanent(s) PROVE TypeOK'
    <2>1. counters' \in Counters
      BY <1>0, <1>3, CountersGrow DEF RejectPermanent
    <2>2. DOMAIN failed' \subseteq Statements /\ failed' \in [DOMAIN failed' -> Reasons]
      BY <1>3 DEF RejectPermanent, Settle, TypeOK
    <2> QED BY <1>3, <2>1, <2>2 DEF RejectPermanent, TypeOK
  <1>4. ASSUME NEW s \in DOMAIN failed, EnterRetry(s) PROVE TypeOK'
    BY <1>4, NoStatsType, BudgetType DEF EnterRetry, TypeOK
  <1>5. CASE AttemptSucceeds
    <2> DEFINE final == [Attempted EXCEPT !.successes = @ + 1, !.retries = @ + attempt]
    <2>1. [final EXCEPT !.retries = @ + 1] \in RetryStats /\ final.retries \in Nat
      BY <1>0, SuccessType DEF RetryStats
    <2>2. LeaveLoop([final EXCEPT !.retries = @ + 1])
      BY <1>5 DEF AttemptSucceeds
    <2>3. counters' \in Counters
      BY <1>0, <1>5, <2>1, CountersGrow DEF AttemptSucceeds
    <2>4. tables' \subseteq Statements
      BY <1>5 DEF AttemptSucceeds, TypeOK, PhaseFits
    <2>5. tries' \in [Statements -> Nat]
      BY <1>0, <1>5 DEF AttemptSucceeds, CountTry, TypeOK, PhaseFits
    <2> QED BY <1>5, <2>1, <2>2, <2>3, <2>4, <2>5, LeaveLoopType DEF AttemptSucceeds, TypeOK
  <1>6. CASE AttemptRejected
    <2> DEFINE final == [RecordReason(Attempted, "permanent") EXCEPT !.exhausted = @ + 1]
    <2>1. final \in RetryStats
      BY <1>0, FailureType DEF Reasons
    <2>2. LeaveLoop(final)
      BY <1>6 DEF AttemptRejected, GiveUp
    <2>3. counters' \in Counters
      BY <1>0, <1>6, CountersGrow DEF AttemptRejected, GiveUp
    <2>4. tries' \in [Statements -> Nat]
      BY <1>0, <1>6 DEF AttemptRejected, CountTry, TypeOK, PhaseFits
    <2> QED BY <1>6, <2>1, <2>2, <2>3, <2>4, LeaveLoopType DEF AttemptRejected, TypeOK
  <1>7. CASE AttemptTimesOut
    <2>1. tables' \subseteq Statements
      BY <1>7 DEF AttemptTimesOut, TypeOK, PhaseFits
    <2>2. tries' \in [Statements -> Nat]
      BY <1>0, <1>7 DEF AttemptTimesOut, CountTry, TypeOK, PhaseFits
    <2>3. CASE attempt = Budget - 1
      <3> DEFINE final == [RecordReason(Attempted, "transient") EXCEPT !.exhausted = @ + 1]
      <3>1. final \in RetryStats
        BY <1>0, FailureType DEF Reasons
      <3>2. LeaveLoop(final)
        BY <1>7, <2>3 DEF AttemptTimesOut, GiveUp
      <3>3. counters' \in Counters
        BY <1>0, <1>7, <2>3, CountersGrow DEF AttemptTimesOut, GiveUp
      <3> QED BY <1>7, <2>1, <2>2, <3>1, <3>2, <3>3, LeaveLoopType DEF AttemptTimesOut, TypeOK
    <2>4. CASE attempt # Budget - 1
      <3>1. attempt' \in 0..(Budget - 1)
        <4>1. attempt' = attempt + 1
          BY <1>7, <2>4 DEF AttemptTimesOut
        <4>2. attempt \in 0..(Budget - 1)
          BY DEF TypeOK
        <4> QED BY <2>4, <4>1, <4>2, BudgetType
      <3>2. loopStats' \in RetryStats
        <4>1. DelayMs(Schedule, attempt) \in Nat
          BY <1>0, DelayType
        <4> QED BY <1>0, <1>7, <2>4, <4>1, FailureType DEF AttemptTimesOut, Reasons
      <3> QED BY <1>7, <2>1, <2>2, <2>4, <3>1, <3>2 DEF AttemptTimesOut, TypeOK
    <2> QED BY <2>3, <2>4
  <1>8. CASE EndChunk
    BY <1>8 DEF EndChunk, task, TypeOK
  <1>9. CASE Finish
    BY <1>9 DEF Finish, task, TypeOK
  <1>10. CASE RunAgain
    <2>1. failed' \in [DOMAIN failed' -> Reasons] /\ DOMAIN failed' \subseteq Statements
      BY <1>10 DEF RunAgain, NoFailures, Reasons
    <2>2. next' \in 1..(NRows + 1) /\ attempt' \in 0..(Budget - 1)
      BY <1>10, BudgetType, SinkAssumption DEF RunAgain
    <2> QED BY <1>10, <2>1, <2>2, NoStatsType, NoCountersType DEF RunAgain, TypeOK
  <1>11. CASE TaskFails
    <2>1. InFlight \subseteq Statements
      BY DEF InFlight, TypeOK, PhaseFits
    <2> QED BY <1>11, <2>1, SinkAssumption DEF TaskFails, task, TypeOK
  <1>12. CASE UNCHANGED vars
    BY <1>12 DEF vars, task, TypeOK
  <1> QED
    BY <1>1, <1>2, <1>3, <1>4, <1>5, <1>6, <1>7, <1>8, <1>9, <1>10, <1>11, <1>12
       DEF Next, Step

-----------------------------------------------------------------------------
LEMMA SinkPhaseInit == Init => PhaseFits
  BY DEF Init, ResetTask, NoFailures, PhaseFits, Open

LEMMA SinkPhaseStep == TypeOK /\ PhaseFits /\ [Next]_vars => PhaseFits'
  <1> SUFFICES ASSUME TypeOK, PhaseFits, [Next]_vars PROVE PhaseFits'
    OBVIOUS
  <1>1. CASE TakeChunk
    <2>1. PICK last \in next..NRows :
             /\ next' = last + 1
             /\ work' = ((next..last) \ Defects) \X Tables
             /\ pc' = IF next..last \subseteq Defects THEN "chunk" ELSE "fast"
      BY <1>1, TakeChunkFacts
    <2>2. DOMAIN failed' = {}
      BY <1>1 DEF TakeChunk, PhaseFits
    <2>3. \A s \in work' : s[1] < next'
      BY <2>1, SinkAssumption DEF TypeOK
    <2>4. pc' = "chunk" => work' = {}
      BY <2>1
    <2> QED BY <2>1, <2>2, <2>3, <2>4 DEF PhaseFits, Open
  <1>2. CASE FastPath
    <2>1. DOMAIN failed' \subseteq work
      BY <1>2 DEF FastPath
    <2> QED BY <1>2, <2>1 DEF FastPath, PhaseFits, Open
  <1>3. ASSUME NEW s \in DOMAIN failed, RejectPermanent(s) PROVE PhaseFits'
    <2>1. DOMAIN failed' \subseteq DOMAIN failed
      BY <1>3 DEF RejectPermanent, Settle
    <2> QED BY <1>3, <2>1 DEF RejectPermanent, PhaseFits, Open
  <1>4. ASSUME NEW s \in DOMAIN failed, EnterRetry(s) PROVE PhaseFits'
    BY <1>4 DEF EnterRetry, PhaseFits, Open
  <1>5. ASSUME NEW final, LeaveLoop(final), pc = "loop", UNCHANGED <<next, work>>
        PROVE  PhaseFits'
    <2>1. DOMAIN failed' \subseteq DOMAIN failed /\ pc' = "retry"
      BY <1>5 DEF LeaveLoop, Settle
    <2> QED BY <1>5, <2>1 DEF PhaseFits, Open
  <1>6. CASE AttemptSucceeds
    BY <1>5, <1>6 DEF AttemptSucceeds
  <1>7. CASE AttemptRejected
    BY <1>5, <1>7 DEF AttemptRejected, GiveUp
  <1>8. CASE AttemptTimesOut
    <2>1. CASE attempt = Budget - 1
      BY <1>5, <1>8, <2>1 DEF AttemptTimesOut, GiveUp
    <2>2. CASE attempt # Budget - 1
      BY <1>8, <2>2 DEF AttemptTimesOut, PhaseFits, Open
    <2> QED BY <2>1, <2>2
  <1>9. CASE EndChunk
    BY <1>9 DEF EndChunk, task, PhaseFits, Open
  <1>10. CASE Finish
    BY <1>10 DEF Finish, task, PhaseFits, Open
  <1>11. CASE RunAgain
    BY <1>11 DEF RunAgain, NoFailures, PhaseFits, Open
  <1>12. CASE TaskFails
    BY <1>12 DEF TaskFails, task, PhaseFits, Open
  <1>13. CASE UNCHANGED vars
    BY <1>13 DEF vars, task, PhaseFits, Open
  <1> QED
    BY <1>1, <1>2, <1>3, <1>4, <1>6, <1>7, <1>8, <1>9, <1>10, <1>11, <1>12, <1>13
       DEF Next, Step

(* Every reachable state of a task is type-correct. *)
THEOREM SinkTypeCorrect == Spec => []TypeOK
  <1>1. Init => PhaseFits
    BY SinkPhaseInit
  <1> QED BY <1>1, SinkTypeInit, SinkTypeStep, SinkPhaseStep, PTL DEF Spec

-----------------------------------------------------------------------------
(* A step of a running task that takes no chunk keeps the coverage when it *)
(* forgets an open statement only for a row that has a dead letter.        *)
LEMMA CoverKept ==
  ASSUME RowsCovered, pc # "lost", next' = next, letters \subseteq letters',
         \A s \in tables \cup Open :
           s \in tables' \cup Open' \/ \E l \in letters' : l.row = s[1]
  PROVE  RowsCovered'
  <1> SUFFICES ASSUME NEW r \in 1..(next - 1), ~Lettered(r)', NEW t \in Tables
               PROVE  <<r, t>> \in tables' \cup Open'
    BY DEF RowsCovered
  <1>1. ~Lettered(r)
    BY DEF Lettered
  <1>2. <<r, t>> \in tables \cup Open
    BY <1>1 DEF RowsCovered
  <1>3. <<r, t>>[1] = r
    OBVIOUS
  <1> QED BY <1>2, <1>3 DEF Lettered

LEMMA RowsCoveredStep ==
  ASSUME TypeOK, PhaseFits, RowsCovered, [Next]_vars
  PROVE  RowsCovered'
  <1>1. CASE TakeChunk
    <2>1. PICK last \in next..NRows :
             /\ next' = last + 1
             /\ work' = ((next..last) \ Defects) \X Tables
             /\ letters' = letters \cup {Letter(r, "none", "parse", 0, "defect", 0) :
                                            r \in (next..last) \cap Defects}
      BY <1>1, TakeChunkFacts
    <2>2. tables' = tables /\ failed' = failed /\ pc = "chunk"
      BY <1>1 DEF TakeChunk
    <2>3. Open = {}
      BY <2>2 DEF PhaseFits, Open
    <2> SUFFICES ASSUME NEW r \in 1..(next' - 1), ~Lettered(r)', NEW t \in Tables
                 PROVE  <<r, t>> \in tables' \cup Open'
      BY DEF RowsCovered
    <2>4. CASE r < next
      <3>1. r \in 1..(next - 1) /\ ~Lettered(r)
        BY <2>1, <2>4 DEF Lettered, TypeOK
      <3> QED BY <2>2, <2>3, <3>1 DEF RowsCovered
    <2>5. CASE r >= next
      <3>1. r \in next..last
        BY <2>1, <2>5, SinkAssumption DEF TypeOK
      <3>2. CASE r \in Defects
        <4>1. Letter(r, "none", "parse", 0, "defect", 0) \in letters'
          BY <2>1, <3>1, <3>2
        <4>2. Letter(r, "none", "parse", 0, "defect", 0).row = r
          BY DEF Letter
        <4> QED BY <4>1, <4>2 DEF Lettered
      <3>3. CASE r \notin Defects
        BY <2>1, <3>1, <3>3 DEF Open
      <3> QED BY <3>2, <3>3
    <2>6. r \in Int /\ next \in Int
      BY <2>1 DEF TypeOK
    <2> QED BY <2>4, <2>5, <2>6
  <1>2. CASE FastPath
    <2>1. PICK result \in [work -> {"ok"} \cup Reasons] :
             /\ {s \in work : result[s] = "ok"} \subseteq tables' /\ tables \subseteq tables'
             /\ failed' = [s \in work \ {w \in work : result[w] = "ok"} |-> result[s]]
      BY <1>2 DEF FastPath
    <2>2. pc = "fast" /\ next' = next /\ letters' = letters
      BY <1>2 DEF FastPath
    <2>3. DOMAIN failed = {}
      BY <2>2 DEF PhaseFits
    <2>4. \A s \in tables \cup Open : s \in tables' \cup Open'
      BY <2>1, <2>3 DEF Open
    <2> QED BY <2>2, <2>4, CoverKept
  <1>3. ASSUME NEW s \in DOMAIN failed, RejectPermanent(s) PROVE RowsCovered'
    <2>1. /\ pc = "retry" /\ next' = next /\ tables' = tables /\ work' = work
          /\ letters \subseteq letters'
          /\ Letter(s[1], s[2], "cassandra_sink", 0, "permanent", 0) \in letters'
          /\ DOMAIN failed' = DOMAIN failed \ {s}
      BY <1>3 DEF RejectPermanent, Settle
    <2>2. Letter(s[1], s[2], "cassandra_sink", 0, "permanent", 0).row = s[1]
      BY DEF Letter
    <2>3. \A x \in tables \cup Open :
             x \in tables' \cup Open' \/ \E l \in letters' : l.row = x[1]
      BY <2>1, <2>2 DEF Open
    <2> QED BY <2>1, <2>3, CoverKept
  <1>4. ASSUME NEW s \in DOMAIN failed, EnterRetry(s) PROVE RowsCovered'
    <2>1. /\ pc = "retry" /\ next' = next /\ tables' = tables /\ Open' = Open
          /\ letters' = letters
      BY <1>4 DEF EnterRetry, Open
    <2> QED BY <2>1, CoverKept
  <1>5. CASE AttemptSucceeds
    <2>1. /\ pc = "loop" /\ next' = next /\ letters' = letters /\ work' = work
          /\ tables' = tables \cup {current} /\ DOMAIN failed' = DOMAIN failed \ {current}
      BY <1>5 DEF AttemptSucceeds, LeaveLoop, Settle
    <2>2. \A s \in tables \cup Open : s \in tables' \cup Open'
      BY <2>1 DEF Open
    <2> QED BY <2>1, <2>2, CoverKept
  <1>6. ASSUME pc = "loop", next' = next, work' = work, tables \subseteq tables',
               NEW cause, NEW n, GiveUp(cause, n)
        PROVE  RowsCovered'
    <2> DEFINE l == Letter(current[1], current[2], "cassandra_sink", n + 1, cause,
                           loopStats.backoff)
    <2>1. l \in letters' /\ letters \subseteq letters' /\ DOMAIN failed' = DOMAIN failed \ {current}
      BY <1>6 DEF GiveUp, LeaveLoop, Settle
    <2>2. l.row = current[1]
      BY DEF Letter
    <2>3. \A s \in tables \cup Open :
             s \in tables' \cup Open' \/ \E m \in letters' : m.row = s[1]
      BY <1>6, <2>1, <2>2 DEF Open
    <2> QED BY <1>6, <2>1, <2>3, CoverKept
  <1>7. CASE AttemptRejected
    BY <1>6, <1>7 DEF AttemptRejected
  <1>8. CASE AttemptTimesOut
    <2>1. /\ pc = "loop" /\ next' = next /\ work' = work /\ tables \subseteq tables'
      BY <1>8 DEF AttemptTimesOut
    <2>2. CASE attempt = Budget - 1
      BY <1>6, <1>8, <2>1, <2>2 DEF AttemptTimesOut
    <2>3. CASE attempt # Budget - 1
      <3>1. letters' = letters /\ Open' = Open
        BY <1>8, <2>1, <2>3 DEF AttemptTimesOut, Open
      <3> QED BY <2>1, <3>1, CoverKept
    <2> QED BY <2>2, <2>3
  <1>9. CASE EndChunk \/ Finish
    <2>1. pc # "lost" /\ next' = next /\ letters' = letters /\ tables' = tables /\ Open' = Open
      BY <1>9 DEF EndChunk, Finish, task, Open
    <2> QED BY <2>1, CoverKept
  <1>10. CASE RunAgain
    BY <1>10 DEF RunAgain, RowsCovered
  <1>11. CASE TaskFails
    BY <1>11 DEF TaskFails, RowsCovered
  <1>12. CASE UNCHANGED vars
    BY <1>12 DEF vars, task, RowsCovered, Lettered, Open
  <1> QED
    BY <1>1, <1>2, <1>3, <1>4, <1>5, <1>7, <1>8, <1>9, <1>10, <1>11, <1>12
       DEF Next, Step

(* At the end of a partition nothing is open, so what is covered is safe. *)
LEMMA CoveredIsSafe == TypeOK /\ PhaseFits /\ RowsCovered => NoStatementDropped
  <1> SUFFICES ASSUME TypeOK, PhaseFits, RowsCovered, pc = "done", NEW r \in Rows,
                      ~Lettered(r), NEW t \in Tables
               PROVE  <<r, t>> \in tables
    BY DEF NoStatementDropped
  <1>1. r \in 1..(next - 1)
    BY SinkAssumption DEF PhaseFits, TypeOK, Rows
  <1>2. Open = {}
    BY DEF PhaseFits, Open
  <1> QED BY <1>1, <1>2 DEF RowsCovered

(* No statement is dropped, for any number of rows, tables and chunks and  *)
(* any errors: at the end of a partition a row has a dead letter or is in  *)
(* every table.                                                            *)
THEOREM SinkDropsNothing == Spec => []NoStatementDropped
  <1>1. Init => RowsCovered
    BY DEF Init, ResetTask, RowsCovered
  <1>2. TypeOK /\ PhaseFits /\ RowsCovered /\ [Next]_vars => RowsCovered'
    BY RowsCoveredStep
  <1> QED BY <1>1, <1>2, SinkTypeInit, SinkTypeStep, SinkPhaseInit, SinkPhaseStep,
             CoveredIsSafe, PTL DEF Spec

-----------------------------------------------------------------------------
LEMMA DisjointUnion ==
  ASSUME NEW S, IsFiniteSet(S), NEW T, IsFiniteSet(T), S \cap T = {}
  PROVE  /\ IsFiniteSet(S \cup T)
         /\ Cardinality(S \cup T) = Cardinality(S) + Cardinality(T)
  <1>1. Cardinality(S \cap T) = 0
    BY FS_EmptySet
  <1>2. Cardinality(S) \in Nat /\ Cardinality(T) \in Nat
    BY FS_CardinalityType
  <1>3. /\ IsFiniteSet(S \cup T)
        /\ Cardinality(S \cup T) = Cardinality(S) + Cardinality(T) - Cardinality(S \cap T)
    BY FS_Union, Zenon
  <1> QED BY <1>1, <1>2, <1>3

(* The results of a fast path fall into four disjoint classes. *)
LEMMA FourClasses ==
  ASSUME NEW W, IsFiniteSet(W), NEW result \in [W -> {"ok"} \cup Reasons]
  PROVE  LET N(x) == Cardinality({s \in W : result[s] = x})
         IN  Cardinality(W) =
               N("ok") + N("transient") + N("permanent") + N("unclassified")
  <1> DEFINE C(x) == {s \in W : result[s] = x}
             A == C("ok") \cup C("transient")
             B == C("permanent") \cup C("unclassified")
  <1>1. \A x : C(x) \subseteq W /\ IsFiniteSet(C(x)) /\ Cardinality(C(x)) \in Nat
    BY FS_Subset, FS_CardinalityType
  <1>2. /\ C("ok") \cap C("transient") = {} /\ C("permanent") \cap C("unclassified") = {}
        /\ A \cap B = {} /\ W = A \cup B
    BY DEF Reasons
  <1> HIDE DEF C
  <1>3. IsFiniteSet(A) /\ Cardinality(A) = Cardinality(C("ok")) + Cardinality(C("transient"))
    BY <1>1, <1>2, DisjointUnion
  <1>4. IsFiniteSet(B)
        /\ Cardinality(B) = Cardinality(C("permanent")) + Cardinality(C("unclassified"))
    BY <1>1, <1>2, DisjointUnion
  <1> HIDE DEF A, B
  <1>5. Cardinality(A \cup B) = Cardinality(A) + Cardinality(B)
    BY <1>2, <1>3, <1>4, DisjointUnion
  <1>6. Cardinality(W) = Cardinality(C("ok")) + Cardinality(C("transient"))
                         + Cardinality(C("permanent")) + Cardinality(C("unclassified"))
    BY <1>1, <1>2, <1>3, <1>4, <1>5
  <1> QED BY <1>6 DEF C

(* What the four kinds of step do to the counters that the balance uses.   *)
LEMMA CountersKept ==
  ASSUME NEW c \in Counters, NEW n \in Nat, NEW m \in Nat
  PROVE  /\ LET d == [c EXCEPT !.validation_rejects = @ + m, !.dlq_emitted = @ + n]
            IN  /\ d.rows_written = c.rows_written
                /\ d.retried_writes_retries = c.retried_writes_retries
         /\ LET d == [c EXCEPT !.rows_written = @ + n]
            IN  /\ d.rows_written = c.rows_written + n
                /\ d.retried_writes_retries = c.retried_writes_retries
         /\ LET d == [c EXCEPT !.dlq_emitted = @ + 1]
            IN  /\ d.rows_written = c.rows_written
                /\ d.retried_writes_retries = c.retried_writes_retries
         /\ LET d == [c EXCEPT !.rows_written = @ + 1, !.retried_writes = @ + 1,
                               !.retried_writes_retries = @ + n + 1]
            IN  /\ d.rows_written = c.rows_written + 1
                /\ d.retried_writes_retries = c.retried_writes_retries + n + 1
  BY DEF Counters

(* A merged record balances when both parts do. *)
LEMMA MergeBalance ==
  ASSUME NEW st \in RetryStats, NEW other \in RetryStats, Balanced(st), Balanced(other)
  PROVE  Balanced(Merge(st, other))
  <1>1. /\ st.attempts \in Nat /\ st.successes \in Nat /\ Failures(st) \in Nat
        /\ other.attempts \in Nat /\ other.successes \in Nat /\ Failures(other) \in Nat
    BY DEF RetryStats, Failures, Reasons
  <1> QED BY <1>1, MergeType DEF Balanced

(* The record of a loop that ends balances, and its counts are those that  *)
(* write_partition adds to its own.                                        *)
LEMMA SuccessBalance ==
  ASSUME loopStats \in RetryStats, attempt \in Nat, Balanced(loopStats), LoopOpen
  PROVE  LET final == [Attempted EXCEPT !.successes = @ + 1, !.retries = @ + attempt]
             merged == [final EXCEPT !.retries = @ + 1]
         IN  /\ Balanced(merged) /\ merged.successes = 1
             /\ merged.retries = final.retries + 1
  <1> DEFINE final == [Attempted EXCEPT !.successes = @ + 1, !.retries = @ + attempt]
             merged == [final EXCEPT !.retries = @ + 1]
  <1>1. /\ Attempted \in RetryStats /\ Attempted.attempts = loopStats.attempts + 1
        /\ Attempted.successes = 0 /\ Attempted.reasons = loopStats.reasons
        /\ Attempted.retries = 0
    BY DEF Attempted, RetryStats, LoopOpen
  <1> DEFINE i == Attempted.successes + 1
             j == Attempted.retries + attempt
             st == [Attempted EXCEPT !.successes = i, !.retries = j]
  <1>2. i = 1 /\ i \in Nat /\ j \in Nat
    BY <1>1
  <1>3. st = final
    OBVIOUS
  <1> HIDE DEF i, j, final
  <1>4. /\ final.attempts = loopStats.attempts + 1 /\ final.successes = 1
        /\ final.reasons = loopStats.reasons /\ final \in RetryStats
    <2>1. /\ st.attempts = Attempted.attempts /\ st.successes = i
          /\ st.reasons = Attempted.reasons /\ st \in RetryStats
      BY <1>1, <1>2 DEF RetryStats
    <2> HIDE DEF st
    <2> QED BY <1>1, <1>2, <1>3, <2>1
  <1>5. /\ merged.attempts = final.attempts /\ merged.successes = final.successes
        /\ merged.reasons = final.reasons /\ merged.retries = final.retries + 1
    BY <1>4 DEF RetryStats
  <1> HIDE DEF merged
  <1>6. Failures(loopStats) \in Nat
    BY DEF RetryStats, Failures, Reasons
  <1>7. Balanced(merged)
    BY <1>4, <1>5, <1>6 DEF Balanced, Failures, LoopOpen
  <1> QED BY <1>4, <1>5, <1>7 DEF final, merged

LEMMA FailureBalance ==
  ASSUME loopStats \in RetryStats, Balanced(loopStats), LoopOpen, NEW r \in Reasons, NEW n \in Nat
  PROVE  LET final == [RecordReason(Attempted, r) EXCEPT !.exhausted = @ + 1]
             again == [RecordReason(Attempted, r) EXCEPT !.backoff = @ + n]
         IN  /\ Balanced(final) /\ final.successes = 0 /\ final.retries = 0
             /\ Balanced(again) /\ again.successes = 0 /\ again.retries = 0
  <1> DEFINE st == RecordReason(Attempted, r)
  <1>1. st \in RetryStats /\ Balanced(st) /\ st.successes = 0 /\ st.retries = 0
    BY AttemptFailed DEF LoopOpen
  <1> HIDE DEF st
  <1>2. LET d == [st EXCEPT !.exhausted = @ + 1]
        IN  /\ d.attempts = st.attempts /\ d.successes = st.successes
            /\ d.reasons = st.reasons /\ d.retries = st.retries
    BY <1>1 DEF RetryStats
  <1>3. LET d == [st EXCEPT !.backoff = @ + n]
        IN  /\ d.attempts = st.attempts /\ d.successes = st.successes
            /\ d.reasons = st.reasons /\ d.retries = st.retries
    BY <1>1 DEF RetryStats
  <1>4. LET final == [st EXCEPT !.exhausted = @ + 1]
            again == [st EXCEPT !.backoff = @ + n]
        IN  /\ Balanced(final) /\ final.successes = 0 /\ final.retries = 0
            /\ Balanced(again) /\ again.successes = 0 /\ again.retries = 0
    BY <1>1, <1>2, <1>3 DEF Balanced, Failures
  <1> QED BY <1>4 DEF st

LEMMA EmptyBalance ==
  /\ Balanced(NoStats) /\ NoStats.successes = 0 /\ NoStats.retries = 0
  /\ NoCounters.rows_written = 0 /\ NoCounters.retried_writes_retries = 0
  BY DEF Balanced, NoStats, NoCounters, Failures, Reasons

LEMMA BalanceInit == Init => AccountsBalance /\ LoopOpen
  BY EmptyBalance DEF Init, ResetTask, AccountsBalance, LoopOpen, Balanced

LEMMA BalanceStep ==
  ASSUME TypeOK, AccountsBalance, LoopOpen, [Next]_vars
  PROVE  AccountsBalance' /\ LoopOpen'
  <1>0. /\ stats \in RetryStats /\ loopStats \in RetryStats /\ counters \in Counters
        /\ attempt \in Nat /\ Balanced(stats) /\ Balanced(loopStats)
    BY BudgetType DEF TypeOK, AccountsBalance, Balanced
  <1>1. /\ stats.successes = counters.rows_written
        /\ stats.retries = counters.retried_writes_retries
        /\ stats.successes \in Nat /\ stats.retries \in Nat
    BY <1>0 DEF AccountsBalance, RetryStats
  <1>2. ASSUME Balanced(stats'), stats'.successes = counters'.rows_written,
               stats'.retries = counters'.retried_writes_retries,
               Balanced(loopStats'), loopStats'.successes = 0, loopStats'.retries = 0
        PROVE  AccountsBalance' /\ LoopOpen'
    BY <1>2 DEF AccountsBalance, LoopOpen, Balanced
  <1>3. ASSUME stats' = stats, loopStats' = loopStats \/ loopStats' = NoStats,
               counters'.rows_written = counters.rows_written,
               counters'.retried_writes_retries = counters.retried_writes_retries
        PROVE  AccountsBalance' /\ LoopOpen'
    BY <1>0, <1>1, <1>2, <1>3, EmptyBalance DEF LoopOpen
  <1>4. CASE TakeChunk
    <2>1. PICK last \in next..NRows :
             counters' = [counters EXCEPT
                  !.validation_rejects = @ + Cardinality((next..last) \cap Rejected),
                  !.dlq_emitted = @ + Cardinality((next..last) \cap Defects)]
      BY <1>4, TakeChunkFacts
    <2>2. (next..last) \cap Defects \subseteq Rows /\ (next..last) \cap Rejected \subseteq Rows
      BY SinkAssumption DEF Rows, Rejected
    <2>3. /\ Cardinality((next..last) \cap Defects) \in Nat
          /\ Cardinality((next..last) \cap Rejected) \in Nat
      BY <2>2, CountIsNat
    <2>4. /\ counters'.rows_written = counters.rows_written
          /\ counters'.retried_writes_retries = counters.retried_writes_retries
      BY <1>0, <2>1, <2>3, CountersKept
    <2> QED BY <1>3, <1>4, <2>4 DEF TakeChunk
  <1>5. CASE FastPath
    <2>1. PICK result \in [work -> {"ok"} \cup Reasons] :
             /\ stats' = [stats EXCEPT
                  !.attempts = @ + Cardinality(work),
                  !.successes = @ + Cardinality({s \in work : result[s] = "ok"}),
                  !.reasons = [r \in Reasons |->
                     @[r] + Cardinality({s \in work : result[s] = r})]]
             /\ counters' = [counters EXCEPT
                  !.rows_written = @ + Cardinality({s \in work : result[s] = "ok"})]
      BY <1>5 DEF FastPath
    <2> DEFINE n == Cardinality({s \in work : result[s] = "ok"})
    <2>2. IsFiniteSet(work) /\ n \in Nat
      <3>1. work \subseteq Statements /\ {s \in work : result[s] = "ok"} \subseteq Statements
        BY DEF TypeOK
      <3> QED BY <3>1, CountIsNat
    <2>3. Balanced(stats') /\ stats'.successes = stats.successes + n
          /\ stats'.retries = stats.retries
      <3> DEFINE N == [r \in Reasons |-> Cardinality({s \in work : result[s] = r})]
                 h == [r \in Reasons |->
                         stats.reasons[r] + Cardinality({s \in work : result[s] = r})]
      <3>1. N \in [Reasons -> Nat]
        <4>1. ASSUME NEW r \in Reasons PROVE Cardinality({s \in work : result[s] = r}) \in Nat
          <5>1. {s \in work : result[s] = r} \subseteq Statements
            BY DEF TypeOK
          <5> QED BY <5>1, CountIsNat
        <4> QED BY <4>1
      <3>2. \A r \in Reasons : h[r] = stats.reasons[r] + N[r]
        OBVIOUS
      <3>3. Cardinality(work) = n + N["transient"] + N["permanent"] + N["unclassified"]
        <4>1. Cardinality(work) = n + Cardinality({s \in work : result[s] = "transient"})
                                    + Cardinality({s \in work : result[s] = "permanent"})
                                    + Cardinality({s \in work : result[s] = "unclassified"})
          BY <2>2, FourClasses, Zenon
        <4>2. /\ N["transient"] = Cardinality({s \in work : result[s] = "transient"})
              /\ N["permanent"] = Cardinality({s \in work : result[s] = "permanent"})
              /\ N["unclassified"] = Cardinality({s \in work : result[s] = "unclassified"})
          BY DEF Reasons
        <4> HIDE DEF N
        <4> QED BY <4>1, <4>2
      <3>4. stats' = [stats EXCEPT !.attempts = stats.attempts + Cardinality(work),
                                  !.successes = stats.successes + n,
                                  !.reasons = h]
        BY <2>1
      <3> HIDE DEF N, h, n
      <3>5. /\ stats'.attempts = stats.attempts + Cardinality(work)
            /\ stats'.successes = stats.successes + n
            /\ stats'.reasons = h /\ stats'.retries = stats.retries
        BY <1>0, <3>4 DEF RetryStats
      <3>6. "transient" \in Reasons /\ "permanent" \in Reasons /\ "unclassified" \in Reasons
        BY DEF Reasons
      <3>7. /\ stats.attempts \in Nat /\ stats.successes \in Nat
            /\ \A r \in Reasons : stats.reasons[r] \in Nat /\ N[r] \in Nat
        BY <1>0, <3>1 DEF RetryStats
      <3> QED BY <1>0, <2>2, <3>2, <3>3, <3>5, <3>6, <3>7 DEF Balanced, Failures
    <2>4. /\ counters'.rows_written = counters.rows_written + n
          /\ counters'.retried_writes_retries = counters.retried_writes_retries
      BY <1>0, <2>1, <2>2, CountersKept
    <2>5. loopStats' = loopStats
      BY <1>5 DEF FastPath
    <2> QED BY <1>0, <1>1, <1>2, <2>3, <2>4, <2>5 DEF LoopOpen
  <1>6. ASSUME NEW s \in DOMAIN failed, RejectPermanent(s)
        PROVE  AccountsBalance' /\ LoopOpen'
    <2>1. /\ counters'.rows_written = counters.rows_written
          /\ counters'.retried_writes_retries = counters.retried_writes_retries
      BY <1>0, <1>6, CountersKept DEF RejectPermanent
    <2> QED BY <1>3, <1>6, <2>1 DEF RejectPermanent
  <1>7. ASSUME NEW s \in DOMAIN failed, EnterRetry(s)
        PROVE  AccountsBalance' /\ LoopOpen'
    BY <1>3, <1>7 DEF EnterRetry
  <1>8. ASSUME NEW final \in RetryStats, Balanced(final), LeaveLoop(final),
               counters'.rows_written = counters.rows_written + final.successes,
               counters'.retried_writes_retries
                 = counters.retried_writes_retries + final.retries
        PROVE  AccountsBalance' /\ LoopOpen'
    <2>1. Balanced(stats') /\ loopStats' = NoStats
      BY <1>0, <1>8, MergeBalance DEF LeaveLoop
    <2>2. /\ stats'.successes = stats.successes + final.successes
          /\ stats'.retries = stats.retries + final.retries
      BY <1>0, <1>8, MergeType DEF LeaveLoop
    <2> QED BY <1>1, <1>2, <1>8, <2>1, <2>2, EmptyBalance
  <1>9. CASE AttemptSucceeds
    <2> DEFINE final == [Attempted EXCEPT !.successes = @ + 1, !.retries = @ + attempt]
               merged == [final EXCEPT !.retries = @ + 1]
    <2>1. merged \in RetryStats /\ final.retries \in Nat
      BY <1>0, SuccessType DEF RetryStats
    <2>2. Balanced(merged) /\ merged.successes = 1 /\ merged.retries = final.retries + 1
      BY <1>0, SuccessBalance
    <2>3. LeaveLoop(merged)
          /\ counters' = [counters EXCEPT
                !.rows_written = @ + 1,
                !.retried_writes = @ + 1,
                !.retried_writes_retries = @ + final.retries + 1]
      BY <1>9 DEF AttemptSucceeds
    <2> HIDE DEF final, merged
    <2>4. /\ counters'.rows_written = counters.rows_written + 1
          /\ counters'.retried_writes_retries
                = counters.retried_writes_retries + final.retries + 1
      BY <1>0, <2>1, <2>3, CountersKept
    <2>5. counters.retried_writes_retries \in Nat
      BY <1>0 DEF Counters
    <2> QED BY <1>8, <2>1, <2>2, <2>3, <2>4, <2>5
  <1>10. ASSUME NEW cause \in Reasons, NEW n, GiveUp(cause, n)
         PROVE  AccountsBalance' /\ LoopOpen'
    <2> DEFINE final == [RecordReason(Attempted, cause) EXCEPT !.exhausted = @ + 1]
    <2>1. final \in RetryStats
      BY <1>0, FailureType
    <2>2. Balanced(final) /\ final.successes = 0 /\ final.retries = 0
      BY <1>0, FailureBalance
    <2>3. LeaveLoop(final) /\ counters' = [counters EXCEPT !.dlq_emitted = @ + 1]
      BY <1>10 DEF GiveUp
    <2> HIDE DEF final
    <2>4. /\ counters'.rows_written = counters.rows_written
          /\ counters'.retried_writes_retries = counters.retried_writes_retries
      BY <1>0, <2>3, CountersKept
    <2>5. counters.retried_writes_retries \in Nat /\ counters.rows_written \in Nat
      BY <1>0 DEF Counters
    <2> QED BY <1>8, <2>1, <2>2, <2>3, <2>4, <2>5
  <1>11. CASE AttemptRejected
    BY <1>10, <1>11 DEF AttemptRejected, Reasons
  <1>12. CASE AttemptTimesOut
    <2>1. CASE attempt = Budget - 1
      BY <1>10, <1>12, <2>1 DEF AttemptTimesOut, Reasons
    <2>2. CASE attempt # Budget - 1
      <3>1. /\ loopStats' = [RecordReason(Attempted, "transient") EXCEPT
                               !.backoff = @ + DelayMs(Schedule, attempt)]
            /\ stats' = stats /\ counters' = counters
        BY <1>12, <2>2 DEF AttemptTimesOut
      <3>2. DelayMs(Schedule, attempt) \in Nat /\ "transient" \in Reasons
        BY <1>0, DelayType DEF Reasons
      <3>3. Balanced(loopStats') /\ loopStats'.successes = 0 /\ loopStats'.retries = 0
        BY <1>0, <3>1, <3>2, FailureBalance
      <3> QED BY <1>0, <1>1, <1>2, <3>1, <3>3
    <2> QED BY <2>1, <2>2
  <1>13. CASE EndChunk \/ Finish \/ TaskFails \/ UNCHANGED vars
    BY <1>3, <1>13 DEF EndChunk, Finish, TaskFails, vars, task
  <1>14. CASE RunAgain
    BY <1>2, <1>14, EmptyBalance DEF RunAgain
  <1> QED
    BY <1>4, <1>5, <1>6, <1>7, <1>9, <1>11, <1>12, <1>13, <1>14 DEF Next, Step

(* The accounting of a partition balances at every step, for any budget,   *)
(* schedule, errors and task failures: attempts are successes plus recorded*)
(* failures, and successes are written rows.                               *)
THEOREM SinkBalances == Spec => []AccountsBalance
  <1>1. TypeOK /\ AccountsBalance /\ LoopOpen /\ [Next]_vars => AccountsBalance' /\ LoopOpen'
    BY BalanceStep
  <1> QED BY <1>1, BalanceInit, SinkTypeCorrect, PTL DEF Spec

-----------------------------------------------------------------------------
(* A dead letter that claims retries counts the executions there were. *)
LettersHonest ==
  \A l \in letters :
    l.retry_count > 0 => l.retry_count = tries[<<l.row, l.table>>]

LEMMA TriesInit == Init => TriesKnown /\ LettersHonest
  BY DEF Init, ResetTask, NoFailures, TriesKnown, LettersHonest

(* An execution of the statement in the loop. *)
LEMMA LoopTry ==
  ASSUME TypeOK, PhaseFits, TriesKnown, pc = "loop", CountTry
  PROVE  /\ current \in Statements /\ current \in DOMAIN failed /\ current[1] < next
         /\ <<current[1], current[2]>> = current
         /\ tries'[current] = attempt + 2
         /\ \A s \in Statements : s # current => tries'[s] = tries[s]
         /\ \A l \in letters : l.retry_count > 0 =>
              <<l.row, l.table>> \in Statements /\ <<l.row, l.table>> # current
  <1>1. current \in Statements /\ current \in DOMAIN failed /\ current[1] < next
    BY DEF TypeOK, PhaseFits, Open
  <1>2. tries[current] = attempt + 1
    BY <1>1 DEF TriesKnown
  <1>3. attempt \in Nat /\ tries \in [Statements -> Nat]
    BY BudgetType DEF TypeOK
  <1>4. <<current[1], current[2]>> = current
    BY <1>1 DEF Statements
  <1> QED BY <1>1, <1>2, <1>3, <1>4 DEF CountTry, TriesKnown, Open

(* The statement leaves the loop, with or without a dead letter. *)
LEMMA LoopLeft ==
  ASSUME TypeOK, PhaseFits, TriesKnown, LettersHonest, pc = "loop", CountTry,
         UNCHANGED <<next, work>>, NEW final, LeaveLoop(final),
         \A l \in letters' : l \in letters \/
            (l.row = current[1] /\ l.table = current[2] /\ l.retry_count = attempt + 2)
  PROVE  TriesKnown' /\ LettersHonest'
  <1>1. /\ current \in Statements /\ current \in DOMAIN failed /\ current[1] < next
        /\ <<current[1], current[2]>> = current
        /\ tries'[current] = attempt + 2
        /\ \A s \in Statements : s # current => tries'[s] = tries[s]
        /\ \A l \in letters : l.retry_count > 0 =>
             <<l.row, l.table>> \in Statements /\ <<l.row, l.table>> # current
    BY LoopTry
  <1>2. /\ DOMAIN failed' = DOMAIN failed \ {current} /\ pc' = "retry"
        /\ work = {} /\ work' = {} /\ next' = next /\ next \in Int
    BY DEF LeaveLoop, Settle, PhaseFits, TypeOK
  <1>3. ASSUME NEW s \in Statements
        PROVE  /\ s \in work' \/ s[1] >= next' => tries'[s] = 0
               /\ s \in DOMAIN failed' => tries'[s] = 1
    <2>1. CASE s = current
      <3>1. s[1] \in Int /\ s \notin DOMAIN failed'
        BY <1>2, <2>1, SinkAssumption DEF Statements, Rows
      <3> QED BY <1>1, <1>2, <2>1, <3>1
    <2>2. CASE s # current
      BY <1>1, <1>2, <2>2 DEF TriesKnown
    <2> QED BY <2>1, <2>2
  <1>4. ASSUME NEW l \in letters', l.retry_count > 0
        PROVE  /\ <<l.row, l.table>> \in Statements \ Open' /\ l.row < next'
               /\ l.retry_count = tries'[<<l.row, l.table>>]
    <2>1. CASE l \in letters
      BY <1>1, <1>2, <1>4, <2>1 DEF TriesKnown, LettersHonest, Open
    <2>2. CASE l \notin letters
      BY <1>1, <1>2, <2>2 DEF Open
    <2> QED BY <2>1, <2>2
  <1> QED BY <1>2, <1>3, <1>4 DEF TriesKnown, LettersHonest

(* A step that executes nothing and opens nothing. *)
LEMMA TriesKept ==
  ASSUME TypeOK, TriesKnown, LettersHonest, tries' = tries, next' = next, pc # "lost", pc # "loop",
         pc' # "loop", work' = work, DOMAIN failed' \subseteq DOMAIN failed,
         \A l \in letters' : l \in letters \/ l.retry_count = 0
  PROVE  TriesKnown' /\ LettersHonest'
  BY DEF TriesKnown, LettersHonest, Open

LEMMA TriesStep ==
  ASSUME TypeOK, PhaseFits, TriesKnown, LettersHonest, [Next]_vars
  PROVE  TriesKnown' /\ LettersHonest'
  <1>1. CASE TakeChunk
    <2>1. PICK last \in next..NRows :
             /\ next' = last + 1
             /\ work' = ((next..last) \ Defects) \X Tables
             /\ letters' = letters \cup {Letter(r, "none", "parse", 0, "defect", 0) :
                                            r \in (next..last) \cap Defects}
      BY <1>1, TakeChunkFacts
    <2>2. /\ pc = "chunk" /\ pc' \in {"chunk", "fast"} /\ tries' = tries
          /\ failed' = failed /\ DOMAIN failed = {}
      BY <1>1 DEF TakeChunk, PhaseFits
    <2>3. \A s \in work' : s[1] >= next
      BY <2>1
    <2>4. \A l \in letters' : l \in letters \/ l.retry_count = 0
      BY <2>1 DEF Letter
    <2>5. next \in Int /\ next' \in Int /\ next' > next
      BY <2>1, SinkAssumption DEF TypeOK
    <2>6. ASSUME NEW s \in Statements, s \in work' \/ s[1] >= next' PROVE tries'[s] = 0
      <3>1. s[1] \in Int
        BY SinkAssumption DEF Statements, Rows
      <3> QED BY <2>2, <2>3, <2>5, <2>6, <3>1 DEF TriesKnown
    <2>7. ASSUME NEW l \in letters', l.retry_count > 0
          PROVE  /\ <<l.row, l.table>> \in Statements \ Open' /\ l.row < next'
                 /\ l.retry_count = tries'[<<l.row, l.table>>]
      <3>1. l \in letters
        BY <2>4, <2>7
      <3>2. <<l.row, l.table>> \in Statements /\ l.row < next
            /\ l.retry_count = tries[<<l.row, l.table>>]
        BY <2>7, <3>1 DEF TriesKnown, LettersHonest
      <3>3. l.row \in Int
        BY <3>2, SinkAssumption DEF Statements, Rows
      <3>4. <<l.row, l.table>> \notin work'
        BY <2>1, <2>5, <3>2, <3>3
      <3> QED BY <2>2, <2>5, <3>2, <3>3, <3>4 DEF Open
    <2> QED BY <2>2, <2>6, <2>7 DEF TriesKnown, LettersHonest
  <1>2. CASE FastPath
    <2>1. /\ pc = "fast" /\ pc' = "retry" /\ next' = next /\ letters' = letters
          /\ work' = {} /\ DOMAIN failed' \subseteq work
          /\ tries' = [s \in Statements |-> tries[s] + IF s \in work THEN 1 ELSE 0]
      BY <1>2 DEF FastPath
    <2>2. \A s \in Statements : tries[s] \in Nat
      BY DEF TypeOK
    <2>3. ASSUME NEW s \in Statements
          PROVE  /\ s[1] >= next => tries'[s] = 0
                 /\ s \in DOMAIN failed' => tries'[s] = 1
      <3>1. s \in work => s[1] < next /\ tries[s] = 0
        BY <2>1 DEF PhaseFits, Open, TriesKnown
      <3>2. s[1] \in Int /\ next \in Int
        BY SinkAssumption DEF Statements, Rows, TypeOK
      <3>3. s[1] >= next => tries[s] = 0
        BY <2>1 DEF TriesKnown
      <3> QED BY <2>1, <2>2, <3>1, <3>2, <3>3
    <2>4. ASSUME NEW l \in letters', l.retry_count > 0
          PROVE  /\ <<l.row, l.table>> \in Statements \ Open' /\ l.row < next'
                 /\ l.retry_count = tries'[<<l.row, l.table>>]
      <3>1. /\ <<l.row, l.table>> \in Statements \ Open /\ l.row < next
            /\ l.retry_count = tries[<<l.row, l.table>>]
        BY <2>1, <2>4 DEF TriesKnown, LettersHonest
      <3> QED BY <2>1, <2>2, <3>1 DEF Open
    <2> QED BY <2>1, <2>3, <2>4 DEF TriesKnown, LettersHonest
  <1>3. ASSUME NEW s \in DOMAIN failed, RejectPermanent(s) PROVE TriesKnown' /\ LettersHonest'
    <2>1. DOMAIN failed' \subseteq DOMAIN failed
      BY <1>3 DEF RejectPermanent, Settle
    <2>2. \A l \in letters' : l \in letters \/ l.retry_count = 0
      BY <1>3 DEF RejectPermanent, Letter
    <2> QED BY <1>3, <2>1, <2>2, TriesKept DEF RejectPermanent
  <1>4. ASSUME NEW s \in DOMAIN failed, EnterRetry(s) PROVE TriesKnown' /\ LettersHonest'
    BY <1>4 DEF EnterRetry, TriesKnown, LettersHonest, Open
  <1>5. CASE AttemptSucceeds
    <2>1. PICK final : LeaveLoop(final)
      BY <1>5 DEF AttemptSucceeds
    <2> QED BY <1>5, <2>1, LoopLeft DEF AttemptSucceeds
  <1>6. ASSUME pc = "loop", CountTry, UNCHANGED <<next, work>>, NEW cause,
               GiveUp(cause, attempt + 1)
        PROVE  TriesKnown' /\ LettersHonest'
    <2>1. PICK final : LeaveLoop(final)
      BY <1>6 DEF GiveUp
    <2>2. attempt + 1 + 1 = attempt + 2
      BY BudgetType DEF TypeOK
    <2>3. \A l \in letters' : l \in letters \/
            (l.row = current[1] /\ l.table = current[2] /\ l.retry_count = attempt + 2)
      BY <1>6, <2>2 DEF GiveUp, Letter
    <2> QED BY <1>6, <2>1, <2>3, LoopLeft
  <1>7. CASE AttemptRejected
    BY <1>6, <1>7 DEF AttemptRejected
  <1>8. CASE AttemptTimesOut
    <2>1. CASE attempt = Budget - 1
      <3>1. Budget = attempt + 1
        BY <2>1, BudgetType
      <3>2. GiveUp("transient", attempt + 1)
        BY <1>8, <2>1, <3>1 DEF AttemptTimesOut
      <3> QED BY <1>6, <1>8, <3>2 DEF AttemptTimesOut
    <2>2. CASE attempt # Budget - 1
      <3>1. /\ pc = "loop" /\ CountTry /\ attempt' = attempt + 1
            /\ UNCHANGED <<pc, failed, current, letters, next, work>>
        BY <1>8, <2>2 DEF AttemptTimesOut
      <3>2. /\ current \in Statements /\ current \in DOMAIN failed /\ current[1] < next
            /\ tries'[current] = attempt + 2
            /\ \A s \in Statements : s # current => tries'[s] = tries[s]
            /\ \A l \in letters : l.retry_count > 0 =>
                 <<l.row, l.table>> \in Statements /\ <<l.row, l.table>> # current
        BY <3>1, LoopTry
      <3>3. attempt + 2 = attempt' + 1 /\ work = {} /\ next \in Int /\ current[1] \in Int
        BY <3>1, <3>2, BudgetType, SinkAssumption DEF TypeOK, PhaseFits, Statements, Rows
      <3>4. ASSUME NEW s \in Statements
            PROVE  /\ s \in work' \/ s[1] >= next' => tries'[s] = 0
                   /\ s \in DOMAIN failed' =>
                        tries'[s] = IF pc' = "loop" /\ s = current' THEN attempt' + 1 ELSE 1
        BY <3>1, <3>2, <3>3 DEF TriesKnown
      <3>5. ASSUME NEW l \in letters', l.retry_count > 0
            PROVE  /\ <<l.row, l.table>> \in Statements \ Open' /\ l.row < next'
                   /\ l.retry_count = tries'[<<l.row, l.table>>]
        BY <3>1, <3>2, <3>5 DEF TriesKnown, LettersHonest, Open
      <3> QED BY <3>4, <3>5 DEF TriesKnown, LettersHonest
    <2> QED BY <2>1, <2>2
  <1>9. CASE EndChunk \/ Finish
    BY <1>9, TriesKept DEF EndChunk, Finish, task
  <1>10. CASE RunAgain
    BY <1>10 DEF RunAgain, NoFailures, TriesKnown, LettersHonest
  <1>11. CASE TaskFails
    BY <1>11 DEF TaskFails, task, TriesKnown, LettersHonest, Open
  <1>12. CASE UNCHANGED vars
    BY <1>12 DEF vars, task, TriesKnown, LettersHonest, Open
  <1> QED
    BY <1>1, <1>2, <1>3, <1>4, <1>5, <1>7, <1>8, <1>9, <1>10, <1>11, <1>12
       DEF Next, Step

(* With a budget of at least two no execution goes beyond it. *)
LEMMA TriesBounded ==
  ASSUME MaxAttempts >= 2, TypeOK, PhaseFits, TriesKnown,
         \A s \in Statements : tries[s] <= MaxAttempts, [Next]_vars
  PROVE  \A s \in Statements : tries'[s] <= MaxAttempts
  <1> SUFFICES ASSUME NEW s \in Statements PROVE tries'[s] <= MaxAttempts
    OBVIOUS
  <1>1. MaxAttempts \in Nat /\ tries[s] \in Nat /\ tries[s] <= MaxAttempts
    BY SinkAssumption DEF TypeOK
  <1>2. CASE FastPath
    <2>1. pc = "fast" /\ tries'[s] = tries[s] + IF s \in work THEN 1 ELSE 0
      BY <1>2 DEF FastPath
    <2>2. s \in work => tries[s] = 0
      BY <2>1 DEF TriesKnown
    <2> QED BY <1>1, <2>1, <2>2
  <1>3. CASE pc = "loop" /\ CountTry
    <2>1. tries'[current] = attempt + 2 /\ (s # current => tries'[s] = tries[s])
      BY <1>3, LoopTry
    <2>2. attempt \in 0..(MaxAttempts - 2)
      BY <1>1, BudgetType DEF TypeOK
    <2> QED BY <1>1, <2>1, <2>2
  <1>4. CASE tries' = tries
    BY <1>1, <1>4
  <1>5. CASE RunAgain
    BY <1>1, <1>5 DEF RunAgain
  <1>6. \/ FastPath \/ RunAgain
        \/ pc = "loop" /\ CountTry
        \/ tries' = tries
    BY DEF Next, Step, vars, task, TakeChunk, RejectPermanent, EnterRetry,
       AttemptSucceeds, AttemptRejected, AttemptTimesOut, EndChunk, Finish, TaskFails
  <1> QED BY <1>2, <1>3, <1>4, <1>5, <1>6

-----------------------------------------------------------------------------
(* Every statement is counted once. *)

LEMMA CountsInit == Init => CountsKnown
  <1> SUFFICES ASSUME Init PROVE CountsKnown
    OBVIOUS
  <1>1. /\ letters = {} /\ Open = {} /\ next = 1
        /\ counters.rows_written = 0 /\ counters.validation_rejects = 0
        /\ counters.dlq_emitted = 0
    BY DEF Init, ResetTask, NoFailures, NoCounters, Open
  <1>2. Taken = {}
    BY <1>1, SinkAssumption DEF Taken, Statements, Rows
  <1>3. SinkLetters = {} /\ Rejected \cap 1..(next - 1) = {}
    BY <1>1 DEF SinkLetters
  <1> QED BY <1>1, <1>2, <1>3, FS_EmptySet DEF CountsKnown

(* The sets that the counters count are finite. *)
LEMMA CountedFinite ==
  ASSUME TypeOK, IsFiniteSet(letters)
  PROVE  /\ IsFiniteSet(Open) /\ Cardinality(Open) \in Nat
         /\ IsFiniteSet(Taken) /\ Cardinality(Taken) \in Nat
         /\ IsFiniteSet(SinkLetters) /\ Cardinality(SinkLetters) \in Nat
         /\ Cardinality(letters) \in Nat
         /\ IsFiniteSet(Rejected \cap 1..(next - 1))
         /\ Cardinality(Rejected \cap 1..(next - 1)) \in Nat
  <1>1. Open \subseteq Statements /\ Taken \subseteq Statements
    BY DEF TypeOK, Open, Taken
  <1>2. SinkLetters \subseteq letters
    BY DEF SinkLetters
  <1>3. Rejected \cap 1..(next - 1) \subseteq Rows
    BY SinkAssumption DEF Rows, Rejected
  <1>4. IsFiniteSet(SinkLetters) /\ Cardinality(SinkLetters) \in Nat
    BY <1>2, FS_Subset, FS_CardinalityType
  <1>5. IsFiniteSet(Open) /\ Cardinality(Open) \in Nat
        /\ IsFiniteSet(Taken) /\ Cardinality(Taken) \in Nat
    BY <1>1, CountIsNat
  <1>6. IsFiniteSet(Rejected \cap 1..(next - 1))
         /\ Cardinality(Rejected \cap 1..(next - 1)) \in Nat
    BY <1>3, CountIsNat
  <1> QED BY <1>4, <1>5, <1>6, FS_CardinalityType

(* A statement leaves the open ones for the tables. *)
LEMMA CountedWritten ==
  ASSUME TypeOK, CountsKnown, NEW s \in Open, Open' = Open \ {s},
         next' = next, letters' = letters,
         counters'.rows_written = counters.rows_written + 1,
         counters'.validation_rejects = counters.validation_rejects,
         counters'.dlq_emitted = counters.dlq_emitted
  PROVE  CountsKnown'
  <1>1. /\ IsFiniteSet(Open) /\ Cardinality(Open) \in Nat /\ IsFiniteSet(letters)
        /\ Cardinality(Taken) \in Nat /\ Cardinality(SinkLetters) \in Nat
        /\ counters.rows_written \in Nat
    BY CountedFinite DEF CountsKnown, TypeOK, Counters
  <1>2. Cardinality(Open') = Cardinality(Open) - 1
    BY <1>1, FS_RemoveElement
  <1>3. SinkLetters' = SinkLetters /\ Taken' = Taken
    BY DEF SinkLetters, Taken
  <1>4. counters'.rows_written + Cardinality(SinkLetters') + Cardinality(Open') = Cardinality(Taken')
    BY <1>1, <1>2, <1>3 DEF CountsKnown
  <1>5. \A l \in letters' :
          /\ l.row \in 1..(next' - 1)
          /\ l \in SinkLetters' => <<l.row, l.table>> \in Statements \ Open'
    BY <1>3 DEF CountsKnown
  <1> QED BY <1>1, <1>4, <1>5 DEF CountsKnown

(* A statement leaves the open ones with a dead letter. *)
LEMMA CountedLettered ==
  ASSUME TypeOK, PhaseFits, CountsKnown, NEW s \in Open, Open' = Open \ {s},
         next' = next, NEW count, NEW cause, NEW slept,
         letters' = letters \cup {Letter(s[1], s[2], "cassandra_sink", count, cause, slept)},
         counters'.rows_written = counters.rows_written,
         counters'.validation_rejects = counters.validation_rejects,
         counters'.dlq_emitted = counters.dlq_emitted + 1
  PROVE  CountsKnown'
  <1> DEFINE new == Letter(s[1], s[2], "cassandra_sink", count, cause, slept)
  <1>1. /\ IsFiniteSet(Open) /\ Cardinality(Open) \in Nat
        /\ IsFiniteSet(letters) /\ Cardinality(letters) \in Nat
        /\ Cardinality(Taken) \in Nat
        /\ IsFiniteSet(SinkLetters) /\ Cardinality(SinkLetters) \in Nat
        /\ counters.rows_written \in Nat
    BY CountedFinite DEF CountsKnown, TypeOK, Counters
  <1>2. new.row = s[1] /\ new.table = s[2] /\ new.stage = "cassandra_sink"
    BY DEF Letter
  <1>3. s \in Statements /\ s[1] \in 1..(next - 1) /\ <<s[1], s[2]>> = s
    BY SinkAssumption DEF Open, TypeOK, PhaseFits, Statements, Rows
  <1> HIDE DEF new
  <1>4. letters' = letters \cup {new} /\ SinkLetters' = SinkLetters \cup {new}
    BY <1>2 DEF SinkLetters, new
  <1>5. new \notin letters /\ new \notin SinkLetters
    BY <1>2, <1>3 DEF CountsKnown, SinkLetters
  <1>6. /\ Cardinality(Open') = Cardinality(Open) - 1
        /\ IsFiniteSet(letters') /\ Cardinality(letters') = Cardinality(letters) + 1
        /\ Cardinality(SinkLetters') = Cardinality(SinkLetters) + 1
    <2>1. Cardinality(Open') = Cardinality(Open) - 1
      BY <1>1, FS_RemoveElement
    <2>2. IsFiniteSet(letters') /\ Cardinality(letters') = Cardinality(letters) + 1
      BY <1>1, <1>4, <1>5, FS_AddElement
    <2>3. Cardinality(SinkLetters') = Cardinality(SinkLetters) + 1
      BY <1>1, <1>4, <1>5, FS_AddElement
    <2> QED BY <2>1, <2>2, <2>3
  <1>7. Taken' = Taken
    BY DEF Taken
  <1>8. counters'.rows_written + Cardinality(SinkLetters') + Cardinality(Open') = Cardinality(Taken')
    BY <1>1, <1>6, <1>7 DEF CountsKnown
  <1>9. \A l \in letters' :
          /\ l.row \in 1..(next' - 1)
          /\ l \in SinkLetters' => <<l.row, l.table>> \in Statements \ Open'
    <2> SUFFICES ASSUME NEW l \in letters'
                 PROVE  /\ l.row \in 1..(next' - 1)
                        /\ l \in SinkLetters' => <<l.row, l.table>> \in Statements \ Open'
      OBVIOUS
    <2>1. CASE l = new
      BY <1>2, <1>3, <2>1
    <2>2. CASE l # new
      BY <1>4, <2>2 DEF CountsKnown
    <2> QED BY <2>1, <2>2
  <1> QED BY <1>6, <1>8, <1>9 DEF CountsKnown

(* A step that changes nothing that is counted. *)
LEMMA CountedKept ==
  ASSUME CountsKnown, UNCHANGED <<letters, counters, next>>, Open' = Open
  PROVE  CountsKnown'
  BY DEF CountsKnown, SinkLetters, Taken

(* The dead letters of the rejected rows of a chunk are as many as these.  *)
LEMMA RejectsCounted ==
  ASSUME NEW S, IsFiniteSet(S)
  PROVE  LET T == {Letter(r, "none", "parse", 0, "defect", 0) : r \in S}
         IN  IsFiniteSet(T) /\ Cardinality(T) = Cardinality(S)
  <1> DEFINE T == {Letter(r, "none", "parse", 0, "defect", 0) : r \in S}
             f == [r \in S |-> Letter(r, "none", "parse", 0, "defect", 0)]
  <1>1. \A r \in S : f[r] \in T /\ f[r].row = r
    BY DEF Letter
  <1>2. \A t \in T : \E r \in S : f[r] = t
    OBVIOUS
  <1>3. f \in [S -> T]
    OBVIOUS
  <1> HIDE DEF f, T
  <1>4. f \in Bijection(S, T)
    BY <1>1, <1>2, <1>3 DEF Bijection, Injection, Surjection, IsInjective
  <1> QED BY <1>4, FS_Bijection DEF ExistsBijection, T

LEMMA CountsStep ==
  ASSUME TypeOK, PhaseFits, CountsKnown, [Next]_vars
  PROVE  CountsKnown'
  <1>0. counters \in Counters /\ IsFiniteSet(letters)
    BY DEF TypeOK, CountsKnown
  <1>1. CASE TakeChunk
    <2>1. PICK last \in next..NRows :
           /\ next' = last + 1
           /\ work' = ((next..last) \ Defects) \X Tables
           /\ letters' = letters \cup {Letter(r, "none", "parse", 0, "defect", 0) :
                                          r \in (next..last) \cap Defects}
           /\ counters' = [counters EXCEPT
                !.validation_rejects = @ + Cardinality((next..last) \cap Rejected),
                !.dlq_emitted = @ + Cardinality((next..last) \cap Defects)]
      BY <1>1, TakeChunkFacts
    <2> DEFINE bad == (next..last) \cap Defects
               rej == (next..last) \cap Rejected
               before == Rejected \cap 1..(next - 1)
               new == {Letter(r, "none", "parse", 0, "defect", 0) : r \in bad}
    <2>2. next \in Int /\ last \in Int /\ next >= 1 /\ last >= next /\ last <= NRows
      BY <2>1, SinkAssumption DEF TypeOK
    <2>3. Open = {} /\ Open' = work'
      BY <1>1 DEF TakeChunk, PhaseFits, Open
    <2>4. IsFiniteSet(bad) /\ Cardinality(bad) \in Nat
          /\ IsFiniteSet(rej) /\ Cardinality(rej) \in Nat
          /\ IsFiniteSet(before) /\ Cardinality(before) \in Nat
      <3>1. bad \subseteq Rows /\ rej \subseteq Rows /\ before \subseteq Rows
        BY SinkAssumption DEF Rows, Rejected
      <3> QED BY <3>1, CountIsNat
    <2>5. Cardinality((Rejected \cap 1..(next - 1))') = Cardinality(before) + Cardinality(rej)
      <3>0. Rejected' = Rejected
        BY DEF Rejected
      <3>1. (Rejected \cap 1..(next - 1))' = before \cup rej /\ before \cap rej = {}
        BY <2>1, <2>2, <3>0
      <3> HIDE DEF before, rej
      <3> QED BY <2>4, <3>1, DisjointUnion
    <2>6. IsFiniteSet(new) /\ Cardinality(new) = Cardinality(bad)
      <3> HIDE DEF bad
      <3> QED BY <2>4, RejectsCounted
    <2>7. \A l \in new : l.row \in next..last /\ l.stage = "parse"
      BY DEF Letter
    <2>8. letters \cap new = {} /\ letters' = letters \cup new
      <3>1. \A l \in letters : l.row \notin next..last
        <4>1. \A l \in letters : l.row \in 1..(next - 1)
          BY DEF CountsKnown
        <4> QED BY <2>2, <4>1
      <3> QED BY <2>1, <2>7, <3>1
    <2>9. SinkLetters' = SinkLetters
      BY <2>7, <2>8 DEF SinkLetters
    <2>10. IsFiniteSet(letters') /\ Cardinality(letters') = Cardinality(letters) + Cardinality(bad)
      <3> HIDE DEF new
      <3> QED BY <1>0, <2>6, <2>8, DisjointUnion
    <2>11. /\ counters'.rows_written = counters.rows_written
           /\ counters'.validation_rejects = counters.validation_rejects + Cardinality(rej)
           /\ counters'.dlq_emitted = counters.dlq_emitted + Cardinality(bad)
      BY <1>0, <2>1 DEF Counters
    <2>12. Cardinality(Taken') = Cardinality(Taken) + Cardinality(Open')
      <3>1. Open' \subseteq Statements /\ Taken \subseteq Statements
        BY <2>1, <2>2, <2>3, SinkAssumption DEF Statements, Rows, Taken
      <3>2. \A s \in Statements : s[1] \in Int /\ s[1] >= 1
        BY SinkAssumption DEF Statements, Rows
      <3>3. \A s \in Statements : s \in Open' <=> s[1] \in next..last
        BY <2>1, <2>3 DEF Statements
      <3>4. Taken' = Taken \cup Open' /\ Taken \cap Open' = {}
        BY <2>1, <2>2, <3>1, <3>2, <3>3 DEF Taken
      <3>5. IsFiniteSet(Taken) /\ IsFiniteSet(Open')
        BY <3>1, CountIsNat
      <3> QED BY <3>4, <3>5, DisjointUnion
    <2>13. counters'.rows_written + Cardinality(SinkLetters') + Cardinality(Open') = Cardinality(Taken')
      <3>1. /\ Cardinality(Taken) \in Nat /\ Cardinality(SinkLetters) \in Nat
            /\ counters.rows_written \in Nat /\ Cardinality(Open) = 0
        BY <1>0, <2>3, CountedFinite, FS_EmptySet DEF Counters
      <3>2. counters.rows_written + Cardinality(SinkLetters) = Cardinality(Taken)
        BY <3>1 DEF CountsKnown
      <3> QED BY <2>9, <2>11, <2>12, <3>1, <3>2
    <2>14. \A l \in letters' :
             /\ l.row \in 1..(next' - 1)
             /\ l \in SinkLetters' => <<l.row, l.table>> \in Statements \ Open'
      <3> SUFFICES ASSUME NEW l \in letters'
                   PROVE  /\ l.row \in 1..(next' - 1)
                          /\ l \in SinkLetters' => <<l.row, l.table>> \in Statements \ Open'
        OBVIOUS
      <3>1. CASE l \in new
        BY <2>1, <2>2, <2>7, <2>9, <3>1 DEF SinkLetters
      <3>2. CASE l \in letters
        <4>1. l.row \in 1..(next - 1) /\ (l \in SinkLetters => <<l.row, l.table>> \in Statements)
          BY <3>2 DEF CountsKnown
        <4>2. <<l.row, l.table>> \notin Open'
          BY <2>1, <2>2, <2>3, <4>1
        <4> QED BY <2>1, <2>2, <2>9, <4>1, <4>2
      <3> QED BY <2>8, <3>1, <3>2
    <2> QED BY <2>5, <2>10, <2>11, <2>13, <2>14 DEF CountsKnown
  <1>2. CASE FastPath
    <2>1. PICK result \in [work -> {"ok"} \cup Reasons] :
             /\ failed' = [s \in work \ {w \in work : result[w] = "ok"} |-> result[s]]
             /\ counters' = [counters EXCEPT
                  !.rows_written = @ + Cardinality({s \in work : result[s] = "ok"})]
      BY <1>2 DEF FastPath
    <2> DEFINE good == {s \in work : result[s] = "ok"}
    <2>2. /\ next' = next /\ letters' = letters /\ work' = {} /\ DOMAIN failed = {}
      BY <1>2 DEF FastPath, PhaseFits
    <2>3. Open = work /\ Open' = work \ good
      BY <2>1, <2>2 DEF Open
    <2>4. IsFiniteSet(good) /\ IsFiniteSet(Open') /\ Cardinality(good) \in Nat
          /\ Cardinality(Open') \in Nat
      <3>1. good \subseteq Statements /\ Open' \subseteq Statements
        BY <2>3 DEF TypeOK
      <3> QED BY <3>1, CountIsNat
    <2>5. Cardinality(Open) = Cardinality(good) + Cardinality(Open')
      <3>1. Open = good \cup Open' /\ good \cap Open' = {}
        BY <2>3
      <3> HIDE DEF good
      <3> QED BY <2>4, <3>1, DisjointUnion
    <2>6. /\ counters'.rows_written = counters.rows_written + Cardinality(good)
          /\ counters'.validation_rejects = counters.validation_rejects
          /\ counters'.dlq_emitted = counters.dlq_emitted
      BY <1>0, <2>1 DEF Counters
    <2>7. SinkLetters' = SinkLetters /\ Taken' = Taken
      BY <2>2 DEF SinkLetters, Taken
    <2>8. counters'.rows_written + Cardinality(SinkLetters') + Cardinality(Open') = Cardinality(Taken')
      <3>1. counters.rows_written \in Nat /\ Cardinality(SinkLetters) \in Nat
        BY <1>0, CountedFinite DEF Counters
      <3> QED BY <2>4, <2>5, <2>6, <2>7, <3>1 DEF CountsKnown
    <2>9. \A l \in letters' :
            /\ l.row \in 1..(next' - 1)
            /\ l \in SinkLetters' => <<l.row, l.table>> \in Statements \ Open'
      BY <2>2, <2>3, <2>7 DEF CountsKnown
    <2> QED BY <1>0, <2>2, <2>6, <2>8, <2>9 DEF CountsKnown
  <1>3. ASSUME NEW s \in DOMAIN failed, RejectPermanent(s) PROVE CountsKnown'
    <2>1. s \in Open /\ Open' = Open \ {s} /\ next' = next
      BY <1>3 DEF RejectPermanent, Settle, PhaseFits, Open
    <2>2. letters' = letters \cup {Letter(s[1], s[2], "cassandra_sink", 0, "permanent", 0)}
      BY <1>3 DEF RejectPermanent
    <2>3. /\ counters'.rows_written = counters.rows_written
          /\ counters'.validation_rejects = counters.validation_rejects
          /\ counters'.dlq_emitted = counters.dlq_emitted + 1
      BY <1>0, <1>3 DEF RejectPermanent, Counters
    <2> QED BY <2>1, <2>2, <2>3, CountedLettered
  <1>4. ASSUME NEW s \in DOMAIN failed, EnterRetry(s) PROVE CountsKnown'
    <2>1. UNCHANGED <<letters, counters, next>> /\ Open' = Open
      BY <1>4 DEF EnterRetry, Open
    <2> QED BY <2>1, CountedKept
  <1>5. ASSUME pc = "loop", UNCHANGED <<next, work>>, NEW final, LeaveLoop(final)
        PROVE  current \in Open /\ Open' = Open \ {current}
    BY <1>5 DEF LeaveLoop, Settle, PhaseFits, Open
  <1>6. CASE AttemptSucceeds
    <2>1. current \in Open /\ Open' = Open \ {current}
      BY <1>5, <1>6 DEF AttemptSucceeds
    <2>2. next' = next /\ letters' = letters
      BY <1>6 DEF AttemptSucceeds
    <2>3. /\ counters'.rows_written = counters.rows_written + 1
          /\ counters'.validation_rejects = counters.validation_rejects
          /\ counters'.dlq_emitted = counters.dlq_emitted
      BY <1>0, <1>6 DEF AttemptSucceeds, Counters
    <2> QED BY <2>1, <2>2, <2>3, CountedWritten
  <1>7. ASSUME pc = "loop", UNCHANGED <<next, work>>, NEW cause, NEW n, GiveUp(cause, n)
        PROVE  CountsKnown'
    <2>1. current \in Open /\ Open' = Open \ {current}
      BY <1>5, <1>7 DEF GiveUp
    <2>2. letters' = letters \cup
             {Letter(current[1], current[2], "cassandra_sink", n + 1, cause, loopStats.backoff)}
      BY <1>7 DEF GiveUp
    <2>3. /\ counters'.rows_written = counters.rows_written
          /\ counters'.validation_rejects = counters.validation_rejects
          /\ counters'.dlq_emitted = counters.dlq_emitted + 1
      BY <1>0, <1>7 DEF GiveUp, Counters
    <2>4. next' = next
      BY <1>7
    <2> QED BY <2>1, <2>2, <2>3, <2>4, CountedLettered
  <1>8. CASE AttemptRejected
    BY <1>7, <1>8 DEF AttemptRejected
  <1>9. CASE AttemptTimesOut
    <2>1. CASE attempt = Budget - 1
      BY <1>7, <1>9, <2>1 DEF AttemptTimesOut
    <2>2. CASE attempt # Budget - 1
      <3>1. UNCHANGED <<letters, counters, next>> /\ Open' = Open
        BY <1>9, <2>2 DEF AttemptTimesOut, Open
      <3> QED BY <3>1, CountedKept
    <2> QED BY <2>1, <2>2
  <1>10. CASE EndChunk \/ Finish \/ TaskFails \/ UNCHANGED vars
    <2>1. UNCHANGED <<letters, counters, next>> /\ Open' = Open
      BY <1>10 DEF EndChunk, Finish, TaskFails, vars, task, Open
    <2> QED BY <2>1, CountedKept
  <1>11. CASE RunAgain
    <2>1. /\ letters' = {} /\ Open' = {} /\ next' = 1
          /\ counters'.rows_written = 0 /\ counters'.validation_rejects = 0
          /\ counters'.dlq_emitted = 0
      BY <1>11 DEF RunAgain, NoFailures, NoCounters, Open
    <2>2. Taken' = {}
      BY <2>1, SinkAssumption DEF Taken, Statements, Rows
    <2>3. SinkLetters' = {} /\ Rejected \cap 1..(next' - 1) = {}
      BY <2>1 DEF SinkLetters
    <2> QED BY <2>1, <2>2, <2>3, FS_EmptySet DEF CountsKnown
  <1> QED
    BY <1>1, <1>2, <1>3, <1>4, <1>6, <1>8, <1>9, <1>10, <1>11 DEF Next, Step

(* At the end nothing is open and every row is taken. *)
LEMMA CountsAtTheEnd ==
  ASSUME TypeOK, PhaseFits, CountsKnown
  PROVE  EveryStatementCountedOnce
  <1> SUFFICES ASSUME pc = "done" PROVE
                 /\ counters.rows_written + Cardinality(SinkLetters) = Cardinality(Statements)
                 /\ counters.validation_rejects = Cardinality(Rejected)
                 /\ counters.dlq_emitted = Cardinality(letters)
    BY DEF EveryStatementCountedOnce, SinkLetters
  <1>1. next = NRows + 1 /\ Open = {}
    BY SinkAssumption DEF PhaseFits, TypeOK, Open
  <1>2. Taken = Statements /\ Rejected \cap 1..(next - 1) = Rejected
    <2>1. \A s \in Statements : s[1] \in 1..NRows
      BY DEF Statements, Rows
    <2>2. NRows \in Nat /\ Rejected \subseteq 1..NRows /\ next - 1 = NRows
      BY <1>1, SinkAssumption DEF Rejected
    <2>3. Taken = Statements
      BY <1>1, <2>1, <2>2 DEF Taken
    <2> QED BY <2>2, <2>3
  <1>3. Cardinality(Open) = 0
    BY <1>1, FS_EmptySet
  <1>4. counters.rows_written \in Nat /\ Cardinality(SinkLetters) \in Nat
    BY CountedFinite DEF CountsKnown, TypeOK, Counters
  <1>5. /\ counters.rows_written + Cardinality(SinkLetters) + Cardinality(Open) = Cardinality(Taken)
        /\ counters.validation_rejects = Cardinality(Rejected \cap 1..(next - 1))
        /\ counters.dlq_emitted = Cardinality(letters)
    BY DEF CountsKnown
  <1>6. counters.validation_rejects = Cardinality(Rejected)
    BY <1>2, <1>5
  <1> QED BY <1>2, <1>3, <1>4, <1>5, <1>6

-----------------------------------------------------------------------------
(* The schedule is slept through. *)

(* A property of the natural numbers that some number lacks is lacked by a *)
(* smallest one.                                                           *)
LEMMA LeastElement ==
  ASSUME NEW M, M \subseteq Nat, M # {}
  PROVE  \E m \in M : \A k \in M : ~(k < m)
  <1>1. \E m \in M : \A k \in M : <<k, m>> \notin OpToRel(<, Nat)
    BY WFMin, NatLessThanWellFounded, Zenon
  <1> QED BY <1>1 DEF OpToRel

(* The wait that Waits adds before attempt n + 1. *)
WaitBefore(n) ==
  IF Schedule = <<>> THEN 0
  ELSE IF n <= Len(Schedule) THEN Schedule[n] ELSE Schedule[Len(Schedule)]

(* g sums the waits up to n. *)
SumsTo(n, g) ==
  /\ g \in [0..n -> Nat]
  /\ g[0] = 0
  /\ \A i \in 1..n : g[i] = g[i - 1] + WaitBefore(i)

LEMMA WaitIsDelay ==
  ASSUME NEW n \in Nat
  PROVE  WaitBefore(n + 1) = DelayMs(Schedule, n) /\ WaitBefore(n + 1) \in Nat
  <1>1. WaitBefore(n + 1) = DelayMs(Schedule, n)
    <2>1. Len(Schedule) \in Nat
      BY SinkAssumption
    <2> QED BY <2>1 DEF WaitBefore, DelayMs
  <1> QED BY <1>1, DelayType

LEMMA SumsExist == \A n \in Nat : \E g : SumsTo(n, g)
  <1> DEFINE M == {n \in Nat : ~\E g : SumsTo(n, g)}
  <1> SUFFICES ASSUME M # {} PROVE FALSE
    OBVIOUS
  <1>1. PICK m \in M : \A k \in M : ~(k < m)
    <2>1. M \subseteq Nat
      OBVIOUS
    <2> HIDE DEF M
    <2> QED BY <2>1, LeastElement
  <1>2. m # 0
    <2>1. SumsTo(0, [i \in 0..0 |-> 0])
      BY DEF SumsTo
    <2> QED BY <2>1
  <1>3. m - 1 \in Nat /\ m - 1 < m
    BY <1>2
  <1>4. PICK g : SumsTo(m - 1, g)
    BY <1>1, <1>3
  <1> DEFINE h == [i \in 0..m |-> IF i = m THEN g[m - 1] + WaitBefore(m) ELSE g[i]]
  <1>5. WaitBefore(m) \in Nat /\ g[m - 1] \in Nat
    <2>1. (m - 1) + 1 = m
      OBVIOUS
    <2>2. WaitBefore((m - 1) + 1) \in Nat
      BY <1>3, WaitIsDelay
    <2> QED BY <1>3, <1>4, <2>1, <2>2 DEF SumsTo
  <1>6. h \in [0..m -> Nat] /\ h[0] = 0
    BY <1>2, <1>4, <1>5 DEF SumsTo
  <1>7. ASSUME NEW i \in 1..m PROVE h[i] = h[i - 1] + WaitBefore(i)
    <2>1. CASE i = m
      BY <1>3, <2>1
    <2>2. CASE i # m
      <3>1. i \in 1..(m - 1) /\ i - 1 \in 0..m /\ i - 1 # m
        BY <2>2
      <3> QED BY <1>4, <2>2, <3>1 DEF SumsTo
    <2> QED BY <2>1, <2>2
  <1>8. SumsTo(m, h)
    BY <1>6, <1>7 DEF SumsTo
  <1> QED BY <1>8

LEMMA SumsAgree ==
  ASSUME NEW n \in Nat, NEW m \in Nat, NEW g, NEW h, SumsTo(n, g), SumsTo(m, h)
  PROVE  \A i \in Nat : i <= n /\ i <= m => g[i] = h[i]
  <1> DEFINE M == {i \in Nat : i <= n /\ i <= m /\ g[i] # h[i]}
  <1> SUFFICES ASSUME M # {} PROVE FALSE
    OBVIOUS
  <1>1. PICK i \in M : \A k \in M : ~(k < i)
    <2>1. M \subseteq Nat
      OBVIOUS
    <2> HIDE DEF M
    <2> QED BY <2>1, LeastElement
  <1>2. i # 0
    BY DEF SumsTo
  <1>3. i - 1 \in Nat /\ i - 1 < i /\ i - 1 \notin M
    BY <1>1, <1>2
  <1>4. g[i - 1] = h[i - 1]
    BY <1>3
  <1>5. i \in 1..n /\ i \in 1..m
    BY <1>2
  <1> QED BY <1>4, <1>5 DEF SumsTo

(* The equation that Waits is defined by, and a solution of it. *)
WaitsBody(W) ==
  [n \in Nat |-> IF n = 0 \/ Schedule = <<>> THEN 0
                 ELSE W[n - 1] + (IF n <= Len(Schedule) THEN Schedule[n]
                                  ELSE Schedule[Len(Schedule)])]

LEMMA WaitsSolvable == \E W : W = WaitsBody(W)
  <1>1. CASE Schedule = <<>>
    <2>1. [n \in Nat |-> 0] = WaitsBody([n \in Nat |-> 0])
      BY <1>1 DEF WaitsBody
    <2> QED BY <2>1
  <1>2. CASE Schedule # <<>>
    <2> DEFINE S(n) == CHOOSE g : SumsTo(n, g)
               f == [n \in Nat |-> S(n)[n]]
    <2>1. \A n \in Nat : SumsTo(n, S(n))
      BY SumsExist
    <2>2. f[0] = 0
      BY <2>1 DEF SumsTo
    <2>3. ASSUME NEW n \in Nat, n # 0 PROVE f[n] = f[n - 1] + WaitBefore(n)
      <3> DEFINE g == S(n - 1)
                 h == S(n)
      <3>1. n - 1 \in Nat /\ n - 1 <= n /\ n \in 1..n
        BY <2>3
      <3>2. f[n - 1] = g[n - 1] /\ f[n] = h[n]
        BY <3>1
      <3>3. SumsTo(n - 1, g) /\ SumsTo(n, h)
        BY <2>1, <3>1
      <3> HIDE DEF S, f, g, h
      <3>4. g[n - 1] = h[n - 1]
        BY <3>1, <3>3, SumsAgree
      <3>5. h[n] = h[n - 1] + WaitBefore(n)
        BY <3>1, <3>3 DEF SumsTo
      <3> QED BY <3>2, <3>4, <3>5
    <2>4. f = [n \in Nat |-> f[n]]
      OBVIOUS
    <2> HIDE DEF f
    <2>5. f = WaitsBody(f)
      BY <1>2, <2>2, <2>3, <2>4 DEF WaitsBody, WaitBefore
    <2> QED BY <2>5
  <1> QED BY <1>1, <1>2

(* Waits adds up what call_with_retry sleeps, failed attempt by failed     *)
(* attempt.                                                                *)
LEMMA WaitsEquation ==
  /\ Waits[0] = 0
  /\ \A n \in Nat : Waits[n + 1] = Waits[n] + DelayMs(Schedule, n)
  <1>1. Waits = CHOOSE W : W = WaitsBody(W)
    BY DEF Waits, WaitsBody
  <1>2. Waits = WaitsBody(Waits)
    BY <1>1, WaitsSolvable
  <1>3. Waits[0] = 0
    BY <1>2 DEF WaitsBody
  <1>4. ASSUME NEW n \in Nat PROVE Waits[n + 1] = Waits[n] + DelayMs(Schedule, n)
    <2>1. n + 1 \in Nat /\ n + 1 # 0 /\ (n + 1) - 1 = n
      OBVIOUS
    <2>2. CASE Schedule # <<>>
      <3>1. Waits[n + 1] = Waits[n] + WaitBefore(n + 1)
        BY <1>2, <2>1, <2>2 DEF WaitsBody, WaitBefore
      <3> QED BY <3>1, WaitIsDelay
    <2>3. CASE Schedule = <<>>
      <3>1. Waits[n] = 0 /\ Waits[n + 1] = 0
        BY <1>2, <2>1, <2>3 DEF WaitsBody
      <3> QED BY <2>3, <3>1 DEF DelayMs
    <2> QED BY <2>2, <2>3
  <1> QED BY <1>3, <1>4

LEMMA BackoffInit == Init => BackoffKnown
  BY DEF Init, ResetTask, BackoffKnown, BackoffIsSlept

LEMMA BackoffStep ==
  ASSUME TypeOK, BackoffKnown, [Next]_vars
  PROVE  BackoffKnown'
  <1>0. loopStats \in RetryStats /\ attempt \in Nat
    BY BudgetType DEF TypeOK
  <1>1. ASSUME pc' # "loop" \/ UNCHANGED <<pc, loopStats, attempt>>,
               \A l \in letters' : l \in letters \/ l.cause # "transient"
        PROVE  BackoffKnown'
    BY <1>1 DEF BackoffKnown, BackoffIsSlept
  <1>2. CASE TakeChunk
    <2>1. PICK last \in next..NRows :
             letters' = letters \cup {Letter(r, "none", "parse", 0, "defect", 0) :
                                        r \in (next..last) \cap Defects}
      BY <1>2, TakeChunkFacts
    <2>2. \A l \in letters' : l \in letters \/ l.cause # "transient"
      BY <2>1 DEF Letter
    <2> QED BY <1>1, <1>2, <2>2 DEF TakeChunk
  <1>3. ASSUME NEW s \in DOMAIN failed, RejectPermanent(s) PROVE BackoffKnown'
    <2>1. \A l \in letters' : l \in letters \/ l.cause # "transient"
      BY <1>3 DEF RejectPermanent, Letter
    <2> QED BY <1>1, <1>3, <2>1 DEF RejectPermanent
  <1>4. ASSUME NEW s \in DOMAIN failed, EnterRetry(s) PROVE BackoffKnown'
    <2>1. /\ attempt' = 0 /\ loopStats' = NoStats /\ letters' = letters
      BY <1>4 DEF EnterRetry
    <2> QED BY <2>1, WaitsEquation DEF BackoffKnown, BackoffIsSlept, NoStats
  <1>5. CASE AttemptRejected
    <2>1. pc' = "retry" /\ \A l \in letters' : l \in letters \/ l.cause # "transient"
      BY <1>5 DEF AttemptRejected, GiveUp, LeaveLoop, Letter
    <2> QED BY <1>1, <2>1
  <1>6. CASE AttemptTimesOut
    <2>1. CASE attempt = Budget - 1
      <3>1. /\ pc' = "retry"
            /\ letters' = letters \cup
                 {Letter(current[1], current[2], "cassandra_sink", Budget + 1, "transient",
                         loopStats.backoff)}
        BY <1>6, <2>1 DEF AttemptTimesOut, GiveUp, LeaveLoop
      <3>2. loopStats.backoff = Waits[Budget - 1]
        BY <1>6, <2>1 DEF AttemptTimesOut, BackoffKnown
      <3>3. \A l \in letters' : l \in letters \/ l.slept = Waits[Budget - 1]
        BY <3>1, <3>2 DEF Letter
      <3> QED BY <3>1, <3>3 DEF BackoffKnown, BackoffIsSlept
    <2>2. CASE attempt # Budget - 1
      <3>1. /\ pc = "loop" /\ attempt' = attempt + 1 /\ letters' = letters
            /\ loopStats' = [RecordReason(Attempted, "transient") EXCEPT
                               !.backoff = @ + DelayMs(Schedule, attempt)]
        BY <1>6, <2>2 DEF AttemptTimesOut
      <3>2. loopStats'.backoff = loopStats.backoff + DelayMs(Schedule, attempt)
        <4> DEFINE st == RecordReason(Attempted, "transient")
        <4>1. st \in RetryStats /\ st.backoff = loopStats.backoff
          <5>1. Attempted \in RetryStats /\ Attempted.backoff = loopStats.backoff
            BY <1>0 DEF Attempted, RetryStats
          <5> QED BY <5>1, RecordReasonType DEF RecordReason, RetryStats, Reasons
        <4>2. loopStats' = [st EXCEPT !.backoff = st.backoff + DelayMs(Schedule, attempt)]
          BY <3>1
        <4> HIDE DEF st
        <4> QED BY <4>1, <4>2 DEF RetryStats
      <3>3. loopStats.backoff = Waits[attempt]
        BY <3>1 DEF BackoffKnown
      <3>4. loopStats'.backoff = Waits[attempt']
        BY <1>0, <3>1, <3>2, <3>3, WaitsEquation
      <3> QED BY <3>1, <3>4 DEF BackoffKnown, BackoffIsSlept
    <2> QED BY <2>1, <2>2
  <1>7. CASE FastPath \/ AttemptSucceeds \/ EndChunk \/ Finish \/ RunAgain \/ TaskFails
             \/ UNCHANGED vars
    <2>1. pc' # "loop" \/ UNCHANGED <<pc, loopStats, attempt>>
      BY <1>7 DEF FastPath, AttemptSucceeds, LeaveLoop, EndChunk, Finish, RunAgain,
         TaskFails, vars, task
    <2>2. letters' \subseteq letters
      BY <1>7 DEF FastPath, AttemptSucceeds, EndChunk, Finish, RunAgain, TaskFails, vars, task
    <2> QED BY <1>1, <2>1, <2>2
  <1> QED BY <1>2, <1>3, <1>4, <1>5, <1>6, <1>7 DEF Next, Step

-----------------------------------------------------------------------------
(* The inductive invariant of the task holds in every reachable state.     *)
THEOREM SinkInvariant == Spec => []SinkInv
  <1>1. TypeOK /\ PhaseFits /\ TriesKnown /\ LettersHonest /\ [Next]_vars
          => TriesKnown' /\ LettersHonest'
    BY TriesStep
  <1>2. Spec => []TriesKnown
    BY <1>1, TriesInit, SinkTypeInit, SinkTypeStep, SinkPhaseInit, SinkPhaseStep, PTL DEF Spec
  <1>3. Spec => []PhaseFits
    BY SinkTypeInit, SinkTypeStep, SinkPhaseInit, SinkPhaseStep, PTL DEF Spec
  <1>4. Spec => []RowsCovered
    <2>1. Init => RowsCovered
      BY DEF Init, ResetTask, RowsCovered
    <2>2. TypeOK /\ PhaseFits /\ RowsCovered /\ [Next]_vars => RowsCovered'
      BY RowsCoveredStep
    <2> QED BY <2>1, <2>2, <1>3, SinkTypeCorrect, PTL DEF Spec
  <1>5. Spec => []LoopOpen
    <2>1. TypeOK /\ AccountsBalance /\ LoopOpen /\ [Next]_vars
            => AccountsBalance' /\ LoopOpen'
      BY BalanceStep
    <2> QED BY <2>1, BalanceInit, SinkTypeCorrect, PTL DEF Spec
  <1>6. TypeOK /\ PhaseFits /\ RowsCovered /\ NoStatementDropped /\ AccountsBalance
          /\ LoopOpen /\ TriesKnown /\ CountsKnown /\ BackoffKnown => SinkInv
    BY DEF SinkInv
  <1>7. Spec => []CountsKnown
    <2>1. TypeOK /\ PhaseFits /\ CountsKnown /\ [Next]_vars => CountsKnown'
      BY CountsStep
    <2> QED BY <2>1, <1>3, CountsInit, SinkTypeCorrect, PTL DEF Spec
  <1>8. Spec => []BackoffKnown
    <2>1. TypeOK /\ BackoffKnown /\ [Next]_vars => BackoffKnown'
      BY BackoffStep
    <2> QED BY <2>1, BackoffInit, SinkTypeCorrect, PTL DEF Spec
  <1> QED BY <1>2, <1>3, <1>4, <1>5, <1>6, <1>7, <1>8, SinkTypeCorrect, SinkDropsNothing,
             SinkBalances, PTL

(* With RETRY_MAX_ATTEMPTS of at least two the fast path and the retry     *)
(* loop share the budget, and a dead letter that claims retries claims     *)
(* exactly the executions there were.                                      *)
THEOREM SinkBudgetShared ==
  ASSUME MaxAttempts >= 2
  PROVE  Spec => []BudgetIsShared
  <1> DEFINE Bounded == \A s \in Statements : tries[s] <= MaxAttempts
  <1>1. Init => Bounded /\ TriesKnown /\ LettersHonest
    BY TriesInit, SinkAssumption DEF Init, ResetTask
  <1>2. TypeOK /\ PhaseFits /\ TriesKnown /\ LettersHonest /\ Bounded /\ [Next]_vars
          => TriesKnown' /\ LettersHonest' /\ Bounded'
    BY TriesStep, TriesBounded
  <1>3. LettersHonest /\ Bounded => BudgetIsShared
    BY DEF LettersHonest, BudgetIsShared
  <1> HIDE DEF Bounded
  <1> QED BY <1>1, <1>2, <1>3, SinkTypeInit, SinkTypeStep, SinkPhaseInit, SinkPhaseStep,
             PTL DEF Spec

(* Every statement of a finished partition is counted once, as a written   *)
(* row or as a dead letter (write_partition: rows_written, dlq_emitted and *)
(* validation_rejects of the statistics that the task yields last).        *)
THEOREM SinkCountsOnce == Spec => []EveryStatementCountedOnce
  <1>1. SinkInv => EveryStatementCountedOnce
    BY CountsAtTheEnd DEF SinkInv
  <1> QED BY <1>1, SinkInvariant, PTL

(* A write that exhausted its retries has slept through the schedule, for  *)
(* every schedule and every budget (call_with_retry: the sleep between two *)
(* attempts, and none after the last).                                     *)
THEOREM SinkBackoffSlept == Spec => []BackoffIsSlept
  <1>1. SinkInv => BackoffIsSlept
    BY DEF SinkInv, BackoffKnown
  <1> QED BY <1>1, SinkInvariant, PTL

-----------------------------------------------------------------------------
(* The task implements the partition contract. *)

LEMMA FateCases ==
  ASSUME NEW r \in Rows
  PROVE  /\ RowFate[r] = "failed" <=> Lettered(r)
         /\ RowFate[r] = "stored" <=> ~Lettered(r) /\ ~(r >= next) /\ ~\E s \in Open : s[1] = r
         /\ RowFate[r] \in {"pending", "stored", "failed"}
  BY DEF RowFate

(* A row whose fate is "stored" is in every table. *)
StoredSafe ==
  pc # "lost" => \A r \in Rows : RowFate[r] = "stored" => r \in InTables

LEMMA StoredInTables == TypeOK /\ RowsCovered => StoredSafe
  <1> SUFFICES ASSUME TypeOK, RowsCovered, pc # "lost", NEW r \in Rows, RowFate[r] = "stored"
               PROVE  r \in InTables
    BY DEF StoredSafe
  <1>1. ~Lettered(r) /\ ~(r >= next) /\ ~\E s \in Open : s[1] = r
    BY FateCases
  <1>2. r \in 1..(next - 1)
    BY <1>1, SinkAssumption DEF Rows, TypeOK
  <1>3. \A t \in Tables : <<r, t>> \in tables
    <2> SUFFICES ASSUME NEW t \in Tables PROVE <<r, t>> \in tables
      OBVIOUS
    <2>1. <<r, t>> \in tables \cup Open
      BY <1>1, <1>2 DEF RowsCovered
    <2>2. <<r, t>>[1] = r
      OBVIOUS
    <2> QED BY <1>1, <2>1, <2>2
  <1>4. r \notin Defects
    <2>1. PICK t \in Tables : TRUE
      BY SinkAssumption
    <2>2. <<r, t>> \in Statements
      BY <1>3, <2>1 DEF TypeOK
    <2> QED BY <2>2 DEF Statements
  <1> QED BY <1>3, <1>4 DEF InTables

(* Rows reach the tables and never leave them. *)
LEMMA InTablesGrows ==
  ASSUME tables \subseteq tables'
  PROVE  \E A \in SUBSET (Rows \ Defects) : InTables' = InTables \cup A
  <1>1. InTables \subseteq InTables' /\ InTables' \subseteq Rows \ Defects
    BY DEF InTables
  <1>2. InTables' \in SUBSET (Rows \ Defects) /\ InTables' = InTables \cup InTables'
    BY <1>1
  <1> QED BY <1>2

(* A step of a running task that keeps the fates that are settled is       *)
(* progress of the contract.                                               *)
LEMMA ProgressStep ==
  ASSUME StoredSafe', pc \notin {"lost", "done"}, pc' \notin {"lost", "done"},
         tables \subseteq tables',
         \A r \in Rows : RowFate[r] # "pending" => RowFate'[r] = RowFate[r]
  PROVE  Partition!Progress
  <1> DEFINE bar == IF pc = "lost" THEN [r \in Rows |-> "pending"] ELSE RowFate
             S == {r \in Rows : bar[r] = "pending" /\ bar'[r] = "stored"}
             F == {r \in Rows : bar[r] = "pending" /\ bar'[r] = "failed"}
             new == [o \in Rows |-> CASE o \in S -> "stored" [] o \in F -> "failed"
                                      [] OTHER -> bar[o]]
  <1>1. bar = RowFate /\ bar' = RowFate'
    OBVIOUS
  <1>2. \A r \in Rows : bar[r] \in {"pending", "stored", "failed"}
                       /\ bar'[r] \in {"pending", "stored", "failed"}
    BY <1>1 DEF RowFate
  <1>3. bar' = new
    <2>1. bar' = [r \in Rows |-> bar'[r]]
      BY <1>1 DEF RowFate
    <2> HIDE DEF bar
    <2>2. \A r \in Rows : bar'[r] = new[r]
      BY <1>1, <1>2
    <2> HIDE DEF new
    <2>3. new = [r \in Rows |-> new[r]]
      BY DEF new
    <2> QED BY <2>1, <2>2, <2>3
  <1>4. S \in SUBSET InTables' /\ F \in SUBSET Rows /\ S \cap F = {}
        /\ \A o \in S \cup F : bar[o] = "pending"
    <2> HIDE DEF bar
    <2> QED BY <1>1 DEF StoredSafe
  <1>5. \E A \in SUBSET (Rows \ Defects) : InTables' = InTables \cup A
    BY InTablesGrows
  <1> HIDE DEF S, F, bar
  <1>6. \E S1 \in SUBSET InTables' : \E F1 \in SUBSET Rows :
          /\ \A o \in S1 \cup F1 : bar[o] = "pending"
          /\ S1 \cap F1 = {}
          /\ bar' = [o \in Rows |-> CASE o \in S1 -> "stored" [] o \in F1 -> "failed"
                                      [] OTHER -> bar[o]]
    BY <1>3, <1>4
  <1>7. ~(pc = "done") /\ UNCHANGED (pc = "done")
    OBVIOUS
  <1> QED BY <1>5, <1>6, <1>7, Zenon DEF Partition!Progress, bar

(* Which fates a step settles: none is taken back when the letters grow    *)
(* for rows that are open or new, and no old row is opened again.          *)
LEMMA FatesKept ==
  ASSUME TypeOK, TypeOK', letters \subseteq letters', next <= next',
         \A l \in letters' :
            l \in letters \/ l.row >= next \/ \E s \in Open : s[1] = l.row,
         \A s \in Open' : s \in Open \/ s[1] >= next
  PROVE  \A r \in Rows : RowFate[r] # "pending" => RowFate'[r] = RowFate[r]
  <1> SUFFICES ASSUME NEW r \in Rows, RowFate[r] # "pending" PROVE RowFate'[r] = RowFate[r]
    OBVIOUS
  <1>0. r \in Int /\ next \in Int /\ next' \in Int
    BY SinkAssumption DEF Rows, TypeOK
  <1>1. RowFate' = [o \in Rows |-> IF Lettered(o)' THEN "failed"
                      ELSE IF o >= next' \/ \E s \in Open' : s[1] = o THEN "pending"
                      ELSE "stored"]
    BY DEF RowFate
  <1>2. CASE Lettered(r)
    <2>1. Lettered(r)'
      BY <1>2 DEF Lettered
    <2> QED BY <1>1, <1>2, <2>1 DEF RowFate
  <1>3. CASE ~Lettered(r)
    <2>1. ~(r >= next) /\ ~\E s \in Open : s[1] = r
      BY <1>3 DEF RowFate
    <2>2. ~Lettered(r)'
      BY <1>3, <2>1 DEF Lettered
    <2>3. ~(r >= next') /\ ~\E s \in Open' : s[1] = r
      BY <1>0, <2>1
    <2> QED BY <1>1, <1>3, <2>1, <2>2, <2>3 DEF RowFate
  <1> QED BY <1>2, <1>3

LEMMA PartitionStep ==
  ASSUME SinkInv, SinkInv', StoredSafe', [Next]_vars
  PROVE  [Partition!PartitionNext]_(Partition!partitionVars)
  <1>0. TypeOK /\ TypeOK' /\ PhaseFits /\ PhaseFits' /\ next \in Int
    <2>1. TypeOK /\ TypeOK' /\ PhaseFits /\ PhaseFits'
      BY DEF SinkInv
    <2>2. next \in Int
      BY <2>1, SinkAssumption DEF TypeOK
    <2> QED BY <2>1, <2>2
  <1>1. ASSUME pc \notin {"lost", "done"}, pc' \notin {"lost", "done"},
               tables \subseteq tables', letters \subseteq letters', next <= next',
               \A l \in letters' :
                  l \in letters \/ l.row >= next \/ \E s \in Open : s[1] = l.row,
               \A s \in Open' : s \in Open \/ s[1] >= next
        PROVE  Partition!Progress
    BY <1>0, <1>1, FatesKept, ProgressStep
  <1>2. CASE TakeChunk
    <2>1. PICK last \in next..NRows :
           /\ next' = last + 1
           /\ work' = ((next..last) \ Defects) \X Tables
           /\ letters' = letters \cup {Letter(r, "none", "parse", 0, "defect", 0) :
                                          r \in (next..last) \cap Defects}
           /\ pc' = IF next..last \subseteq Defects THEN "chunk" ELSE "fast"
      BY <1>0, <1>2, TakeChunkFacts
    <2>2. pc = "chunk" /\ UNCHANGED <<failed, tables>>
      BY <1>2 DEF TakeChunk
    <2>3. \A s \in Open' : s \in Open \/ s[1] >= next
      BY <2>1, <2>2 DEF Open
    <2>4. \A l \in letters' : l \in letters \/ l.row >= next
      BY <2>1 DEF Letter
    <2>5. next <= next' /\ pc' \in {"chunk", "fast"}
      BY <1>0, <2>1, SinkAssumption
    <2> QED BY <1>1, <2>1, <2>2, <2>3, <2>4, <2>5 DEF Partition!PartitionNext
  <1>3. CASE FastPath
    <2>1. /\ pc = "fast" /\ pc' = "retry" /\ UNCHANGED <<next, letters>>
          /\ tables \subseteq tables' /\ DOMAIN failed' \subseteq work /\ work' = {}
      BY <1>3 DEF FastPath
    <2> QED BY <1>0, <1>1, <2>1 DEF Open, Partition!PartitionNext
  <1>4. ASSUME NEW s \in DOMAIN failed, RejectPermanent(s) PROVE Partition!Progress
    <2>1. /\ pc = "retry" /\ UNCHANGED <<pc, next, tables, work>>
          /\ DOMAIN failed' \subseteq DOMAIN failed
          /\ letters' = letters \cup {Letter(s[1], s[2], "cassandra_sink", 0, "permanent", 0)}
      BY <1>4 DEF RejectPermanent, Settle
    <2>2. \A l \in letters' : l \in letters \/ l.row = s[1]
      BY <2>1 DEF Letter
    <2> QED BY <1>0, <1>1, <2>1, <2>2 DEF Open
  <1>5. ASSUME NEW s \in DOMAIN failed, EnterRetry(s) PROVE Partition!Progress
    <2>1. /\ pc = "retry" /\ pc' = "loop" /\ UNCHANGED <<next, tables, work, letters, failed>>
      BY <1>5 DEF EnterRetry
    <2> QED BY <1>0, <1>1, <2>1 DEF Open
  <1>6. CASE AttemptSucceeds
    <2>1. /\ pc = "loop" /\ pc' = "retry" /\ UNCHANGED <<next, work, letters>>
          /\ tables \subseteq tables' /\ DOMAIN failed' \subseteq DOMAIN failed
      BY <1>6 DEF AttemptSucceeds, LeaveLoop, Settle
    <2> QED BY <1>0, <1>1, <2>1 DEF Open, Partition!PartitionNext
  <1>7. ASSUME pc = "loop", UNCHANGED <<next, work>>, tables \subseteq tables',
               NEW cause, NEW n, GiveUp(cause, n)
        PROVE  Partition!Progress
    <2>1. /\ pc' = "retry" /\ DOMAIN failed' \subseteq DOMAIN failed /\ current \in Open
          /\ letters' = letters \cup
               {Letter(current[1], current[2], "cassandra_sink", n + 1, cause, loopStats.backoff)}
      BY <1>0, <1>7 DEF GiveUp, LeaveLoop, Settle, PhaseFits, Open
    <2>2. \A l \in letters' : l \in letters \/ l.row = current[1]
      BY <2>1 DEF Letter
    <2> QED BY <1>0, <1>1, <1>7, <2>1, <2>2 DEF Open
  <1>8. CASE AttemptRejected
    BY <1>7, <1>8 DEF AttemptRejected, Partition!PartitionNext
  <1>9. CASE AttemptTimesOut
    <2>1. CASE attempt = Budget - 1
      BY <1>7, <1>9, <2>1 DEF AttemptTimesOut, Partition!PartitionNext
    <2>2. CASE attempt # Budget - 1
      <3>1. /\ pc = "loop" /\ UNCHANGED <<pc, next, work, failed, letters>>
            /\ tables \subseteq tables'
        BY <1>9, <2>2 DEF AttemptTimesOut
      <3> QED BY <1>0, <1>1, <3>1 DEF Open, Partition!PartitionNext
    <2> QED BY <2>1, <2>2
  <1>10. CASE EndChunk
    <2>1. /\ pc = "retry" /\ pc' = "chunk" /\ UNCHANGED <<next, work, failed, letters, tables>>
      BY <1>10 DEF EndChunk, task
    <2> QED BY <1>0, <1>1, <2>1 DEF Open, Partition!PartitionNext
  <1>11. CASE Finish
    <2>1. /\ pc = "chunk" /\ pc' = "done" /\ UNCHANGED <<next, work, failed, letters, tables>>
          /\ next > NRows
      BY <1>11 DEF Finish, task
    <2>2. RowFate' = RowFate /\ InTables' = InTables
      BY <2>1 DEF RowFate, InTables, Lettered, Open
    <2>3. Open = {}
      BY <1>0, <2>1 DEF PhaseFits, Open
    <2>4. \A r \in Rows : RowFate[r] # "pending"
      BY <1>0, <2>1, <2>3, SinkAssumption DEF RowFate, Rows
    <2> QED BY <2>1, <2>2, <2>4 DEF Partition!PartitionNext, Partition!Return
  <1>12. CASE TaskFails
    <2>1. pc \notin {"lost", "done"} /\ pc' = "lost" /\ tables \subseteq tables'
      BY <1>12 DEF TaskFails
    <2> QED BY <2>1, InTablesGrows DEF Partition!PartitionNext, Partition!TaskLost
  <1>13. CASE RunAgain
    <2>1. pc = "lost" /\ pc' = "chunk" /\ next' = 1 /\ letters' = {} /\ tables' = tables
      BY <1>13 DEF RunAgain
    <2>2. InTables' = InTables
      BY <2>1 DEF InTables
    <2>3. RowFate' = [r \in Rows |-> "pending"]
      <3>1. \A r \in Rows : ~Lettered(r)' /\ r >= next'
        BY <2>1 DEF Lettered, Rows
      <3>2. RowFate' = [o \in Rows |-> IF Lettered(o)' THEN "failed"
                          ELSE IF o >= next' \/ \E s \in Open' : s[1] = o THEN "pending"
                          ELSE "stored"]
        BY DEF RowFate
      <3> QED BY <3>1, <3>2
    <2> QED BY <2>1, <2>2, <2>3 DEF Partition!partitionVars
  <1>14. CASE UNCHANGED vars
    <2>1. RowFate' = RowFate /\ InTables' = InTables /\ pc' = pc
      BY <1>14 DEF vars, task, RowFate, InTables, Lettered, Open
    <2> QED BY <2>1 DEF Partition!partitionVars
  <1>15. Partition!Progress => Partition!PartitionNext
    BY DEF Partition!PartitionNext
  <1> QED
    BY <1>2, <1>3, <1>4, <1>5, <1>6, <1>8, <1>9, <1>10, <1>11, <1>12, <1>13, <1>14, <1>15
       DEF Next, Step

(* Every behaviour of a task, with its retries, its loss and its re-runs,  *)
(* is a behaviour of the row-level contract that StreamJob assumes of      *)
(* WriteRow: outcomes are given once, "stored" is given to rows that are   *)
(* in every table, and the task returns only when every row has one.       *)
THEOREM SinkImplementsPartition == Spec => ImplementsPartition
  <1>1. Init => Partition!PartitionInit
    <2> SUFFICES ASSUME Init PROVE Partition!PartitionInit
      OBVIOUS
    <2>1. pc = "chunk" /\ next = 1 /\ letters = {} /\ tables = {}
      BY DEF Init, ResetTask
    <2>2. RowFate = [r \in Rows |-> "pending"]
      <3>1. \A r \in Rows : ~Lettered(r) /\ r >= next
        BY <2>1 DEF Lettered, Rows
      <3> QED BY <3>1 DEF RowFate
    <2>3. InTables = {}
      <3>1. PICK t \in Tables : TRUE
        BY SinkAssumption
      <3>2. \A r \in Rows : <<r, t>> \in {r} \X Tables /\ <<r, t>> \notin tables
        BY <2>1, <3>1
      <3> QED BY <3>2 DEF InTables
    <2> QED BY <2>1, <2>2, <2>3 DEF Partition!PartitionInit
  <1>2. SinkInv => StoredSafe
    BY StoredInTables DEF SinkInv
  <1>3. SinkInv /\ SinkInv' /\ StoredSafe' /\ [Next]_vars
          => [Partition!PartitionNext]_(Partition!partitionVars)
    BY PartitionStep
  <1> QED BY <1>1, <1>2, <1>3, SinkInvariant, PTL
          DEF Spec, ImplementsPartition, Partition!PartitionSafety
=============================================================================
