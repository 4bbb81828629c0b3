-------------------------- MODULE DlqReplayProofs --------------------------
(***************************************************************************)
(* Proofs about DlqReplay for every finite set of events, every ceiling,   *)
(* number of retries and bound.                                            *)
(***************************************************************************)
EXTENDS DlqReplay, FiniteSetTheorems, TLAPS

LEMMA LetterType ==
  ASSUME NEW e \in Events, NEW s \in Stages, NEW c \in Copies
  PROVE  /\ Letter(e, s, c) \in Letters
         /\ Letter(e, s, c).event = e
  BY DEF Letter, Letters

LEMMA EventsOfLetters ==
  ASSUME NEW S, S \subseteq Letters
  PROVE  EventsOf(S) \subseteq Events
  BY DEF EventsOf, Letters

(* Multiples of the number of statements. *)
LEMMA Multiples ==
  ASSUME NEW k \in Nat, NEW a \in Nat, NEW b \in Nat
  PROVE  /\ k * (a + b) = k * a + k * b
         /\ k * a \in Nat
         /\ a <= b => k * a <= k * b
  OBVIOUS

LEMMA LettersCount ==
  ASSUME IsFiniteSet(dlq), NEW e, NEW S
  PROVE  IsFiniteSet(LettersAt(e, S)) /\ Cardinality(LettersAt(e, S)) \in Nat
  BY FS_Subset, FS_CardinalityType DEF LettersAt

(* A quarantine of n letters adds at most n of them, all of the event and  *)
(* of the stage it names.                                                  *)
LEMMA DlqGrows ==
  ASSUME dlq \subseteq Letters, IsFiniteSet(dlq),
         NEW e \in Events, NEW s \in Stages, NEW n \in Nat, Quarantine(e, s, n)
  PROVE  /\ dlq \subseteq dlq' /\ dlq' \subseteq Letters /\ IsFiniteSet(dlq')
         /\ \A f, S : f # e \/ s \notin S => LettersAt(f, S)' = LettersAt(f, S)
         /\ \A S : Cardinality(LettersAt(e, S)') <= Cardinality(LettersAt(e, S)) + n
  <1> DEFINE used == Cardinality(LettersAt(e, {s}))
             C == Copies \cap (used + 1)..(used + n)
             g == [c \in C |-> Letter(e, s, c)]
             Added == {Letter(e, s, c) : c \in C}
  <1>1. dlq' = dlq \cup Added
    BY DEF Quarantine
  <1>2. used \in Nat
    BY LettersCount
  <1>3. IsFiniteSet(C) /\ Cardinality(C) <= n /\ Cardinality(C) \in Nat
    <2>1. IsFiniteSet((used + 1)..(used + n)) /\ Cardinality((used + 1)..(used + n)) = n
      <3> HIDE DEF used
      <3> QED BY <1>2, FS_Interval
    <2>2. C \subseteq (used + 1)..(used + n)
      OBVIOUS
    <2> HIDE DEF C
    <2> QED BY <2>1, <2>2, FS_Subset, FS_CardinalityType
  <1>4. Added \subseteq Letters /\ \A l \in Added : l.event = e /\ l.stage = s
    BY LetterType DEF Letter
  <1>5. g \in Surjection(C, Added)
    BY DEF Surjection
  <1> HIDE DEF used, C, g
  <1>6. IsFiniteSet(Added) /\ Cardinality(Added) <= n
    <2>1. IsFiniteSet(Added) /\ Cardinality(Added) <= Cardinality(C)
      BY <1>3, <1>5, FS_Surjection
    <2>2. Cardinality(Added) \in Nat
      BY <2>1, FS_CardinalityType
    <2> QED BY <1>3, <2>1, <2>2
  <1> HIDE DEF Added
  <1>7. IsFiniteSet(dlq')
    BY <1>1, <1>6, FS_Union
  <1>8. ASSUME NEW f, NEW S, f # e \/ s \notin S
        PROVE  LettersAt(f, S)' = LettersAt(f, S)
    BY <1>1, <1>4, <1>8 DEF LettersAt
  <1>9. ASSUME NEW S
        PROVE  Cardinality(LettersAt(e, S)') <= Cardinality(LettersAt(e, S)) + n
    <2> DEFINE before == LettersAt(e, S)
    <2>1. IsFiniteSet(before) /\ Cardinality(before) \in Nat
      BY LettersCount
    <2>2. LettersAt(e, S)' \subseteq before \cup Added
      BY <1>1 DEF LettersAt
    <2> HIDE DEF before
    <2>3. /\ IsFiniteSet(before \cup Added)
          /\ Cardinality(before \cup Added)
               = Cardinality(before) + Cardinality(Added) - Cardinality(before \cap Added)
      BY <1>6, <2>1, FS_Union
    <2>4. /\ Cardinality(Added) \in Nat
          /\ Cardinality(before \cap Added) \in Nat
      BY <1>6, <2>1, FS_Subset, FS_CardinalityType
    <2>5. /\ Cardinality(LettersAt(e, S)') <= Cardinality(before \cup Added)
          /\ Cardinality(LettersAt(e, S)') \in Nat
      BY <2>2, <2>3, FS_Subset, FS_CardinalityType
    <2>6. Cardinality(LettersAt(e, S)') <= Cardinality(before) + n
      BY <1>6, <2>1, <2>3, <2>4, <2>5
    <2> QED BY <2>6 DEF before
  <1>10. dlq \subseteq dlq' /\ dlq' \subseteq Letters
    BY <1>1, <1>4
  <1> QED BY <1>7, <1>8, <1>9, <1>10

(* Whatever the stream does with a message, the event's letters grow by    *)
(* one rejection or by at most one refusal for each statement.             *)
LEMMA StreamOutcome ==
  ASSUME TypeOK, NEW e \in Events, StreamHandles(e)
  PROVE  /\ dlq \subseteq dlq' /\ dlq' \subseteq Letters /\ IsFiniteSet(dlq')
         /\ tables \subseteq tables' /\ tables' \subseteq Events
         /\ \A f \in Events \ {e} : /\ Rejections(f)' = Rejections(f)
                                    /\ Refusals(f)' = Refusals(f)
         /\ \E i \in {0, 1} :
              /\ Cardinality(Rejections(e)') <= Cardinality(Rejections(e)) + i
              /\ Cardinality(Refusals(e)') <= Cardinality(Refusals(e)) + Statements * (1 - i)
  <1>0. dlq \subseteq Letters /\ IsFiniteSet(dlq) /\ tables \subseteq Events
        /\ Statements \in Nat
    BY ReplayAssumption DEF TypeOK
  <1>1. tables \subseteq tables' /\ tables' \subseteq Events
    BY <1>0 DEF StreamHandles
  <1>2. Cardinality(Rejections(e)) \in Nat /\ Cardinality(Refusals(e)) \in Nat
    BY <1>0, LettersCount DEF Rejections, Refusals
  <1>3. CASE dlq' = dlq
    <2>1. \A f : Rejections(f)' = Rejections(f) /\ Refusals(f)' = Refusals(f)
      BY <1>3 DEF Rejections, Refusals, LettersAt
    <2>2. /\ Cardinality(Rejections(e)') <= Cardinality(Rejections(e)) + 1
          /\ Cardinality(Refusals(e)') <= Cardinality(Refusals(e)) + Statements * (1 - 1)
      BY <1>0, <1>2, <2>1
    <2> QED BY <1>0, <1>1, <1>3, <2>1, <2>2
  <1>4. ASSUME NEW s \in {"parse", "late_event"}, Quarantine(e, s, 1)
        PROVE  /\ dlq \subseteq dlq' /\ dlq' \subseteq Letters /\ IsFiniteSet(dlq')
               /\ \A f \in Events \ {e} : /\ Rejections(f)' = Rejections(f)
                                          /\ Refusals(f)' = Refusals(f)
               /\ Cardinality(Rejections(e)') <= Cardinality(Rejections(e)) + 1
               /\ Refusals(e)' = Refusals(e)
    BY <1>0, <1>4, DlqGrows DEF Stages, Rejections, Refusals
  <1>5. ASSUME NEW n \in 1..Statements, Quarantine(e, "cassandra_sink", n)
        PROVE  /\ dlq \subseteq dlq' /\ dlq' \subseteq Letters /\ IsFiniteSet(dlq')
               /\ \A f \in Events \ {e} : /\ Rejections(f)' = Rejections(f)
                                          /\ Refusals(f)' = Refusals(f)
               /\ Rejections(e)' = Rejections(e)
               /\ Cardinality(Refusals(e)') <= Cardinality(Refusals(e)) + Statements
    <2>1. n \in Nat /\ n <= Statements
      BY <1>0
    <2>2. /\ dlq \subseteq dlq' /\ dlq' \subseteq Letters /\ IsFiniteSet(dlq')
          /\ \A f \in Events \ {e} : /\ Rejections(f)' = Rejections(f)
                                     /\ Refusals(f)' = Refusals(f)
          /\ Rejections(e)' = Rejections(e)
          /\ Cardinality(Refusals(e)') <= Cardinality(Refusals(e)) + n
      BY <1>0, <1>5, <2>1, DlqGrows DEF Stages, Rejections, Refusals
    <2>3. Cardinality(Refusals(e)') \in Nat
      BY <2>2, LettersCount, FS_Subset, FS_CardinalityType DEF Refusals, LettersAt
    <2> QED BY <1>0, <1>2, <2>1, <2>2, <2>3
  <1>6. \/ dlq' = dlq
        \/ \E s \in {"parse", "late_event"} : Quarantine(e, s, 1)
        \/ \E n \in 1..Statements : Quarantine(e, "cassandra_sink", n)
    BY DEF StreamHandles
  <1>7. ASSUME NEW s \in {"parse", "late_event"}, Quarantine(e, s, 1)
        PROVE  \E i \in {0, 1} :
                 /\ Cardinality(Rejections(e)') <= Cardinality(Rejections(e)) + i
                 /\ Cardinality(Refusals(e)') <= Cardinality(Refusals(e)) + Statements * (1 - i)
    <2> WITNESS 1 \in {0, 1}
    <2> QED BY <1>0, <1>2, <1>4, <1>7
  <1>8. ASSUME NEW n \in 1..Statements, Quarantine(e, "cassandra_sink", n)
        PROVE  \E i \in {0, 1} :
                 /\ Cardinality(Rejections(e)') <= Cardinality(Rejections(e)) + i
                 /\ Cardinality(Refusals(e)') <= Cardinality(Refusals(e)) + Statements * (1 - i)
    <2> WITNESS 0 \in {0, 1}
    <2> QED BY <1>0, <1>2, <1>5, <1>8
  <1> QED BY <1>1, <1>3, <1>4, <1>5, <1>6, <1>7, <1>8

-----------------------------------------------------------------------------
(* Type correctness.                                                       *)

LEMMA InitType == Init => TypeOK
  <1> SUFFICES ASSUME Init PROVE TypeOK
    OBVIOUS
  <1> USE ReplayAssumption
  <1>1. PICK S \in SUBSET {e \in Events : e.kind # "garbled"} :
          dlq = {Letter(e, "producer", 1) : e \in S}
    BY DEF Init
  <1> DEFINE f == [e \in S |-> Letter(e, "producer", 1)]
  <1>2. f \in Surjection(S, dlq)
    BY <1>1 DEF Surjection
  <1>3. IsFiniteSet(S)
    BY <1>1, FS_Subset
  <1>4. IsFiniteSet(dlq)
    BY <1>2, <1>3, FS_Surjection
  <1>5. dlq \subseteq Letters
    BY <1>1, LetterType DEF Stages, Copies
  <1>6. /\ raw \in [Events -> 0..MaxCopies]
        /\ offered \in [Events -> 0..MaxHistory]
        /\ replays \in [Events -> 0..MaxCounted]
    BY DEF Init
  <1> QED BY <1>1, <1>4, <1>5, <1>6 DEF Init, TypeOK

LEMMA RoutesOfWork ==
  /\ ToReinject \subseteq work /\ ToWrite \subseteq work /\ ToPark \subseteq work
  /\ ToReinject \cap ToWrite = {} /\ ToReinject \cap ToPark = {}
  /\ ToWrite \cap ToPark = {}
  /\ work = ToReinject \cup ToWrite \cup ToPark
  BY DEF ToReinject, ToWrite, ToPark

LEMMA CappedType ==
  ASSUME NEW n \in Nat, NEW bound \in Nat
  PROVE  /\ Capped(n, bound) \in 0..bound
         /\ Capped(n, bound) <= n
         /\ Capped(n, bound) < bound => Capped(n, bound) = n
  BY DEF Capped

(* Letters put back on trips.raw: what an event gains there it is offered. *)
LEMMA ReplayAdds ==
  ASSUME TypeOK, NEW S, S \subseteq work, Replay(S), NEW e \in Events
  PROVE  \E m \in Nat : /\ raw'[e] = Capped(raw[e] + m, MaxCopies)
                       /\ offered'[e] = Capped(offered[e] + m, MaxHistory)
  <1> DEFINE m == Cardinality({l \in S : l.event = e})
  <1>1. m \in Nat
    <2>1. {l \in S : l.event = e} \subseteq dlq
      BY DEF TypeOK
    <2> QED BY <2>1, FS_Subset, FS_CardinalityType DEF TypeOK
  <1>2. /\ raw'[e] = Capped(raw[e] + m, MaxCopies)
        /\ offered'[e] = Capped(offered[e] + m, MaxHistory)
    BY DEF Replay
  <1> HIDE DEF m
  <1> QED BY <1>1, <1>2

LEMMA ReplayType ==
  ASSUME TypeOK, NEW S, S \subseteq work, Replay(S)
  PROVE  /\ raw' \in [Events -> 0..MaxCopies]
         /\ offered' \in [Events -> 0..MaxHistory]
         /\ acked' \subseteq work
         /\ replays' \in [Events -> 0..MaxCounted]
  <1> USE ReplayAssumption
  <1>1. acked' \subseteq work
    BY DEF Replay, TypeOK
  <1>2. ASSUME NEW e \in Events
        PROVE  raw'[e] \in 0..MaxCopies /\ offered'[e] \in 0..MaxHistory
    <2>1. PICK m \in Nat : /\ raw'[e] = Capped(raw[e] + m, MaxCopies)
                          /\ offered'[e] = Capped(offered[e] + m, MaxHistory)
      BY ReplayAdds
    <2>2. raw[e] + m \in Nat /\ offered[e] + m \in Nat
      BY DEF TypeOK
    <2>3. MaxCopies \in Nat /\ MaxHistory \in Nat
      OBVIOUS
    <2> QED BY <2>1, <2>2, <2>3, CappedType
  <1>3. /\ DOMAIN raw' = Events /\ raw' = [e \in Events |-> raw'[e]]
        /\ DOMAIN offered' = Events /\ offered' = [e \in Events |-> offered'[e]]
    BY DEF Replay
  <1>4. replays' \in [Events -> 0..MaxCounted]
    <2>1. \A e \in Events :
            (IF e \in EventsOf(S) \ EventsOf(acked)
             THEN Capped(replays[e] + 1, MaxCounted) ELSE replays[e]) \in 0..MaxCounted
      BY DEF TypeOK, Capped
    <2> QED BY <2>1 DEF Replay
  <1> QED BY <1>1, <1>2, <1>3, <1>4

LEMMA TaskFailsType ==
  ASSUME TypeOK, TaskFails
  PROVE  /\ tries' \in 0..Retries
         /\ dag' \in {"idle", "inspect", "drain", "report"}
         /\ inspected' \in Nat
         /\ step' = "none" /\ work' = {}
         /\ failed' = {} /\ unflushed' = {} /\ acked' = {}
  BY ReplayAssumption DEF TypeOK, TaskFails, ProcessEnds

LEMMA TypeStep == TypeOK /\ DrainFits /\ [Next]_vars => TypeOK'
  <1> SUFFICES ASSUME TypeOK, DrainFits, [Next]_vars PROVE TypeOK'
    OBVIOUS
  <1> USE ReplayAssumption
  <1>1. ASSUME NEW e \in Events, GrowsOld(e) PROVE TypeOK'
    BY <1>1 DEF GrowsOld, TypeOK, topics, run, process, history
  <1>2. ASSUME NEW e \in Events, StreamReads(e) PROVE TypeOK'
    <2>1. StreamHandles(e)
      BY <1>2 DEF StreamReads
    <2>2. /\ dlq \subseteq dlq' /\ dlq' \subseteq Letters /\ IsFiniteSet(dlq')
          /\ tables' \subseteq Events
      BY <2>1, StreamOutcome
    <2>3. raw' \in [Events -> 0..MaxCopies]
      BY <1>2 DEF StreamReads, TypeOK
    <2>4. UNCHANGED <<old, parked, healthy, run, process, history>>
      BY <1>2 DEF StreamReads
    <2> QED BY <2>2, <2>3, <2>4 DEF TypeOK, run, process, history
  <1>3. CASE StreamRestarts
    BY <1>3 DEF StreamRestarts, TypeOK, topics, run, process, history
  <1>4. CASE HealthChanges
    BY <1>4 DEF HealthChanges, TypeOK, topics, stream, run, process, history
  <1>5. CASE Schedule
    BY <1>5 DEF Schedule, TypeOK, topics, stream, process, history
  <1>6. ASSUME NEW S \in SUBSET dlq, Inspect(S) PROVE TypeOK'
    <2>1. Cardinality(S) \in Nat
      BY FS_Subset, FS_CardinalityType DEF TypeOK
    <2> QED BY <1>6, <2>1 DEF Inspect, TypeOK, topics, stream, process, history
  <1>7. ASSUME NEW S \in SUBSET dlq, BreakerTrips(S) PROVE TypeOK'
    <2>1. TaskFails /\ UNCHANGED <<topics, stream, parked, healthy, history>>
      BY <1>7 DEF BreakerTrips
    <2> QED BY <2>1, TaskFailsType DEF TypeOK, topics, stream, history
  <1>8. CASE TaskDies
    <2>1. TaskFails /\ UNCHANGED <<topics, stream, parked, healthy, history>>
      BY <1>8 DEF TaskDies
    <2> QED BY <2>1, TaskFailsType DEF TypeOK, topics, stream, history
  <1>9. CASE Report
    BY <1>9 DEF Report, TypeOK, topics, stream, process, history
  <1>10. CASE NothingToDrain
    BY <1>10 DEF NothingToDrain, TypeOK, topics, stream, process, history
  <1>11. ASSUME NEW S \in SUBSET dlq, DrainReads(S) PROVE TypeOK'
    <2>1. failed = {} /\ unflushed = {} /\ acked = {}
      BY <1>11 DEF DrainReads, DrainFits, NothingDone
    <2> QED BY <1>11, <2>1 DEF DrainReads, TypeOK, topics, stream, run, history
  <1>12. ASSUME NEW D \in SUBSET ToReinject, NEW F \in SUBSET ToReinject,
                Reinject(D, F)
         PROVE  TypeOK'
    <2>1. D \subseteq work /\ F \subseteq work
          /\ ToReinject \ (D \cup F) \subseteq work
      BY RoutesOfWork
    <2>2. Replay(D)
      BY <1>12 DEF Reinject
    <2>3. /\ raw' \in [Events -> 0..MaxCopies]
          /\ offered' \in [Events -> 0..MaxHistory]
          /\ acked' \subseteq work
          /\ replays' \in [Events -> 0..MaxCounted]
      BY <2>1, <2>2, ReplayType
    <2>4. /\ failed' = F /\ unflushed' = ToReinject \ (D \cup F)
          /\ step' = "direct"
          /\ UNCHANGED <<dlq, stream, parked, healthy, run, work>>
      BY <1>12 DEF Reinject
    <2> QED BY <2>1, <2>3, <2>4 DEF TypeOK, stream, run, history
  <1>13. ASSUME NEW l \in unflushed, LateDelivery(l) PROVE TypeOK'
    <2>1. {l} \subseteq work
      BY DEF TypeOK
    <2>2. Replay({l})
      BY <1>13 DEF LateDelivery
    <2>3. /\ raw' \in [Events -> 0..MaxCopies]
          /\ offered' \in [Events -> 0..MaxHistory]
          /\ acked' \subseteq work
          /\ replays' \in [Events -> 0..MaxCounted]
      BY <2>1, <2>2, ReplayType
    <2>4. /\ unflushed' = unflushed \ {l}
          /\ UNCHANGED <<dlq, stream, parked, healthy, run, step, work, failed>>
      BY <1>13 DEF LateDelivery
    <2> QED BY <2>3, <2>4 DEF TypeOK, stream, run, history
  <1>14. ASSUME NEW W \in SUBSET ToWrite, NEW A \in SUBSET (ToWrite \ W),
                DirectWrite(W, A)
         PROVE  TypeOK'
    <2>1. EventsOf(W \cup A) \subseteq Events
      <3>1. W \cup A \subseteq Letters
        BY RoutesOfWork DEF TypeOK
      <3> QED BY <3>1, EventsOfLetters
    <2>2. /\ tables' = tables \cup EventsOf(W \cup A)
          /\ failed' = failed \cup (ToWrite \ W)
          /\ step' = "park"
          /\ UNCHANGED <<topics, old, parked, healthy, run, work, unflushed,
                         acked, history>>
      BY <1>14 DEF DirectWrite
    <2>3. tables' \subseteq Events /\ failed' \subseteq work
      BY <2>1, <2>2, RoutesOfWork DEF TypeOK
    <2> QED BY <2>2, <2>3 DEF TypeOK, topics, run, history
  <1>15. CASE Park
    <2>1. parked' \subseteq dlq /\ parked \subseteq parked'
      BY <1>15, RoutesOfWork DEF Park, TypeOK
    <2> QED BY <1>15, <2>1 DEF Park, TypeOK, topics, stream, run, history
  <1>16. CASE DrainSucceeds
    <2>1. ToPark \subseteq parked
      BY <1>16 DEF DrainSucceeds, DrainFits
    <2> QED BY <1>16, <2>1 DEF DrainSucceeds, ProcessEnds, TypeOK, topics, stream, history
  <1>17. CASE DrainShort
    <2>1. TaskFails /\ UNCHANGED <<topics, stream, parked, healthy, history>>
      BY <1>17 DEF DrainShort
    <2> QED BY <2>1, TaskFailsType DEF TypeOK, topics, stream, history
  <1>18. ASSUME NEW e \in Events, StreamStartsOver(e) PROVE TypeOK'
    <2>1. StreamHandles(e)
      BY <1>18 DEF StreamStartsOver
    <2>2. /\ dlq \subseteq dlq' /\ dlq' \subseteq Letters /\ IsFiniteSet(dlq')
          /\ tables' \subseteq Events
      BY <2>1, StreamOutcome
    <2>3. offered' \in [Events -> 0..MaxHistory]
      BY <1>18 DEF StreamStartsOver, TypeOK
    <2>4. UNCHANGED <<raw, old, parked, healthy, run, process, replays>>
      BY <1>18 DEF StreamStartsOver
    <2> QED BY <2>2, <2>3, <2>4 DEF TypeOK, run, process, history
  <1>19. CASE UNCHANGED vars
    BY <1>19 DEF vars, TypeOK, topics, stream, run, process, history
  <1> QED
    BY <1>1, <1>2, <1>3, <1>4, <1>5, <1>6, <1>7, <1>8, <1>9, <1>10, <1>11,
       <1>12, <1>13, <1>14, <1>15, <1>16, <1>17, <1>18, <1>19
    DEF Next, DagStep

-----------------------------------------------------------------------------
(* What has become of the letters of the running drain.                    *)

(* A drain that is not running has no letters, one that goes on keeps      *)
(* those it has read, and with them their routes.                          *)
LEMMA RoutesKept ==
  ASSUME work' = work
  PROVE  ToReinject' = ToReinject /\ ToWrite' = ToWrite /\ ToPark' = ToPark
  BY DEF ToReinject, ToWrite, ToPark, Exhausted

(* Steps that leave the drain alone and take nothing from the tables.      *)
LEMMA DrainUndisturbed ==
  ASSUME DrainFits, UNCHANGED <<process, parked>>, tables \subseteq tables'
  PROVE  DrainFits'
  <1>1. /\ UNCHANGED <<step, work, failed, unflushed, acked, parked>>
        /\ ToReinject' = ToReinject /\ ToWrite' = ToWrite /\ ToPark' = ToPark
    BY RoutesKept DEF process
  <1> QED BY <1>1 DEF DrainFits, NothingRead, NothingDone

LEMMA DrainOver ==
  ASSUME ProcessEnds
  PROVE  DrainFits'
  BY DEF ProcessEnds, DrainFits, NothingRead, NothingDone

LEMMA FitsStep == TypeOK /\ DrainFits /\ [Next]_vars => DrainFits'
  <1> SUFFICES ASSUME TypeOK, DrainFits, [Next]_vars PROVE DrainFits'
    OBVIOUS
  <1>1. ASSUME NEW e \in Events, GrowsOld(e) PROVE DrainFits'
    BY <1>1, DrainUndisturbed DEF GrowsOld
  <1>2. ASSUME NEW e \in Events, StreamReads(e) PROVE DrainFits'
    <2>1. StreamHandles(e) /\ UNCHANGED <<process, parked>>
      BY <1>2 DEF StreamReads
    <2> QED BY <2>1, StreamOutcome, DrainUndisturbed
  <1>3. CASE StreamRestarts
    BY <1>3, DrainUndisturbed DEF StreamRestarts
  <1>4. CASE HealthChanges
    BY <1>4, DrainUndisturbed DEF HealthChanges, stream
  <1>5. CASE Schedule
    BY <1>5, DrainUndisturbed DEF Schedule, stream
  <1>6. ASSUME NEW S \in SUBSET dlq, Inspect(S) PROVE DrainFits'
    BY <1>6, DrainUndisturbed DEF Inspect, stream
  <1>7. ASSUME NEW S \in SUBSET dlq, BreakerTrips(S) PROVE DrainFits'
    BY <1>7, DrainOver DEF BreakerTrips, TaskFails
  <1>8. CASE TaskDies
    BY <1>8, DrainOver DEF TaskDies, TaskFails
  <1>9. CASE Report
    BY <1>9, DrainUndisturbed DEF Report, stream
  <1>10. CASE NothingToDrain
    BY <1>10, DrainUndisturbed DEF NothingToDrain, stream
  <1>11. ASSUME NEW S \in SUBSET dlq, DrainReads(S) PROVE DrainFits'
    BY <1>11 DEF DrainReads, DrainFits, NothingRead, NothingDone
  <1>12. ASSUME NEW D \in SUBSET ToReinject, NEW F \in SUBSET ToReinject,
                Reinject(D, F)
         PROVE  DrainFits'
    <2>1. /\ step' = "direct" /\ work' = work
          /\ failed' = F /\ unflushed' = ToReinject \ (D \cup F)
          /\ D \subseteq acked'
      BY <1>12 DEF Reinject, Replay
    <2> QED BY <2>1, RoutesKept DEF DrainFits
  <1>13. ASSUME NEW l \in unflushed, LateDelivery(l) PROVE DrainFits'
    <2>1. /\ unflushed' = unflushed \ {l} /\ acked' = acked \cup {l}
          /\ UNCHANGED <<step, work, failed, tables, parked>>
      BY <1>13 DEF LateDelivery, Replay, stream
    <2>2. step \notin {"none", "reinject"}
      BY DEF DrainFits, NothingDone
    <2> QED BY <2>1, <2>2, RoutesKept DEF DrainFits
  <1>14. ASSUME NEW W \in SUBSET ToWrite, NEW A \in SUBSET (ToWrite \ W),
                DirectWrite(W, A)
         PROVE  DrainFits'
    <2>1. /\ step = "direct" /\ step' = "park"
          /\ tables' = tables \cup EventsOf(W \cup A)
          /\ failed' = failed \cup (ToWrite \ W)
          /\ UNCHANGED <<work, unflushed, acked>>
      BY <1>14 DEF DirectWrite
    <2>2. \A l \in ToWrite : l \in failed' \/ l.event \in tables'
      BY <2>1 DEF EventsOf
    <2> QED BY <2>1, <2>2, RoutesKept DEF DrainFits
  <1>15. CASE Park
    <2>1. /\ step = "park" /\ step' = "result"
          /\ parked' = parked \cup ToPark
          /\ UNCHANGED <<tables, work, failed, unflushed, acked>>
      BY <1>15 DEF Park, stream
    <2> QED BY <2>1, RoutesKept DEF DrainFits
  <1>16. CASE DrainSucceeds
    BY <1>16, DrainOver DEF DrainSucceeds
  <1>17. CASE DrainShort
    BY <1>17, DrainOver DEF DrainShort, TaskFails
  <1>18. ASSUME NEW e \in Events, StreamStartsOver(e) PROVE DrainFits'
    <2>1. StreamHandles(e) /\ UNCHANGED <<process, parked>>
      BY <1>18 DEF StreamStartsOver
    <2> QED BY <2>1, StreamOutcome, DrainUndisturbed
  <1>19. CASE UNCHANGED vars
    BY <1>19, DrainUndisturbed DEF vars, stream
  <1> QED
    BY <1>1, <1>2, <1>3, <1>4, <1>5, <1>6, <1>7, <1>8, <1>9, <1>10, <1>11,
       <1>12, <1>13, <1>14, <1>15, <1>16, <1>17, <1>18, <1>19
    DEF Next, DagStep

-----------------------------------------------------------------------------
(* Letters and what pays for them.                                         *)

LEMMA PaidInit == Init => LettersArePaidFor
  <1> SUFFICES ASSUME Init, NEW e \in Events
               PROVE  Statements * (Cardinality(Rejections(e)) + raw[e])
                        + Cardinality(Refusals(e)) <= Statements * offered[e]
    BY DEF LettersArePaidFor
  <1>1. Rejections(e) = {} /\ Refusals(e) = {}
    BY DEF Init, Rejections, Refusals, LettersAt, Letter
  <1>2. Cardinality(Rejections(e)) = 0 /\ Cardinality(Refusals(e)) = 0
    BY <1>1, FS_EmptySet
  <1>3. raw[e] = offered[e] /\ raw[e] \in Nat /\ Statements \in Nat
    BY ReplayAssumption DEF Init
  <1>4. 0 + raw[e] = raw[e] /\ Statements * raw[e] \in Nat
    BY <1>3, Multiples
  <1> QED BY <1>2, <1>3, <1>4

(* The balance of one event: a is what its rejections and refusals use, m  *)
(* what they grow by, b what it was offered.                               *)
LEMMA Balance ==
  ASSUME NEW k \in Nat, NEW r \in Nat, NEW q \in Nat, NEW s \in Nat, NEW o \in Nat,
         k * (r + q) + s <= k * o,
         NEW r2 \in Nat, NEW q2 \in Nat, NEW s2 \in Nat, NEW o2 \in Nat, NEW i \in {0, 1},
         r2 <= r + i, s2 <= s + k * (1 - i), q2 + 1 + o <= q + o2
  PROVE  k * (r2 + q2) + s2 <= k * o2
  <1>1. /\ k * (r + q) = k * r + k * q
        /\ k * (r2 + q2) = k * r2 + k * q2
        /\ k * (q2 + 1 + o) = k * q2 + k + k * o
        /\ k * (q + o2) = k * q + k * o2
        /\ k * (r + i) = k * r + k * i
        /\ k * (1 - i) = k - k * i
    OBVIOUS
  <1>2. k * r2 <= k * (r + i) /\ k * (q2 + 1 + o) <= k * (q + o2)
    BY Multiples
  <1>3. /\ k * r \in Nat /\ k * q \in Nat /\ k * r2 \in Nat /\ k * q2 \in Nat
        /\ k * o \in Nat /\ k * o2 \in Nat /\ k * i \in Nat
    OBVIOUS
  <1> QED BY <1>1, <1>2, <1>3

(* Putting letters back on trips.raw is paid for by the history. *)
LEMMA PaidReplay ==
  ASSUME TypeOK, LettersArePaidFor, NEW S, S \subseteq work, Replay(S), dlq' = dlq
  PROVE  LettersArePaidFor'
  <1> USE ReplayAssumption
  <1> SUFFICES ASSUME NEW e \in Events, offered'[e] < MaxHistory
               PROVE  Statements * (Cardinality(Rejections(e)) + raw'[e])
                        + Cardinality(Refusals(e)) <= Statements * offered'[e]
    <2>1. \A e : Rejections(e)' = Rejections(e) /\ Refusals(e)' = Refusals(e)
      BY DEF Rejections, Refusals, LettersAt
    <2> QED BY <2>1 DEF LettersArePaidFor
  <1> DEFINE r == Cardinality(Rejections(e))  s == Cardinality(Refusals(e))
  <1>1. PICK m \in Nat : /\ raw'[e] = Capped(raw[e] + m, MaxCopies)
                        /\ offered'[e] = Capped(offered[e] + m, MaxHistory)
    BY ReplayAdds
  <1>2. /\ raw[e] \in Nat /\ offered[e] \in Nat /\ r \in Nat /\ s \in Nat
        /\ Statements \in Nat /\ MaxCopies \in Nat /\ MaxHistory \in Nat
    BY LettersCount DEF TypeOK, Rejections, Refusals
  <1>3. /\ raw'[e] \in Nat /\ raw'[e] <= raw[e] + m
        /\ offered'[e] = offered[e] + m
    BY <1>1, <1>2 DEF Capped
  <1>4. Statements * (r + raw[e]) + s <= Statements * offered[e]
    BY <1>2, <1>3 DEF LettersArePaidFor
  <1> HIDE DEF r, s
  <1>5. /\ Statements * (r + raw'[e]) <= Statements * (r + raw[e] + m)
        /\ Statements * (r + raw[e] + m) = Statements * (r + raw[e]) + Statements * m
        /\ Statements * (offered[e] + m) = Statements * offered[e] + Statements * m
    BY <1>2, <1>3, Multiples
  <1>6. /\ Statements * (r + raw'[e]) \in Nat /\ Statements * (r + raw[e]) \in Nat
        /\ Statements * m \in Nat /\ Statements * offered[e] \in Nat
    BY <1>2, <1>3, Multiples
  <1>7. Statements * (r + raw'[e]) + s <= Statements * offered'[e]
    BY <1>2, <1>3, <1>4, <1>5, <1>6
  <1> QED BY <1>7 DEF r, s

(* A message that is handled is paid for, be it because it leaves the      *)
(* topic or because the batch that begins again counts once more.          *)
LEMMA PaidStream ==
  ASSUME TypeOK, LettersArePaidFor, NEW e \in Events, StreamHandles(e),
         \A f \in Events \ {e} : raw'[f] = raw[f] /\ offered'[f] = offered[f],
         raw'[e] \in Nat, offered'[e] \in Nat,
         raw'[e] + 1 + offered[e] <= raw[e] + offered'[e],
         offered[e] <= offered'[e]
  PROVE  LettersArePaidFor'
  <1> USE ReplayAssumption
  <1> SUFFICES ASSUME NEW f \in Events, offered'[f] < MaxHistory
               PROVE  Statements * (Cardinality(Rejections(f)') + raw'[f])
                        + Cardinality(Refusals(f)') <= Statements * offered'[f]
    BY DEF LettersArePaidFor
  <1>1. CASE f # e
    <2>1. Rejections(f)' = Rejections(f) /\ Refusals(f)' = Refusals(f)
      BY <1>1, StreamOutcome
    <2> QED BY <1>1, <2>1 DEF LettersArePaidFor
  <1>2. CASE f = e
    <2> DEFINE r == Cardinality(Rejections(e))  s == Cardinality(Refusals(e))
               r2 == Cardinality(Rejections(e)')  s2 == Cardinality(Refusals(e)')
    <2>1. /\ raw[e] \in Nat /\ offered[e] \in Nat /\ r \in Nat /\ s \in Nat
          /\ Statements \in Nat /\ MaxHistory \in Nat
      BY LettersCount DEF TypeOK, Rejections, Refusals
    <2>2. r2 \in Nat /\ s2 \in Nat
      <3>1. IsFiniteSet(dlq')
        BY StreamOutcome
      <3>2. Rejections(e)' \subseteq dlq' /\ Refusals(e)' \subseteq dlq'
        BY DEF Rejections, Refusals, LettersAt
      <3> QED BY <3>1, <3>2, FS_Subset, FS_CardinalityType
    <2>3. PICK i \in {0, 1} : r2 <= r + i /\ s2 <= s + Statements * (1 - i)
      BY StreamOutcome
    <2>4. Statements * (r + raw[e]) + s <= Statements * offered[e]
      <3>1. offered[e] < MaxHistory
        BY <1>2, <2>1
      <3> QED BY <3>1 DEF LettersArePaidFor
    <2> HIDE DEF r, s, r2, s2
    <2>5. Statements * (r2 + raw'[e]) + s2 <= Statements * offered'[e]
      BY <2>1, <2>2, <2>3, <2>4, Balance
    <2> QED BY <1>2, <2>5 DEF r2, s2
  <1> QED BY <1>1, <1>2

LEMMA PaidStep == TypeOK /\ LettersArePaidFor /\ [Next]_vars => LettersArePaidFor'
  <1> SUFFICES ASSUME TypeOK, LettersArePaidFor, [Next]_vars
               PROVE  LettersArePaidFor'
    OBVIOUS
  <1>1. ASSUME UNCHANGED <<topics, offered>> PROVE LettersArePaidFor'
    BY <1>1 DEF LettersArePaidFor, Rejections, Refusals, LettersAt, topics
  <1>2. ASSUME NEW e \in Events, StreamReads(e) PROVE LettersArePaidFor'
    <2>1. StreamHandles(e) /\ raw[e] > 0 /\ raw' = [raw EXCEPT ![e] = @ - 1]
          /\ offered' = offered
      BY <1>2 DEF StreamReads, history
    <2>2. raw[e] \in Nat /\ offered[e] \in Nat
      BY DEF TypeOK
    <2>3. /\ raw'[e] = raw[e] - 1
          /\ \A f \in Events \ {e} : raw'[f] = raw[f]
      BY <2>1 DEF TypeOK
    <2> QED BY <2>1, <2>2, <2>3, PaidStream
  <1>3. ASSUME NEW D, NEW F, Reinject(D, F) PROVE LettersArePaidFor'
    <2>1. D \subseteq work /\ Replay(D) /\ dlq' = dlq
      BY <1>3, RoutesOfWork DEF Reinject
    <2> QED BY <2>1, PaidReplay
  <1>4. ASSUME NEW l, LateDelivery(l) PROVE LettersArePaidFor'
    <2>1. {l} \subseteq work /\ Replay({l}) /\ dlq' = dlq
      BY <1>4 DEF LateDelivery, TypeOK
    <2> QED BY <2>1, PaidReplay
  <1>5. ASSUME NEW e \in Events, GrowsOld(e) PROVE UNCHANGED <<topics, offered>>
    BY <1>5 DEF GrowsOld, history
  <1>6. ASSUME StreamRestarts \/ HealthChanges PROVE UNCHANGED <<topics, offered>>
    BY <1>6 DEF StreamRestarts, HealthChanges, history
  <1>7. ASSUME NEW S, Inspect(S) \/ BreakerTrips(S) \/ DrainReads(S)
        PROVE  UNCHANGED <<topics, offered>>
    BY <1>7 DEF Inspect, BreakerTrips, DrainReads, history
  <1>8. ASSUME \/ Schedule \/ TaskDies \/ Report \/ NothingToDrain
               \/ Park \/ DrainSucceeds \/ DrainShort
        PROVE  UNCHANGED <<topics, offered>>
    BY <1>8 DEF Schedule, TaskDies, Report, NothingToDrain, Park, DrainSucceeds,
                DrainShort, history
  <1>9. ASSUME NEW W, NEW A, DirectWrite(W, A) PROVE UNCHANGED <<topics, offered>>
    BY <1>9 DEF DirectWrite, history
  <1>10. ASSUME UNCHANGED vars PROVE UNCHANGED <<topics, offered>>
    BY <1>10 DEF vars, history
  <1>11. ASSUME NEW e \in Events, StreamStartsOver(e) PROVE LettersArePaidFor'
    <2>1. StreamHandles(e) /\ raw' = raw /\ offered' = [offered EXCEPT ![e] = @ + 1]
      BY <1>11 DEF StreamStartsOver
    <2>2. raw[e] \in Nat /\ offered[e] \in Nat
      BY DEF TypeOK
    <2>3. /\ offered'[e] = offered[e] + 1
          /\ \A f \in Events \ {e} : offered'[f] = offered[f]
      BY <2>1 DEF TypeOK
    <2> QED BY <2>1, <2>2, <2>3, PaidStream
  <1> QED
    BY <1>1, <1>2, <1>3, <1>4, <1>5, <1>6, <1>7, <1>8, <1>9, <1>10, <1>11
    DEF Next, DagStep

-----------------------------------------------------------------------------
(* The accounting of a drain.                                              *)

LEMMA DisjointUnion ==
  ASSUME NEW S, NEW T, IsFiniteSet(S), IsFiniteSet(T), S \cap T = {}
  PROVE  Cardinality(S \cup T) = Cardinality(S) + Cardinality(T)
  <1>1. Cardinality(S \cap T) = 0
    BY FS_EmptySet
  <1>2. Cardinality(S \cup T) = Cardinality(S) + Cardinality(T) - Cardinality(S \cap T)
    BY FS_Union
  <1>3. Cardinality(S) \in Nat /\ Cardinality(T) \in Nat
    BY FS_CardinalityType
  <1> QED BY <1>1, <1>2, <1>3

LEMMA UnaccountedIsFailed ==
  ASSUME TypeOK
  PROVE  /\ Unaccounted = Cardinality(failed \cap ToReinject) + Cardinality(failed \cap ToWrite)
         /\ Unaccounted = 0 => failed \cap (ToReinject \cup ToWrite) = {}
  <1> DEFINE R == ToReinject  W == ToWrite  P == ToPark
  <1>1. IsFiniteSet(work)
    BY FS_Subset DEF TypeOK
  <1>2. /\ IsFiniteSet(R) /\ IsFiniteSet(W) /\ IsFiniteSet(P)
        /\ IsFiniteSet(R \cup W)
        /\ IsFiniteSet(failed \cap R) /\ IsFiniteSet(failed \cap W)
        /\ IsFiniteSet(W \ failed)
    <2>1. /\ R \subseteq work /\ W \subseteq work /\ P \subseteq work
          /\ R \cup W \subseteq work
          /\ failed \cap R \subseteq work /\ failed \cap W \subseteq work
          /\ W \ failed \subseteq work
      BY RoutesOfWork
    <2> QED BY <1>1, <2>1, FS_Subset
  <1>3. /\ Cardinality(R) \in Nat /\ Cardinality(W) \in Nat /\ Cardinality(P) \in Nat
        /\ Cardinality(failed \cap R) \in Nat /\ Cardinality(failed \cap W) \in Nat
        /\ Cardinality(W \ failed) \in Nat
    BY <1>2, FS_CardinalityType
  <1>4. Cardinality(work) = Cardinality(R) + Cardinality(W) + Cardinality(P)
    <2>1. Cardinality(R \cup W) = Cardinality(R) + Cardinality(W)
      BY <1>2, RoutesOfWork, DisjointUnion
    <2>2. (R \cup W) \cap P = {} /\ work = (R \cup W) \cup P
      BY RoutesOfWork
    <2>3. Cardinality(work) = Cardinality(R \cup W) + Cardinality(P)
      BY <1>2, <2>2, DisjointUnion
    <2> QED BY <2>1, <2>3
  <1>5. Cardinality(W) = Cardinality(W \ failed) + Cardinality(failed \cap W)
    <2>1. (W \ failed) \cap (failed \cap W) = {} /\ W = (W \ failed) \cup (failed \cap W)
      OBVIOUS
    <2> QED BY <1>2, <2>1, DisjointUnion
  <1>6. Unaccounted = Cardinality(failed \cap R) + Cardinality(failed \cap W)
    BY <1>3, <1>4, <1>5 DEF Unaccounted, Reinjected, DirectWritten
  <1>7. ASSUME Unaccounted = 0 PROVE failed \cap (R \cup W) = {}
    <2>1. Cardinality(failed \cap R) = 0 /\ Cardinality(failed \cap W) = 0
      BY <1>3, <1>6, <1>7
    <2>2. failed \cap R = {} /\ failed \cap W = {}
      BY <1>2, <2>1, FS_EmptySet
    <2> QED BY <2>2
  <1> QED BY <1>6, <1>7

LEMMA InvGivesHonest == TypeOK /\ DrainFits => DrainIsHonest
  <1> SUFFICES ASSUME TypeOK, DrainFits, step = "result", Unaccounted = 0,
                      NEW l \in work
               PROVE  Recovered(l) \/ l \in unflushed
    BY DEF DrainIsHonest
  <1>1. failed \cap (ToReinject \cup ToWrite) = {}
    BY UnaccountedIsFailed
  <1>2. CASE l \in ToReinject
    BY <1>1, <1>2 DEF DrainFits, Recovered
  <1>3. CASE l \in ToWrite
    <2>1. l.event \in tables
      BY <1>1, <1>3 DEF DrainFits
    <2>2. l.stage = "late_event"
      BY <1>3 DEF ToWrite, DirectWriteStages
    <2> QED BY <2>1, <2>2 DEF Recovered
  <1>4. CASE l \in ToPark
    BY <1>4 DEF DrainFits, Recovered
  <1> QED BY <1>2, <1>3, <1>4, RoutesOfWork

-----------------------------------------------------------------------------
(* The inductive invariant: where the drain is decides what has become of  *)
(* its letters, and letters are paid for (ReplayInv of DlqReplay).         *)
THEOREM ReplayInvariant == Spec => []ReplayInv
  <1>1. Init => ReplayInv
    <2>1. Init => DrainFits
      BY DEF Init, DrainFits, NothingRead, NothingDone
    <2> QED BY <2>1, InitType, PaidInit DEF ReplayInv
  <1>2. ReplayInv /\ [Next]_vars => ReplayInv'
    BY TypeStep, FitsStep, PaidStep DEF ReplayInv
  <1> QED BY <1>1, <1>2, PTL DEF Spec

(* The variables keep their types in every reachable state. *)
THEOREM ReplayTypeCorrect == Spec => []TypeOK
  <1>1. ReplayInv => TypeOK
    BY DEF ReplayInv
  <1> QED BY <1>1, ReplayInvariant, PTL

(* A drain that reports nothing unaccounted has re-injected, written or    *)
(* parked every letter it read, but for what its flush left behind: the    *)
(* subtraction in dlq_tools.py:282-283 counts exactly the failures.        *)
THEOREM ReplayHonest == Spec => []DrainIsHonest
  <1>1. ReplayInv => DrainIsHonest
    BY InvGivesHonest DEF ReplayInv
  <1> QED BY <1>1, ReplayInvariant, PTL

(* The letters of an event are paid for by the messages of it that were    *)
(* put on trips.raw and by the batches begun again, at the price of one    *)
(* rejection or of one refusal for each statement: a direct write, a park, *)
(* a failed or repeated drain adds none.                                   *)
THEOREM ReplayPaidFor == Spec => []LettersArePaidFor
  <1>1. ReplayInv => LettersArePaidFor
    BY DEF ReplayInv
  <1> QED BY <1>1, ReplayInvariant, PTL
=============================================================================
