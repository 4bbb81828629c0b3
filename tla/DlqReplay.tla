----------------------------- MODULE DlqReplay -----------------------------
(***************************************************************************)
(* The way out of the dead-letter topic: the drain of                      *)
(* src/replay/dlq_tools.py (read everything, re-inject, write directly or  *)
(* park, account) and the DAG of src/airflow/dags/dlq_drain.py that runs   *)
(* it every 15 minutes, with the stream between trips.raw and trips.dlq    *)
(* reduced to what it does to one record.                                  *)
(*                                                                         *)
(* trips.dlq is a log that is read from its start every time and that      *)
(* nothing truncates here (its retention is 7 days).  A letter is one      *)
(* message of it; the copy number tells apart the letters that one stage   *)
(* writes for one event.  The order within the log is immaterial.          *)
(***************************************************************************)
EXTENDS Integers, FiniteSets

CONSTANTS
  Events,      (* the trip events, one per trip_id                          *)
  MaxReplays,  (* --max-replays                                             *)
  Ceiling,     (* DLQ_CIRCUIT_BREAKER                                       *)
  Retries,     (* "retries" of DEFAULT_ARGS                                 *)
  Statements,  (* statements of a row: one for each of ALL_TABLES           *)
  MaxCopies,   (* bound: more letters of one stage and event, and more      *)
               (* messages of an event on trips.raw, are not told apart     *)
  MaxHistory,  (* bound: what the stream was offered is not counted further *)
  MaxCounted   (* bound: the drains that replayed it are not counted further *)

(* clean: can be written.  refused: Cassandra rejects it every time.       *)
(* defective: _validate rejects it.  garbled: not JSON of the schema.      *)
Kinds == {"clean", "refused", "defective", "garbled"}

ASSUME ReplayAssumption ==
  /\ IsFiniteSet(Events)
  /\ \A e \in Events : e.kind \in Kinds
  /\ MaxReplays \in Nat
  /\ Ceiling \in Nat
  /\ Retries \in Nat
  /\ Statements \in Nat \ {0}
  /\ MaxCopies \in Nat \ {0}
  /\ MaxHistory \in Nat \ {0} /\ MaxCounted \in Nat

VARIABLES
  raw,         (* messages of an event on trips.raw that the stream has not *)
               (* committed yet                                             *)
  old,         (* events that the stream's watermark has left behind        *)
  tables,      (* events that are complete in Cassandra                     *)
  dlq,         (* the letters of trips.dlq                                  *)
  parked,      (* letters in the files of --park-dir                        *)
  healthy,     (* brokers and Cassandra answer in time                      *)
  dag,         (* task of the current DAG run                               *)
  tries,       (* retries this task has used                                *)
  inspected,   (* XCom of inspect_dlq: the number of records it counted     *)
  step,        (* where the drain process is                                *)
  work,        (* the letters it has read                                   *)
  failed,      (* those counted as failed to re-inject or to write          *)
  unflushed,   (* those neither acknowledged nor failed after flush(60)     *)
  acked,       (* history: those this process got onto trips.raw            *)
  offered,     (* history: messages of an event put on trips.raw, and       *)
               (* batches with one of them that were begun again            *)
  replays      (* history: drains that put a letter of an event on trips.raw *)

topics == <<raw, dlq>>
stream == <<old, tables>>
process == <<step, work, failed, unflushed, acked>>
run == <<dag, tries, inspected>>
history == <<offered, replays>>
vars == <<topics, stream, parked, healthy, run, process, history>>

Stages == {"parse", "late_event", "cassandra_sink", "producer"}
(* Mutant: "just replay everything", late events too. *)
ReinjectStagesLate == {"cassandra_sink", "producer", "late_event"}

ReinjectStages == {"cassandra_sink", "producer"}
DirectWriteStages == {"late_event"}

Copies == 1..MaxCopies
Letter(e, s, c) == [event |-> e, stage |-> s, copy |-> c, replay_count |-> 0]
Letters == [event : Events, stage : Stages, copy : Copies, replay_count : Nat]
EventsOf(S) == {l.event : l \in S}

(* Letters of one event, and the n next ones of a stage.                   *)
LettersAt(e, S) == {l \in dlq : l.event = e /\ l.stage \in S}
Quarantine(e, s, n) ==
  LET used == Cardinality(LettersAt(e, {s}))
  IN  dlq' = dlq \cup {Letter(e, s, c) : c \in Copies \cap (used + 1)..(used + n)}

-----------------------------------------------------------------------------
(* An event is on trips.raw, or the producer was told that it is not and   *)
(* wrote a dead letter, or both: a message that expired in the client may  *)
(* be on the topic.  What the producer could encode is not garbled.        *)
Init ==
  /\ raw \in [Events -> 0..1]
  /\ \E S \in SUBSET {e \in Events : e.kind # "garbled"} :
       /\ \A e \in Events \ S : raw[e] = 1
       /\ dlq = {Letter(e, "producer", 1) : e \in S}
  /\ old = {} /\ tables = {} /\ parked = {}
  /\ healthy = TRUE
  /\ dag = "idle" /\ tries = 0 /\ inspected = 0
  /\ step = "none" /\ work = {}
  /\ failed = {} /\ unflushed = {} /\ acked = {}
  /\ offered = raw
  /\ replays = [e \in Events |-> 0]

(* The environment: time passes for what has an event time, the driver     *)
(* restarts without its watermark, the cluster fails and recovers.         *)
GrowsOld(e) ==
  /\ e.kind # "garbled" /\ e \notin old
  /\ old' = old \cup {e}
  /\ UNCHANGED <<topics, tables, parked, healthy, run, process, history>>

StreamRestarts ==
  /\ old' = {}
  /\ UNCHANGED <<topics, tables, parked, healthy, run, process, history>>

HealthChanges ==
  /\ healthy' = ~healthy
  /\ UNCHANGED <<topics, stream, parked, run, process, history>>

(* What the stream does with one message, in the order of _process_batch:  *)
(* parse, late filter, validation, write.  A row that is not written has a *)
(* letter for each statement that failed; one that timed out may have been *)
(* applied.                                                                *)
StreamHandles(e) ==
  \/ e.kind = "garbled" /\ Quarantine(e, "parse", 1) /\ UNCHANGED tables
  \/ /\ e.kind # "garbled" /\ e \in old
     /\ Quarantine(e, "late_event", 1) /\ UNCHANGED tables
  \/ /\ e.kind = "defective" /\ e \notin old
     /\ Quarantine(e, "parse", 1) /\ UNCHANGED tables
  \/ /\ e.kind = "clean" /\ e \notin old
     /\ tables' = tables \cup {e} /\ UNCHANGED dlq
  \/ /\ e.kind = "refused" /\ e \notin old
     /\ \E n \in 1..Statements : Quarantine(e, "cassandra_sink", n)
     /\ UNCHANGED tables
  \/ /\ e.kind = "clean" /\ e \notin old /\ ~healthy
     /\ \E n \in 1..Statements : Quarantine(e, "cassandra_sink", n)
     /\ tables' \in {tables, tables \cup {e}}

(* The batch of the message is committed. *)
StreamReads(e) ==
  /\ raw[e] > 0
  /\ raw' = [raw EXCEPT ![e] = @ - 1]
  /\ StreamHandles(e)
  /\ UNCHANGED <<old, parked, healthy, run, process, history>>

(* The driver dies, or its write of dead letters fails, after this message *)
(* and before the commit: the batch will be begun again.                   *)
StreamStartsOver(e) ==
  /\ raw[e] > 0 /\ offered[e] < MaxHistory
  /\ StreamHandles(e)
  /\ offered' = [offered EXCEPT ![e] = @ + 1]
  /\ UNCHANGED <<raw, old, parked, healthy, run, process, replays>>

-----------------------------------------------------------------------------
(* The DAG: inspect_dlq, drain_dlq, report_drain, each with its retries.   *)

(* read_all stops when nothing arrives for the idle timeout, which a slow  *)
(* rebalance or broker makes happen anywhere.                              *)
ReadAll(S) == S \subseteq dlq /\ (healthy => S = dlq)

ProcessEnds ==
  /\ step' = "none" /\ work' = {}
  /\ failed' = {} /\ unflushed' = {} /\ acked' = {}

(* Mutant: the retries start again with every failure. *)
TaskFailsForever ==
  /\ tries' = 0 /\ UNCHANGED <<dag, inspected>>
  /\ ProcessEnds

(* A task raised: Airflow runs it again, from the XComs of the tasks       *)
(* before it, or gives the DAG run up.  A drain process is gone.           *)
TaskFails ==
  /\ IF tries < Retries
     THEN tries' = tries + 1 /\ UNCHANGED <<dag, inspected>>
     ELSE tries' = 0 /\ dag' = "idle" /\ inspected' = 0
  /\ ProcessEnds

Schedule ==
  /\ dag = "idle"
  /\ dag' = "inspect"
  /\ UNCHANGED <<topics, stream, parked, healthy, tries, inspected, process, history>>

Inspect(S) ==
  /\ dag = "inspect" /\ ReadAll(S)
  /\ Cardinality(S) <= Ceiling
  /\ inspected' = Cardinality(S)
  /\ dag' = "drain" /\ tries' = 0
  /\ UNCHANGED <<topics, stream, parked, healthy, process, history>>

(* The circuit breaker: an alert, and the task raises. *)
BreakerTrips(S) ==
  /\ dag = "inspect" /\ ReadAll(S)
  /\ Cardinality(S) > Ceiling
  /\ TaskFails
  /\ UNCHANGED <<topics, stream, parked, healthy, history>>

(* A broker error, or no connection to Cassandra, or a time-out of the     *)
(* tool: what was done so far stays done.                                  *)
TaskDies ==
  /\ ~healthy
  /\ dag \in {"inspect", "drain"}
  /\ step # "result"
  /\ TaskFails
  /\ UNCHANGED <<topics, stream, parked, healthy, history>>

Report ==
  /\ dag = "report"
  /\ dag' = "idle" /\ inspected' = 0
  /\ UNCHANGED <<topics, stream, parked, healthy, tries, process, history>>

-----------------------------------------------------------------------------
(* The drain. *)

(* Nothing was inspected, or the drain itself reads an empty topic: the    *)
(* result has no field "unaccounted", which passes for zero.               *)
NothingToDrain ==
  /\ dag = "drain" /\ step = "none"
  /\ inspected = 0 \/ ReadAll({})
  /\ dag' = "report" /\ tries' = 0
  /\ UNCHANGED <<topics, stream, parked, healthy, inspected, process, history>>

DrainReads(S) ==
  /\ dag = "drain" /\ step = "none" /\ inspected > 0
  /\ ReadAll(S) /\ S # {}
  /\ work' = S
  /\ step' = "reinject"
  /\ UNCHANGED <<topics, stream, parked, healthy, run, failed, unflushed,
                 acked, history>>

Exhausted(l) == l.replay_count >= MaxReplays
ToReinject == {l \in work : ~Exhausted(l) /\ l.stage \in ReinjectStages}
ToWrite == {l \in work : /\ ~Exhausted(l)
                         /\ l.stage \notin ReinjectStages
                         /\ l.stage \in DirectWriteStages}
ToPark == work \ (ToReinject \cup ToWrite)

Capped(n, bound) == IF n < bound THEN n ELSE bound
Replay(S) ==
  LET added(e) == Cardinality({l \in S : l.event = e})
  IN  /\ raw' = [e \in Events |-> Capped(raw[e] + added(e), MaxCopies)]
      /\ offered' = [e \in Events |-> Capped(offered[e] + added(e), MaxHistory)]
  /\ acked' = acked \cup S
  /\ replays' = [e \in Events |->
       IF e \in EventsOf(S) \ EventsOf(acked)
       THEN Capped(replays[e] + 1, MaxCounted) ELSE replays[e]]

(* Mutant: the delivery callback does not look at the error. *)
ReinjectIgnoringErrors(D, F) ==
  /\ step = "reinject"
  /\ D \subseteq ToReinject /\ F \subseteq ToReinject
  /\ healthy => D = ToReinject /\ F = {}
  /\ Replay(D)
  /\ unflushed' = ToReinject \ (D \cup F)
  /\ step' = "direct"
  /\ UNCHANGED <<dlq, stream, parked, healthy, run, work, failed>>

(* Every letter is produced and flush(60) serves the callbacks it can: D   *)
(* is on trips.raw, F was reported as failed (a message that timed out may *)
(* be on the topic as well), and the rest is still on its way.             *)
Reinject(D, F) ==
  /\ step = "reinject"
  /\ D \subseteq ToReinject /\ F \subseteq ToReinject
  /\ healthy => D = ToReinject /\ F = {}
  /\ Replay(D)
  /\ failed' = F
  /\ unflushed' = ToReinject \ (D \cup F)
  /\ step' = "direct"
  /\ UNCHANGED <<dlq, stream, parked, healthy, run, work>>

(* The client's thread goes on after the flush, while the process lives. *)
LateDelivery(l) ==
  /\ l \in unflushed
  /\ Replay({l})
  /\ unflushed' = unflushed \ {l}
  /\ UNCHANGED <<dlq, stream, parked, healthy, run, step, work, failed>>

(* Mutant: a letter that cannot be written goes back to trips.dlq. *)
DirectWriteRequeueing(W, A) ==
  /\ step = "direct"
  /\ LET can == {l \in ToWrite : l.event.kind = "clean"}
     IN  W \subseteq can /\ A \subseteq can \ W /\ (healthy => W = can)
  /\ tables' = tables \cup EventsOf(W \cup A)
  /\ failed' = failed \cup (ToWrite \ W)
  /\ \/ W = ToWrite /\ UNCHANGED dlq
     \/ \E l \in ToWrite \ W : Quarantine(l.event, "late_event", 1)
  /\ step' = "park"
  /\ UNCHANGED <<raw, old, parked, healthy, run, work, unflushed, acked,
                 history>>

(* build_statements validates again and Cassandra may still refuse: W is   *)
(* written and A applied by a write that timed out.                        *)
DirectWrite(W, A) ==
  /\ step = "direct"
  /\ LET can == {l \in ToWrite : l.event.kind = "clean"}
     IN  W \subseteq can /\ A \subseteq can \ W /\ (healthy => W = can)
  /\ tables' = tables \cup EventsOf(W \cup A)
  /\ failed' = failed \cup (ToWrite \ W)
  /\ step' = "park"
  /\ UNCHANGED <<topics, old, parked, healthy, run, work, unflushed, acked,
                 history>>

Park ==
  /\ step = "park"
  /\ parked' = parked \cup ToPark
  /\ step' = "result"
  /\ UNCHANGED <<topics, stream, healthy, run, work, failed, unflushed, acked, history>>

(* The result of drain, counted as it counts. *)
Reinjected == Cardinality(ToReinject) - Cardinality(failed \cap ToReinject)
DirectWritten == Cardinality(ToWrite \ failed)
Unaccounted ==
  Cardinality(work) - (Reinjected + DirectWritten + Cardinality(ToPark))

DrainSucceeds ==
  /\ step = "result" /\ Unaccounted = 0
  /\ dag' = "report" /\ tries' = 0
  /\ ProcessEnds
  /\ UNCHANGED <<topics, stream, parked, healthy, inspected, history>>

(* "drain lost N records": an alert, and the task raises. *)
DrainShort ==
  /\ step = "result" /\ Unaccounted # 0
  /\ TaskFails
  /\ UNCHANGED <<topics, stream, parked, healthy, history>>

-----------------------------------------------------------------------------
DagStep ==
  \/ Schedule
  \/ \E S \in SUBSET dlq : Inspect(S) \/ BreakerTrips(S)
  \/ TaskDies
  \/ Report
  \/ NothingToDrain
  \/ \E S \in SUBSET dlq : DrainReads(S)
  \/ \E D \in SUBSET ToReinject : \E F \in SUBSET ToReinject : Reinject(D, F)
  \/ \E W \in SUBSET ToWrite : \E A \in SUBSET (ToWrite \ W) : DirectWrite(W, A)
  \/ Park
  \/ DrainSucceeds
  \/ DrainShort

Next ==
  \/ \E e \in Events : GrowsOld(e) \/ StreamReads(e) \/ StreamStartsOver(e)
  \/ StreamRestarts
  \/ HealthChanges
  \/ DagStep
  \/ \E l \in unflushed : LateDelivery(l)

(* Airflow's scheduler and the stream run; nothing makes the cluster fail, *)
(* recover, or deliver after a flush.                                      *)
Fairness ==
  /\ WF_vars(DagStep)
  /\ \A e \in Events : WF_vars(StreamReads(e))

Spec == Init /\ [][Next]_vars
FairSpec == Spec /\ Fairness

-----------------------------------------------------------------------------
TypeOK ==
  /\ raw \in [Events -> 0..MaxCopies]
  /\ old \subseteq Events /\ tables \subseteq Events
  /\ dlq \subseteq Letters /\ IsFiniteSet(dlq) /\ parked \subseteq dlq
  /\ healthy \in BOOLEAN
  /\ dag \in {"idle", "inspect", "drain", "report"}
  /\ tries \in 0..Retries
  /\ inspected \in Nat
  /\ step \in {"none", "reinject", "direct", "park", "result"}
  /\ work \subseteq dlq /\ failed \subseteq work
  /\ unflushed \subseteq work /\ acked \subseteq work
  /\ offered \in [Events -> 0..MaxHistory]
  /\ replays \in [Events -> 0..MaxCounted]

(* The stream's letters of an event are paid for by what it was offered: a *)
(* message of the event, or a batch with one that is begun again, yields   *)
(* one letter if it is rejected or late, one for each statement if it is   *)
(* not written, and a message that waits can still yield as many.  A       *)
(* direct write, a park, a failed or repeated drain never adds a letter    *)
(* (dlq_tools.py: drain, stream_job.py: _process_batch).                   *)
Rejections(e) == LettersAt(e, {"parse", "late_event"})
Refusals(e) == LettersAt(e, {"cassandra_sink"})
LettersArePaidFor ==
  \A e \in Events :
    offered[e] < MaxHistory =>
      Statements * (Cardinality(Rejections(e)) + raw[e]) + Cardinality(Refusals(e))
        <= Statements * offered[e]

(* A drain that reports nothing unaccounted has put every letter it read   *)
(* on trips.raw, into the tables or into the parked file, except for what  *)
(* the flush left behind (dlq_tools.py:273-284).                           *)
Recovered(l) ==
  \/ l \in acked
  \/ l.stage = "late_event" /\ l.event \in tables
  \/ l \in parked
DrainIsHonest ==
  step = "result" /\ Unaccounted = 0 =>
    \A l \in work : Recovered(l) \/ l \in unflushed

(* Where the drain is decides what has become of each letter it read: a    *)
(* letter to re-inject is acknowledged, failed or on its way, a letter to  *)
(* write is in the tables or failed, a letter to park is in the file.      *)
NothingRead == work = {}
NothingDone == failed = {} /\ unflushed = {} /\ acked = {}
DrainFits ==
  /\ step = "none" => NothingRead
  /\ step \in {"none", "reinject"} => NothingDone
  /\ step \in {"direct", "park", "result"} =>
       ToReinject \subseteq acked \cup failed \cup unflushed
  /\ step \in {"park", "result"} =>
       \A l \in ToWrite : l \in failed \/ l.event \in tables
  /\ step = "result" => ToPark \subseteq parked

(* The inductive invariant of the drain. *)
ReplayInv == TypeOK /\ DrainFits /\ LettersArePaidFor

(* Whatever the failures were, an event that can be written is in the      *)
(* tables in the end once the cluster stays healthy: routing late events   *)
(* past the watermark is what keeps a drain from going round in circles    *)
(* (dlq_tools.py:13-20), also for an event that grows old on its way.  The *)
(* other condition is that the breaker lets the drains pass: no letter     *)
(* leaves the topic, so above the ceiling none of them ever runs.          *)
EventuallyRecovered ==
  \A e \in Events :
    e.kind = "clean" =>
      (<>[]healthy /\ [](Cardinality(dlq) <= Ceiling) => <>(e \in tables))

(* Every DAG run ends, healthy or not: the retries of a task are bounded,  *)
(* and max_active_runs=1 would let one run block all later ones.           *)
RunsEnd == dag # "idle" ~> dag = "idle"

-----------------------------------------------------------------------------
(* What the documentation says and the code does not do. *)

(* "replay_count: incremented each time the drain re-injects it"           *)
(* (dlq.py:40) and "A replay_count ceiling stops a record cycling between  *)
(* the DLQ and the topic forever" (dlq_tools.py:29-30).                    *)
ReplayCeiling == \A e \in Events : replays[e] <= MaxReplays
=============================================================================
