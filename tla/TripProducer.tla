---------------------------- MODULE TripProducer ----------------------------
(***************************************************************************)
(* The synthetic trip producer of src/producer/produce.py: one thread that *)
(* generates events, hands them to the Kafka client, serves its delivery   *)
(* reports when it polls, and turns what could not be delivered into dead  *)
(* letters; and the client, which sends from a bounded local queue in a    *)
(* thread of its own (librdkafka, external).                               *)
(*                                                                         *)
(* The payloads of a run are numbered in the order they are sent; a        *)
(* deliberate duplicate is a payload of its own.  A message occupies its   *)
(* place in the local queue until its delivery report has been served.     *)
(***************************************************************************)
EXTENDS Integers, FiniteSets

CONSTANTS
  MaxPayloads,   (* bound: payloads sent in a run                           *)
  QueueMax,      (* queue.buffering.max.messages                            *)
  MaxAttempts,   (* RETRY_MAX_ATTEMPTS                                      *)
  DuplicateRatio (* --duplicate-ratio is above zero                         *)

ASSUME ProducerAssumption ==
  /\ MaxPayloads \in Nat
  /\ QueueMax \in Nat \ {0}
  /\ MaxAttempts \in Nat \ {0}
  /\ DuplicateRatio \in BOOLEAN

VARIABLES
  pc,             (* where the thread is                                    *)
  last,           (* number of the last payload: generated + dup_emitted    *)
  dups,           (* payloads that repeat the one before them               *)
  tries,          (* failed attempts of the current _send                   *)
  queue,          (* messages in the client, those with a report included   *)
  delivered,      (* messages whose success report waits for a poll         *)
  expired,        (* messages whose failure report waits for a poll         *)
  stored,         (* messages the brokers have persisted                    *)
  fatal,          (* the client is in a fatal error: produce() raises       *)
  acked,          (* payloads counted by _on_delivery as acknowledged       *)
  failed,         (* payloads counted by it as failed                       *)
  failedPayloads, (* _failed_payloads                                       *)
  refused,        (* history: payloads given up by _send                    *)
  lettered,       (* payloads counted in dlq_count                          *)
  lost            (* payloads logged as "EVENT LOST"                        *)

counters == <<acked, failed, failedPayloads>>
fates == <<refused, lettered, lost>>
client == <<queue, delivered, expired, stored, fatal>>
vars == <<pc, last, dups, tries, client, counters, fates>>

Payloads == 1..MaxPayloads
Raw(n) == [payload |-> n, topic |-> "raw"]
Letter(n) == [payload |-> n, topic |-> "dlq"]
Messages == [payload : Payloads, topic : {"raw", "dlq"}]
RawOf(S) == {m.payload : m \in {x \in S : x.topic = "raw"}}
Letters(S) == {Letter(n) : n \in S}

Reports == delivered \cup expired
Unserved == queue \ Reports

-----------------------------------------------------------------------------
Init ==
  /\ pc = "top" /\ last = 0 /\ dups = {} /\ tries = 0
  /\ queue = {} /\ delivered = {} /\ expired = {} /\ stored = {}
  /\ fatal = FALSE
  /\ acked = {} /\ failed = {} /\ failedPayloads = {}
  /\ refused = {} /\ lettered = {} /\ lost = {}

(* Mutant: a failed payload is listed and not counted. *)
OnDeliveryUncounted ==
  /\ acked' = acked \cup RawOf(delivered)
  /\ failed' = failed
  /\ failedPayloads' = failedPayloads \cup RawOf(expired)

(* _on_delivery for every waiting report.  A dead letter is produced       *)
(* without a callback, so its report is dropped, whatever it says.         *)
OnDelivery ==
  /\ acked' = acked \cup RawOf(delivered)
  /\ failed' = failed \cup RawOf(expired)
  /\ failedPayloads' = failedPayloads \cup RawOf(expired)

(* poll(0), and what flush() does inside. *)
ServeReports ==
  /\ OnDelivery
  /\ queue' = Unserved
  /\ delivered' = {} /\ expired' = {}

(* _to_dlq for the payloads S, with the messages q in the queue: which of  *)
(* them the client takes.  The others raise BufferError or KafkaException  *)
(* and are logged as lost.                                                 *)
LetterSets(q, S) ==
  LET room == IF fatal THEN 0 ELSE QueueMax - Cardinality(q)
  IN  {T \in SUBSET S :
         Cardinality(T) = IF Cardinality(S) <= room THEN Cardinality(S) ELSE room}

ToDlq(q, S, T) ==
  /\ queue' = q \cup Letters(T)
  /\ lettered' = lettered \cup T
  /\ lost' = lost \cup (S \ T)

-----------------------------------------------------------------------------
(* The main loop: a burst of events, then poll(0) and _drain_failures().   *)

(* gen.next_event(): the deadline is looked at between bursts only. *)
Generate ==
  /\ pc \in {"top", "burst"}
  /\ last < MaxPayloads
  /\ last' = last + 1 /\ tries' = 0 /\ pc' = "send"
  /\ UNCHANGED <<dups, client, counters, fates>>

Duplicate ==
  /\ DuplicateRatio
  /\ pc = "burst" /\ last \notin dups
  /\ last < MaxPayloads
  /\ last' = last + 1 /\ tries' = 0 /\ pc' = "send"
  /\ dups' = dups \cup {last'}
  /\ UNCHANGED <<client, counters, fates>>

(* produce() takes the message: the attempt succeeds. *)
Enqueue ==
  /\ pc = "send"
  /\ ~fatal /\ Cardinality(queue) < QueueMax
  /\ queue' = queue \cup {Raw(last)}
  /\ pc' = "burst"
  /\ UNCHANGED <<last, dups, tries, delivered, expired, stored, fatal,
                 counters, fates>>

(* BufferError: the local queue is full.  The attempt serves reports       *)
(* before it fails, and call_with_retry sleeps before the next one.        *)
QueueFull ==
  /\ pc = "send"
  /\ ~fatal /\ Cardinality(queue) = QueueMax
  /\ tries + 1 < MaxAttempts
  /\ ServeReports
  /\ tries' = tries + 1
  /\ UNCHANGED <<pc, last, dups, stored, fatal, fates>>

(* The last attempt: RetriesExhausted, and a dead letter through the same  *)
(* queue.                                                                  *)
QueueStaysFull(T) ==
  /\ pc = "send"
  /\ ~fatal /\ Cardinality(queue) = QueueMax
  /\ tries + 1 >= MaxAttempts
  /\ T \in LetterSets(Unserved, {last})
  /\ OnDelivery
  /\ delivered' = {} /\ expired' = {}
  /\ ToDlq(Unserved, {last}, T)
  /\ refused' = refused \cup {last}
  /\ pc' = "burst"
  /\ UNCHANGED <<last, dups, tries, stored, fatal>>

(* KafkaException: no attempt can succeed, and no dead letter either. *)
ClientIsFatal ==
  /\ pc = "send" /\ fatal
  /\ ToDlq(queue, {last}, {})
  /\ refused' = refused \cup {last}
  /\ pc' = "burst"
  /\ UNCHANGED <<last, dups, tries, delivered, expired, stored, fatal, counters>>

(* The budget is not reached yet: poll(0) and sleep, nothing is drained. *)
IdlePoll ==
  /\ pc = "top" /\ Reports # {}
  /\ ServeReports
  /\ UNCHANGED <<pc, last, dups, tries, stored, fatal, fates>>

(* Mutant: the list is emptied before the reports of the poll are in it. *)
EndBurstDropping(T) ==
  /\ pc = "burst"
  /\ T \in LetterSets(Unserved, failedPayloads)
  /\ acked' = acked \cup RawOf(delivered)
  /\ failed' = failed \cup RawOf(expired)
  /\ failedPayloads' = {}
  /\ delivered' = {} /\ expired' = {}
  /\ ToDlq(Unserved, failedPayloads, T)
  /\ pc' = "top"
  /\ UNCHANGED <<last, dups, tries, stored, fatal, refused>>

(* The burst is over: poll(0), then _drain_failures() turns every failed   *)
(* payload into a dead letter.                                             *)
EndBurst(T) ==
  /\ pc = "burst"
  /\ LET pending == failedPayloads \cup RawOf(expired)
     IN  /\ T \in LetterSets(Unserved, pending)
         /\ ToDlq(Unserved, pending, T)
  /\ acked' = acked \cup RawOf(delivered)
  /\ failed' = failed \cup RawOf(expired)
  /\ failedPayloads' = {}
  /\ delivered' = {} /\ expired' = {}
  /\ pc' = "top"
  /\ UNCHANGED <<last, dups, tries, stored, fatal, refused>>

(* The deadline has passed, or stop() was called. *)
LeaveLoop ==
  /\ pc = "top"
  /\ pc' = "flush"
  /\ UNCHANGED <<last, dups, tries, client, counters, fates>>

-----------------------------------------------------------------------------
(* flush(flush_timeout), _drain_failures(), flush(10), _report().          *)

FlushServes ==
  /\ pc \in {"flush", "last_flush"} /\ Reports # {}
  /\ ServeReports
  /\ UNCHANGED <<pc, last, dups, tries, stored, fatal, fates>>

(* Mutant: the second _drain_failures() is missing. *)
FlushReturnsToLastFlush ==
  /\ pc = "flush"
  /\ pc' = "last_flush"
  /\ UNCHANGED <<last, dups, tries, client, counters, fates>>

(* The queue is empty, or the time is up: what remains is only logged. *)
FlushReturns ==
  /\ pc = "flush"
  /\ pc' = "drain"
  /\ UNCHANGED <<last, dups, tries, client, counters, fates>>

(* Mutant: the list of failed payloads is read and not replaced. *)
DrainFailuresKeeping(T) ==
  /\ pc = "drain"
  /\ T \in LetterSets(queue, failedPayloads)
  /\ ToDlq(queue, failedPayloads, T)
  /\ pc' = "last_flush"
  /\ UNCHANGED <<last, dups, tries, delivered, expired, stored, fatal,
                 counters, refused>>

DrainFailures(T) ==
  /\ pc = "drain"
  /\ T \in LetterSets(queue, failedPayloads)
  /\ ToDlq(queue, failedPayloads, T)
  /\ failedPayloads' = {}
  /\ pc' = "last_flush"
  /\ UNCHANGED <<last, dups, tries, delivered, expired, stored, fatal,
                 acked, failed, refused>>

(* The result of flush(10) is not looked at; the report is made of the     *)
(* counters, and the process exits with what the client still holds.       *)
ReportAndExit ==
  /\ pc = "last_flush"
  /\ pc' = "done"
  /\ UNCHANGED <<last, dups, tries, client, counters, fates>>

-----------------------------------------------------------------------------
(* The client's own thread and the brokers. *)

Persist(m) ==
  /\ pc # "done"
  /\ m \in Unserved \ stored
  /\ stored' = stored \cup {m}
  /\ UNCHANGED <<pc, last, dups, tries, queue, delivered, expired, fatal,
                 counters, fates>>

(* The acknowledgement of all in-sync replicas arrives. *)
Acknowledge(m) ==
  /\ pc # "done"
  /\ m \in Unserved \cap stored
  /\ delivered' = delivered \cup {m}
  /\ UNCHANGED <<pc, last, dups, tries, queue, expired, stored, fatal,
                 counters, fates>>

(* message.timeout.ms, or a fatal error; the message may be on the topic. *)
Expire(m) ==
  /\ pc # "done"
  /\ m \in Unserved
  /\ expired' = expired \cup {m}
  /\ UNCHANGED <<pc, last, dups, tries, queue, delivered, stored, fatal,
                 counters, fates>>

TurnsFatal ==
  /\ pc # "done" /\ ~fatal
  /\ fatal' = TRUE
  /\ UNCHANGED <<pc, last, dups, tries, queue, delivered, expired, stored,
                 counters, fates>>

-----------------------------------------------------------------------------
ProducerStep ==
  \/ Generate \/ Duplicate
  \/ Enqueue \/ QueueFull \/ ClientIsFatal
  \/ \E T \in SUBSET Payloads : QueueStaysFull(T) \/ EndBurst(T) \/ DrainFailures(T)
  \/ IdlePoll \/ LeaveLoop
  \/ FlushServes \/ FlushReturns \/ ReportAndExit

ClientStep ==
  \/ \E m \in queue : Persist(m) \/ Acknowledge(m) \/ Expire(m)
  \/ TurnsFatal

Next == ProducerStep \/ ClientStep

(* The thread never waits without a time-out.  Nothing is assumed of the   *)
(* client: a flush may end with every message still in the queue.          *)
Spec == Init /\ [][Next]_vars
FairSpec == Spec /\ WF_vars(ProducerStep)

-----------------------------------------------------------------------------
TypeOK ==
  /\ pc \in {"top", "send", "burst", "flush", "drain", "last_flush", "done"}
  /\ last \in 0..MaxPayloads
  /\ dups \subseteq Payloads
  /\ tries \in 0..(MaxAttempts - 1)
  /\ queue \subseteq Messages /\ stored \subseteq Messages
  /\ delivered \subseteq queue /\ expired \subseteq queue
  /\ fatal \in BOOLEAN
  /\ acked \subseteq Payloads /\ failed \subseteq Payloads
  /\ failedPayloads \subseteq failed
  /\ refused \subseteq Payloads
  /\ lettered \subseteq Payloads /\ lost \subseteq Payloads

(* At every moment a payload is in the hands of _send, in the client, or   *)
(* counted as acknowledged, failed or refused; and one that failed or was  *)
(* refused waits in _failed_payloads, has become a dead letter or was      *)
(* logged as lost, however the polls fall (produce.py: _send,              *)
(* _on_delivery, _drain_failures, _to_dlq).                                *)
InHand == IF pc = "send" THEN {last} ELSE {}
NoPayloadForgotten ==
  /\ 1..last = InHand \cup RawOf(queue) \cup acked \cup failed \cup refused
  /\ failed \cup refused = failedPayloads \cup lettered \cup lost

(* The counters of the report count no payload twice: with the messages    *)
(* left in the client, what was logged as lost and what failed during the  *)
(* last flush they add up to what was sent.  And what it calls             *)
(* acknowledged is on the brokers: the harness takes Kafka's end offsets   *)
(* for the truth (produce.py: run, _report, run_scenario.py:507-516).      *)
ReportAddsUp ==
  pc = "done" =>
    /\ Cardinality(acked) + Cardinality(lettered) + Cardinality(lost)
         + Cardinality(RawOf(queue)) + Cardinality(failedPayloads) = last
    /\ \A n \in acked : Raw(n) \in stored

(* Where a payload is in hand, there is one. *)
InBurst == pc \in {"send", "burst"} => last \in Payloads

(* A payload is in one place. *)
CountsApart ==
  /\ InHand \cap (RawOf(queue) \cup acked \cup failed \cup refused) = {}
  /\ RawOf(queue) \cap (acked \cup failed \cup refused) = {}
  /\ acked \cap (failed \cup refused) = {}
  /\ failed \cap refused = {}

(* One that failed or was refused has one fate. *)
FatesApart ==
  /\ failedPayloads \cap (lettered \cup lost) = {}
  /\ lettered \cap lost = {}

(* A message has one report, and a good one only if it is on the topic. *)
ReportsTrue ==
  /\ delivered \cap expired = {}
  /\ delivered \subseteq stored
  /\ \A n \in acked : Raw(n) \in stored

(* The inductive invariant of the producer, its types included             *)
(* (produce.py: run).                                                      *)
ProducerInv ==
  /\ TypeOK /\ InBurst /\ NoPayloadForgotten
  /\ CountsApart /\ FatesApart /\ ReportsTrue

(* The run ends whatever the brokers do, since backpressure is retried a   *)
(* bounded number of times and every flush has a time-out; and before it   *)
(* ends a payload whose delivery failed is dead-lettered or logged as      *)
(* lost, unless its report came with the very last flush (produce.py:194-  *)
(* 258, _drain_failures).                                                  *)
FailuresAreDrained ==
  /\ <>(pc = "done")
  /\ \A n \in Payloads :
       n \in failedPayloads /\ pc \notin {"last_flush", "done"}
         ~> n \in lettered \cup lost

(* "If the DLQ itself is unwritable the loss is real and must be loud"     *)
(* (produce.py:181-183): a dead letter is on the topic when the producer   *)
(* has ended, or the log says that the event is lost.                      *)
UnwritableDlqIsLoud ==
  pc = "done" => \A n \in lettered : Letter(n) \in stored \/ n \in lost
=============================================================================
