------------------------- MODULE TripProducerProofs -------------------------
(***************************************************************************)
(* What holds of the producer for any number of payloads, any size of the  *)
(* local queue and any number of attempts.                                 *)
(***************************************************************************)
EXTENDS TripProducer, FiniteSetTheorems, TLAPS

(* What suffices for the covering: types, and a payload where one is sent. *)
HandInv == TypeOK /\ InBurst /\ NoPayloadForgotten

-----------------------------------------------------------------------------
(* The payloads of a set of messages *)

LEMMA RawOfUnion ==
  ASSUME NEW S, NEW T
  PROVE  RawOf(S \cup T) = RawOf(S) \cup RawOf(T)
  BY DEF RawOf

LEMMA RawOfMessages ==
  ASSUME NEW S, S \subseteq Messages
  PROVE  RawOf(S) \subseteq Payloads
  BY DEF RawOf, Messages

LEMMA RawOfOne ==
  ASSUME NEW n
  PROVE  RawOf({Raw(n)}) = {n}
  <1>1. {x \in {Raw(n)} : x.topic = "raw"} = {Raw(n)}
    BY DEF Raw
  <1>2. Raw(n).payload = n
    BY DEF Raw
  <1> QED BY <1>1, <1>2 DEF RawOf

(* Dead letters are no payloads of trips.raw. *)
LEMMA RawOfLetters ==
  ASSUME NEW S
  PROVE  RawOf(Letters(S)) = {}
  BY DEF RawOf, Letters, Letter

(* A message in the queue has no report yet, or a good one, or a bad one. *)
LEMMA QueueInThree ==
  ASSUME TypeOK
  PROVE  RawOf(queue) = RawOf(Unserved) \cup RawOf(delivered) \cup RawOf(expired)
  <1>1. queue = Unserved \cup (delivered \cup expired)
    BY DEF TypeOK, Unserved, Reports
  <1>2. RawOf(queue) = RawOf(Unserved) \cup RawOf(delivered \cup expired)
    BY <1>1, RawOfUnion
  <1>3. RawOf(delivered \cup expired) = RawOf(delivered) \cup RawOf(expired)
    BY RawOfUnion
  <1> QED BY <1>2, <1>3

LEMMA LettersFit ==
  ASSUME NEW S, S \subseteq Payloads
  PROVE  Letters(S) \subseteq Messages
  BY DEF Letters, Letter, Messages

(* What _to_dlq is given, it takes or gives up, and what is in the queue   *)
(* stays there.                                                            *)
LEMMA ToDlqKeeps ==
  ASSUME NEW q, q \subseteq Messages, NEW S, S \subseteq Payloads,
         NEW T, T \subseteq S, ToDlq(q, S, T), TypeOK
  PROVE  /\ queue' \subseteq Messages /\ RawOf(queue') = RawOf(q)
         /\ q \subseteq queue'
         /\ lettered' \cup lost' = lettered \cup lost \cup S
         /\ lettered' \subseteq Payloads /\ lost' \subseteq Payloads
  <1>1. queue' = q \cup Letters(T) /\ RawOf(queue') = RawOf(q) \cup RawOf(Letters(T))
    BY RawOfUnion DEF ToDlq
  <1>2. RawOf(Letters(T)) = {} /\ Letters(T) \subseteq Messages
    BY RawOfLetters, LettersFit
  <1> QED BY <1>1, <1>2 DEF ToDlq, TypeOK

(* The payloads whose reports are served move from the queue to the        *)
(* counters.                                                               *)
LEMMA ServedIsCounted ==
  ASSUME TypeOK, acked' = acked \cup RawOf(delivered),
         failed' = failed \cup RawOf(expired)
  PROVE  /\ RawOf(Unserved) \cup acked' \cup failed' = RawOf(queue) \cup acked \cup failed
         /\ acked' \subseteq Payloads /\ failed' \subseteq Payloads
         /\ RawOf(expired) \subseteq Payloads
         /\ Unserved \subseteq Messages
  <1>1. RawOf(delivered) \subseteq Payloads /\ RawOf(expired) \subseteq Payloads
    BY RawOfMessages DEF TypeOK
  <1>2. Unserved \subseteq Messages
    BY DEF TypeOK, Unserved
  <1> QED BY <1>1, <1>2, QueueInThree DEF TypeOK

-----------------------------------------------------------------------------
LEMMA InitHolds == Init => HandInv
  <1> SUFFICES ASSUME Init PROVE HandInv
    OBVIOUS
  <1>1. RawOf(queue) = {} /\ 1..last = {}
    BY DEF Init, RawOf
  <1>2. 0 \in 0..MaxPayloads /\ 0 \in 0..(MaxAttempts - 1)
    BY ProducerAssumption
  <1>3. TypeOK
    BY <1>2 DEF Init, TypeOK
  <1>4. InBurst
    BY DEF Init, InBurst
  <1>5. NoPayloadForgotten
    BY <1>1 DEF Init, NoPayloadForgotten, InHand
  <1> QED BY <1>3, <1>4, <1>5 DEF HandInv

(* Reports served by a poll that sends nothing. *)
LEMMA ServeStep ==
  ASSUME HandInv, ServeReports,
         UNCHANGED <<pc, last, dups, stored, fatal, fates>>,
         tries' \in 0..(MaxAttempts - 1)
  PROVE  HandInv'
  <1> USE DEF HandInv
  <1>0. UNCHANGED <<pc, last, dups, stored, fatal, refused, lettered, lost>>
    BY DEF fates
  <1>1. /\ acked' = acked \cup RawOf(delivered) /\ failed' = failed \cup RawOf(expired)
        /\ failedPayloads' = failedPayloads \cup RawOf(expired)
        /\ queue' = Unserved /\ delivered' = {} /\ expired' = {}
    BY DEF ServeReports, OnDelivery
  <1>2. /\ RawOf(queue') \cup acked' \cup failed' = RawOf(queue) \cup acked \cup failed
        /\ acked' \subseteq Payloads /\ failed' \subseteq Payloads
        /\ queue' \subseteq Messages
    BY <1>1, ServedIsCounted
  <1>3. TypeOK' /\ InBurst'
    BY <1>0, <1>1, <1>2 DEF TypeOK, InBurst
  <1>4. InHand' = InHand
    BY <1>0 DEF InHand
  <1>5. NoPayloadForgotten'
    BY <1>0, <1>1, <1>2, <1>4 DEF NoPayloadForgotten
  <1> QED BY <1>3, <1>5

(* A payload is taken in hand. *)
LEMMA NextPayload ==
  ASSUME HandInv, pc # "send", last < MaxPayloads,
         last' = last + 1, tries' = 0, pc' = "send",
         dups' \in {dups, dups \cup {last'}},
         UNCHANGED <<client, counters, fates>>
  PROVE  HandInv'
  <1> USE ProducerAssumption DEF HandInv
  <1>0. UNCHANGED <<queue, delivered, expired, stored, fatal, acked, failed,
                    failedPayloads, refused, lettered, lost>>
    BY DEF client, counters, fates
  <1>1. last' \in Payloads
    BY DEF TypeOK, Payloads
  <1>2. TypeOK' /\ InBurst'
    BY <1>0, <1>1 DEF TypeOK, InBurst, Payloads
  <1>3. InHand = {} /\ InHand' = {last'}
    BY DEF InHand
  <1>4. 1..last' = (1..last) \cup {last'}
    BY DEF TypeOK
  <1>5. NoPayloadForgotten'
    BY <1>0, <1>3, <1>4 DEF NoPayloadForgotten
  <1> QED BY <1>2, <1>5

LEMMA ProducerStepHolds ==
  ASSUME HandInv, ProducerStep
  PROVE  HandInv'
  <1> USE ProducerAssumption
  <1>1. CASE Generate
    BY <1>1, NextPayload DEF Generate
  <1>2. CASE Duplicate
    BY <1>2, NextPayload DEF Duplicate
  <1>3. CASE Enqueue
    <2>0. last \in Payloads /\ InHand = {last} /\ InHand' = {}
      BY <1>3 DEF Enqueue, InHand, HandInv, InBurst
    <2>1. UNCHANGED <<last, dups, tries, delivered, expired, stored, fatal, acked,
                      failed, failedPayloads, refused, lettered, lost>>
      BY <1>3 DEF Enqueue, counters, fates
    <2>2. queue' = queue \cup {Raw(last)} /\ pc' = "burst"
      BY <1>3 DEF Enqueue
    <2>3. RawOf(queue') = RawOf(queue) \cup {last}
      <3>1. RawOf({Raw(last)}) = {last}
        BY RawOfOne
      <3>2. RawOf(queue \cup {Raw(last)}) = RawOf(queue) \cup RawOf({Raw(last)})
        BY RawOfUnion
      <3> QED BY <2>2, <3>1, <3>2
    <2>4. Raw(last) \in Messages
      BY <2>0 DEF Raw, Messages
    <2>5. TypeOK' /\ InBurst'
      BY <2>0, <2>1, <2>2, <2>4 DEF TypeOK, InBurst, HandInv
    <2>6. NoPayloadForgotten'
      BY <2>0, <2>1, <2>3 DEF NoPayloadForgotten, HandInv
    <2> QED BY <2>5, <2>6 DEF HandInv
  <1>4. CASE QueueFull
    <2>1. tries' \in 0..(MaxAttempts - 1)
      BY <1>4 DEF QueueFull, HandInv, TypeOK
    <2> QED BY <1>4, <2>1, ServeStep DEF QueueFull, ServeReports
  <1>5. CASE ClientIsFatal
    <2>0. {last} \subseteq Payloads /\ InHand = {last} /\ InHand' = {}
      BY <1>5 DEF ClientIsFatal, InHand, HandInv, InBurst
    <2>1. UNCHANGED <<last, dups, tries, delivered, expired, stored, fatal, acked,
                      failed, failedPayloads>>
      BY <1>5 DEF ClientIsFatal, counters
    <2>2. refused' = refused \cup {last} /\ pc' = "burst" /\ ToDlq(queue, {last}, {})
      BY <1>5 DEF ClientIsFatal
    <2>3. /\ queue' \subseteq Messages /\ RawOf(queue') = RawOf(queue)
          /\ queue \subseteq queue'
          /\ lettered' \cup lost' = lettered \cup lost \cup {last}
          /\ lettered' \subseteq Payloads /\ lost' \subseteq Payloads
      <3> DEFINE refusedNow == {last}
      <3>1. refusedNow \subseteq Payloads /\ {} \subseteq refusedNow
            /\ ToDlq(queue, refusedNow, {}) /\ queue \subseteq Messages /\ TypeOK
        BY <2>0, <2>2 DEF HandInv, TypeOK
      <3> HIDE DEF refusedNow
      <3>2. /\ queue' \subseteq Messages /\ RawOf(queue') = RawOf(queue)
            /\ queue \subseteq queue'
            /\ lettered' \cup lost' = lettered \cup lost \cup refusedNow
            /\ lettered' \subseteq Payloads /\ lost' \subseteq Payloads
        BY <3>1, ToDlqKeeps DEF ToDlq
      <3> QED BY <3>2 DEF refusedNow
    <2>4. TypeOK' /\ InBurst'
      BY <2>0, <2>1, <2>2, <2>3 DEF TypeOK, InBurst, HandInv
    <2>5. NoPayloadForgotten'
      BY <2>0, <2>1, <2>2, <2>3 DEF NoPayloadForgotten, HandInv
    <2> QED BY <2>4, <2>5 DEF HandInv
  <1>6. ASSUME NEW T \in SUBSET Payloads, QueueStaysFull(T) PROVE HandInv'
    <2>0. {last} \subseteq Payloads /\ InHand = {last} /\ InHand' = {}
      BY <1>6 DEF QueueStaysFull, InHand, HandInv, InBurst
    <2>1. UNCHANGED <<last, dups, tries, stored, fatal>>
      BY <1>6 DEF QueueStaysFull
    <2>2. /\ refused' = refused \cup {last} /\ pc' = "burst"
          /\ delivered' = {} /\ expired' = {}
          /\ acked' = acked \cup RawOf(delivered) /\ failed' = failed \cup RawOf(expired)
          /\ failedPayloads' = failedPayloads \cup RawOf(expired)
          /\ ToDlq(Unserved, {last}, T) /\ T \subseteq {last}
      BY <1>6 DEF QueueStaysFull, OnDelivery, LetterSets
    <2>3. /\ RawOf(Unserved) \cup acked' \cup failed' = RawOf(queue) \cup acked \cup failed
          /\ acked' \subseteq Payloads /\ failed' \subseteq Payloads
          /\ Unserved \subseteq Messages
      BY <2>2, ServedIsCounted DEF HandInv
    <2>4. /\ queue' \subseteq Messages /\ RawOf(queue') = RawOf(Unserved)
          /\ lettered' \cup lost' = lettered \cup lost \cup {last}
          /\ lettered' \subseteq Payloads /\ lost' \subseteq Payloads
      <3> DEFINE refusedNow == {last}
      <3>1. refusedNow \subseteq Payloads /\ T \subseteq refusedNow
            /\ ToDlq(Unserved, refusedNow, T) /\ TypeOK
        BY <2>0, <2>2 DEF HandInv
      <3> HIDE DEF refusedNow
      <3>2. /\ queue' \subseteq Messages /\ RawOf(queue') = RawOf(Unserved)
            /\ lettered' \cup lost' = lettered \cup lost \cup refusedNow
            /\ lettered' \subseteq Payloads /\ lost' \subseteq Payloads
        BY <2>3, <3>1, ToDlqKeeps DEF ToDlq
      <3> QED BY <3>2 DEF refusedNow
    <2>5. TypeOK' /\ InBurst'
      BY <2>0, <2>1, <2>2, <2>3, <2>4 DEF TypeOK, InBurst, HandInv
    <2>6. NoPayloadForgotten'
      BY <2>0, <2>1, <2>2, <2>3, <2>4 DEF NoPayloadForgotten, HandInv
    <2> QED BY <2>5, <2>6 DEF HandInv
  <1>7. ASSUME NEW T \in SUBSET Payloads, EndBurst(T) PROVE HandInv'
    <2> DEFINE pending == failedPayloads \cup RawOf(expired)
    <2>0. InHand = {} /\ InHand' = {}
      BY <1>7 DEF EndBurst, InHand
    <2>1. UNCHANGED <<last, dups, tries, stored, fatal, refused>>
      BY <1>7 DEF EndBurst
    <2>2. /\ pc' = "top" /\ failedPayloads' = {}
          /\ delivered' = {} /\ expired' = {}
          /\ acked' = acked \cup RawOf(delivered) /\ failed' = failed \cup RawOf(expired)
          /\ ToDlq(Unserved, pending, T) /\ T \subseteq pending
      BY <1>7 DEF EndBurst, LetterSets
    <2>3. /\ RawOf(Unserved) \cup acked' \cup failed' = RawOf(queue) \cup acked \cup failed
          /\ acked' \subseteq Payloads /\ failed' \subseteq Payloads
          /\ RawOf(expired) \subseteq Payloads
          /\ Unserved \subseteq Messages
      BY <2>2, ServedIsCounted DEF HandInv
    <2>4. pending \subseteq Payloads
      BY <2>3 DEF HandInv, TypeOK
    <2>5. /\ queue' \subseteq Messages /\ RawOf(queue') = RawOf(Unserved)
          /\ lettered' \cup lost' = lettered \cup lost \cup pending
          /\ lettered' \subseteq Payloads /\ lost' \subseteq Payloads
      BY <2>2, <2>3, <2>4, ToDlqKeeps DEF HandInv, ToDlq
    <2>6. TypeOK' /\ InBurst'
      BY <2>1, <2>2, <2>3, <2>5 DEF TypeOK, InBurst, HandInv
    <2>7. NoPayloadForgotten'
      BY <2>0, <2>1, <2>2, <2>3, <2>5 DEF NoPayloadForgotten, HandInv
    <2> QED BY <2>6, <2>7 DEF HandInv
  <1>8. ASSUME NEW T \in SUBSET Payloads, DrainFailures(T) PROVE HandInv'
    <2>0. InHand = {} /\ InHand' = {}
      BY <1>8 DEF DrainFailures, InHand
    <2>1. /\ UNCHANGED <<last, dups, tries, delivered, expired, stored, fatal,
                         acked, failed, refused>>
          /\ pc' = "last_flush" /\ failedPayloads' = {}
          /\ ToDlq(queue, failedPayloads, T) /\ T \subseteq failedPayloads
      BY <1>8 DEF DrainFailures, LetterSets
    <2>2. queue \subseteq Messages /\ failedPayloads \subseteq Payloads
      BY DEF HandInv, TypeOK
    <2>3. /\ queue' \subseteq Messages /\ RawOf(queue') = RawOf(queue)
          /\ queue \subseteq queue'
          /\ lettered' \cup lost' = lettered \cup lost \cup failedPayloads
          /\ lettered' \subseteq Payloads /\ lost' \subseteq Payloads
      BY <2>1, <2>2, ToDlqKeeps DEF HandInv
    <2>4. TypeOK' /\ InBurst'
      BY <2>1, <2>3 DEF TypeOK, InBurst, HandInv
    <2>5. NoPayloadForgotten'
      BY <2>0, <2>1, <2>3 DEF NoPayloadForgotten, HandInv
    <2> QED BY <2>4, <2>5 DEF HandInv
  <1>9. CASE IdlePoll \/ FlushServes
    <2>1. ServeReports /\ UNCHANGED <<pc, last, dups, stored, fatal, fates>> /\ tries' = tries
      BY <1>9 DEF IdlePoll, FlushServes
    <2>2. tries' \in 0..(MaxAttempts - 1)
      BY <2>1 DEF HandInv, TypeOK
    <2> QED BY <2>1, <2>2, ServeStep
  <1>10. CASE LeaveLoop \/ FlushReturns \/ ReportAndExit
    <2>1. /\ UNCHANGED <<last, dups, tries, queue, delivered, expired, stored, fatal,
                         acked, failed, failedPayloads, refused, lettered, lost>>
          /\ pc # "send" /\ pc' \in {"flush", "drain", "last_flush", "done"}
      BY <1>10 DEF LeaveLoop, FlushReturns, ReportAndExit, client, counters, fates
    <2> QED BY <2>1 DEF HandInv, TypeOK, InBurst, NoPayloadForgotten, InHand
  <1> QED BY <1>1, <1>2, <1>3, <1>4, <1>5, <1>6, <1>7, <1>8, <1>9, <1>10
          DEF ProducerStep

LEMMA ClientStepHolds ==
  ASSUME HandInv, ClientStep
  PROVE  HandInv'
  <1>1. /\ UNCHANGED <<pc, last, dups, tries, queue, acked, failed, failedPayloads,
                       refused, lettered, lost>>
        /\ stored' \subseteq stored \cup queue
        /\ delivered' \subseteq queue /\ expired' \subseteq queue
        /\ fatal' \in BOOLEAN
    BY DEF ClientStep, Persist, Acknowledge, Expire, TurnsFatal, counters, fates,
           HandInv, TypeOK
  <1> QED BY <1>1 DEF HandInv, TypeOK, InBurst, NoPayloadForgotten, InHand

LEMMA StutterHolds ==
  ASSUME HandInv, UNCHANGED vars
  PROVE  HandInv'
  BY DEF vars, client, counters, fates, HandInv, TypeOK, InBurst,
         NoPayloadForgotten, InHand, Payloads, Messages

-----------------------------------------------------------------------------
LEMMA HandInvariant == Spec => []HandInv
  <1>1. Init => HandInv
    BY InitHolds
  <1>2. HandInv /\ [Next]_vars => HandInv'
    BY ProducerStepHolds, ClientStepHolds, StutterHolds DEF Next
  <1> QED BY <1>1, <1>2, PTL DEF Spec

(* The state of the producer keeps its types (produce.py: ProducerRunner). *)
THEOREM ProducerTypeCorrect == Spec => []TypeOK
  <1>1. HandInv => TypeOK
    BY DEF HandInv
  <1> QED BY <1>1, HandInvariant, PTL

(* Whatever polls, bursts, full queues and brokers do, every payload is in *)
(* hand, in the client or counted, and every failed one waits, is a dead   *)
(* letter or was logged as lost (produce.py: _send, _on_delivery,          *)
(* _drain_failures, _to_dlq).                                              *)
THEOREM ProducerForgetsNothing == Spec => []NoPayloadForgotten
  <1>1. HandInv => NoPayloadForgotten
    BY DEF HandInv
  <1> QED BY <1>1, HandInvariant, PTL

-----------------------------------------------------------------------------
(* Why the numbers of the report add up: the classes they count have no    *)
(* payload in common.                                                      *)

AccountInv == HandInv /\ CountsApart /\ FatesApart /\ ReportsTrue

LEMMA RawOfApart ==
  ASSUME NEW S, NEW T, S \subseteq Messages, T \subseteq Messages, S \cap T = {}
  PROVE  RawOf(S) \cap RawOf(T) = {}
  <1> SUFFICES ASSUME NEW m \in S, NEW n \in T, m.topic = "raw", n.topic = "raw",
                      m.payload = n.payload
               PROVE  FALSE
    BY DEF RawOf
  <1>1. m = n
    BY DEF Messages
  <1> QED BY <1>1

LEMMA RawOfInside ==
  ASSUME NEW S, S \subseteq Messages, NEW n \in RawOf(S)
  PROVE  Raw(n) \in S
  <1>1. PICK m \in S : m.topic = "raw" /\ m.payload = n
    BY DEF RawOf
  <1>2. m = Raw(n)
    BY <1>1 DEF Messages, Raw
  <1> QED BY <1>2

(* What holds when the reports have been served. *)
LEMMA ServedApart ==
  ASSUME AccountInv, acked' = acked \cup RawOf(delivered),
         failed' = failed \cup RawOf(expired)
  PROVE  /\ InHand \cap (RawOf(Unserved) \cup acked' \cup failed' \cup refused) = {}
         /\ RawOf(Unserved) \cap (acked' \cup failed' \cup refused) = {}
         /\ acked' \cap (failed' \cup refused) = {}
         /\ failed' \cap refused = {}
         /\ RawOf(expired) \cap (lettered \cup lost \cup InHand) = {}
         /\ \A n \in acked' : Raw(n) \in stored
  <1> USE DEF AccountInv, HandInv
  <1>1. RawOf(queue) = RawOf(Unserved) \cup RawOf(delivered) \cup RawOf(expired)
    BY QueueInThree
  <1>2. /\ delivered \subseteq Messages /\ expired \subseteq Messages
        /\ Unserved \subseteq Messages
        /\ Unserved \cap delivered = {} /\ Unserved \cap expired = {}
        /\ delivered \cap expired = {}
    BY DEF TypeOK, Unserved, Reports, ReportsTrue
  <1>3. /\ RawOf(Unserved) \cap RawOf(delivered) = {}
        /\ RawOf(Unserved) \cap RawOf(expired) = {}
        /\ RawOf(delivered) \cap RawOf(expired) = {}
    BY <1>2, RawOfApart
  <1>4. \A n \in RawOf(delivered) : Raw(n) \in stored
    BY <1>2, RawOfInside DEF ReportsTrue
  <1>5. lettered \cup lost \subseteq failed \cup refused
    BY DEF NoPayloadForgotten
  <1> HIDE DEF AccountInv, HandInv
  <1>6. CountsApart /\ ReportsTrue
    BY DEF AccountInv
  <1>7. /\ InHand \cap (RawOf(Unserved) \cup acked' \cup failed' \cup refused) = {}
        /\ RawOf(expired) \cap (lettered \cup lost \cup InHand) = {}
    BY <1>1, <1>5, <1>6 DEF CountsApart
  <1>8. /\ RawOf(Unserved) \cap (acked' \cup failed' \cup refused) = {}
        /\ acked' \cap (failed' \cup refused) = {}
        /\ failed' \cap refused = {}
    BY <1>1, <1>3, <1>6 DEF CountsApart
  <1> QED BY <1>4, <1>6, <1>7, <1>8 DEF ReportsTrue

LEMMA AccountInit == Init => AccountInv
  <1> SUFFICES ASSUME Init PROVE AccountInv
    OBVIOUS
  <1>1. HandInv
    BY InitHolds
  <1>2. CountsApart /\ FatesApart /\ ReportsTrue
    BY DEF Init, CountsApart, FatesApart, ReportsTrue, InHand
  <1> QED BY <1>1, <1>2 DEF AccountInv

LEMMA ServeAccount ==
  ASSUME AccountInv, ServeReports,
         UNCHANGED <<pc, last, dups, stored, fatal, fates>>
  PROVE  CountsApart' /\ FatesApart' /\ ReportsTrue'
  <1>0. UNCHANGED <<pc, last, stored, refused, lettered, lost>>
    BY DEF fates
  <1>1. /\ acked' = acked \cup RawOf(delivered) /\ failed' = failed \cup RawOf(expired)
        /\ failedPayloads' = failedPayloads \cup RawOf(expired)
        /\ queue' = Unserved /\ delivered' = {} /\ expired' = {}
    BY DEF ServeReports, OnDelivery
  <1>2. /\ InHand \cap (RawOf(Unserved) \cup acked' \cup failed' \cup refused) = {}
        /\ RawOf(Unserved) \cap (acked' \cup failed' \cup refused) = {}
        /\ acked' \cap (failed' \cup refused) = {}
        /\ failed' \cap refused = {}
        /\ RawOf(expired) \cap (lettered \cup lost \cup InHand) = {}
        /\ \A n \in acked' : Raw(n) \in stored
    BY <1>1, ServedApart
  <1>3. InHand' = InHand
    BY <1>0 DEF InHand
  <1>4. CountsApart'
    BY <1>0, <1>1, <1>2, <1>3 DEF CountsApart
  <1>5. FatesApart'
    BY <1>0, <1>1, <1>2 DEF FatesApart, AccountInv
  <1>6. ReportsTrue'
    BY <1>0, <1>1, <1>2 DEF ReportsTrue
  <1> QED BY <1>4, <1>5, <1>6

LEMMA NextAccount ==
  ASSUME AccountInv, pc # "send", last' = last + 1, pc' = "send",
         UNCHANGED <<client, counters, fates>>
  PROVE  CountsApart' /\ FatesApart' /\ ReportsTrue'
  <1>0. UNCHANGED <<queue, delivered, expired, stored, fatal, acked, failed,
                    failedPayloads, refused, lettered, lost>>
    BY DEF client, counters, fates
  <1>1. InHand' = {last + 1}
    BY DEF InHand
  <1>2. RawOf(queue) \cup acked \cup failed \cup refused \subseteq 1..last
    BY DEF AccountInv, HandInv, NoPayloadForgotten
  <1>3. last + 1 \notin 1..last
    BY DEF AccountInv, HandInv, TypeOK
  <1>4. CountsApart'
    BY <1>0, <1>1, <1>2, <1>3 DEF CountsApart, AccountInv
  <1>5. FatesApart' /\ ReportsTrue'
    BY <1>0 DEF FatesApart, ReportsTrue, AccountInv
  <1> QED BY <1>4, <1>5

LEMMA AccountStep ==
  ASSUME AccountInv, ProducerStep
  PROVE  CountsApart' /\ FatesApart' /\ ReportsTrue'
  <1>1. CASE Generate \/ Duplicate
    BY <1>1, NextAccount DEF Generate, Duplicate
  <1>2. CASE Enqueue
    <2>1. /\ UNCHANGED <<delivered, expired, stored, acked, failed, failedPayloads,
                         refused, lettered, lost>>
          /\ queue' = queue \cup {Raw(last)}
          /\ InHand = {last} /\ InHand' = {}
      BY <1>2 DEF Enqueue, counters, fates, InHand
    <2>2. RawOf({Raw(last)}) = {last}
      BY RawOfOne
    <2>3. RawOf(queue \cup {Raw(last)}) = RawOf(queue) \cup RawOf({Raw(last)})
      BY RawOfUnion
    <2>4. CountsApart'
      BY <2>1, <2>2, <2>3 DEF CountsApart, AccountInv
    <2>5. FatesApart' /\ ReportsTrue'
      BY <2>1 DEF FatesApart, ReportsTrue, AccountInv
    <2> QED BY <2>4, <2>5
  <1>3. CASE QueueFull \/ IdlePoll \/ FlushServes
    <2>1. ServeReports /\ UNCHANGED <<pc, last, dups, stored, fatal, fates>>
      BY <1>3 DEF QueueFull, IdlePoll, FlushServes
    <2> QED BY <2>1, ServeAccount
  <1>4. CASE ClientIsFatal
    <2>1. /\ UNCHANGED <<delivered, expired, stored, acked, failed, failedPayloads>>
          /\ refused' = refused \cup {last}
          /\ InHand = {last} /\ InHand' = {}
      BY <1>4 DEF ClientIsFatal, counters, InHand
    <2>2. queue' = queue /\ lettered' = lettered /\ lost' = lost \cup {last}
      BY <1>4 DEF ClientIsFatal, ToDlq, Letters
    <2>3. failedPayloads \cup lettered \cup lost = failed \cup refused
      BY DEF AccountInv, HandInv, NoPayloadForgotten
    <2>4. CountsApart'
      BY <2>1, <2>2 DEF CountsApart, AccountInv
    <2>5. last \notin failedPayloads \cup lettered \cup lost
      BY <2>1, <2>3 DEF CountsApart, AccountInv
    <2>6. FatesApart'
      BY <2>1, <2>2, <2>5 DEF FatesApart, AccountInv
    <2>7. ReportsTrue'
      BY <2>1 DEF ReportsTrue, AccountInv
    <2> QED BY <2>4, <2>6, <2>7
  <1>5. ASSUME NEW T \in SUBSET Payloads, QueueStaysFull(T)
        PROVE  CountsApart' /\ FatesApart' /\ ReportsTrue'
    <2>1. /\ stored' = stored /\ refused' = refused \cup {last}
          /\ InHand = {last} /\ InHand' = {}
          /\ delivered' = {} /\ expired' = {}
          /\ acked' = acked \cup RawOf(delivered) /\ failed' = failed \cup RawOf(expired)
          /\ failedPayloads' = failedPayloads \cup RawOf(expired)
          /\ ToDlq(Unserved, {last}, T) /\ T \subseteq {last}
      BY <1>5 DEF QueueStaysFull, OnDelivery, LetterSets, InHand
    <2>2. /\ {last} \cap (RawOf(Unserved) \cup acked' \cup failed' \cup refused) = {}
          /\ RawOf(Unserved) \cap (acked' \cup failed' \cup refused) = {}
          /\ acked' \cap (failed' \cup refused) = {}
          /\ failed' \cap refused = {}
          /\ RawOf(expired) \cap (lettered \cup lost \cup {last}) = {}
          /\ \A n \in acked' : Raw(n) \in stored
      BY <2>1, ServedApart
    <2>3. RawOf(queue') = RawOf(Unserved)
      <3>1. queue' = Unserved \cup Letters(T) /\ RawOf(Letters(T)) = {}
        BY <2>1, RawOfLetters DEF ToDlq
      <3>2. RawOf(Unserved \cup Letters(T)) = RawOf(Unserved) \cup RawOf(Letters(T))
        BY RawOfUnion
      <3> QED BY <3>1, <3>2
    <2>4. last \notin failedPayloads \cup lettered \cup lost
      BY <2>1 DEF AccountInv, HandInv, NoPayloadForgotten, CountsApart
    <2>5. CountsApart'
      BY <2>1, <2>2, <2>3 DEF CountsApart
    <2>6. lettered' = lettered \cup T /\ lost' = lost \cup ({last} \ T)
      BY <2>1 DEF ToDlq
    <2>7. FatesApart'
      BY <2>1, <2>2, <2>4, <2>6 DEF FatesApart, AccountInv
    <2>8. ReportsTrue'
      BY <2>1, <2>2 DEF ReportsTrue
    <2> QED BY <2>5, <2>7, <2>8
  <1>6. ASSUME NEW T \in SUBSET Payloads, EndBurst(T)
        PROVE  CountsApart' /\ FatesApart' /\ ReportsTrue'
    <2>1. /\ stored' = stored /\ refused' = refused
          /\ InHand = {} /\ InHand' = {}
          /\ delivered' = {} /\ expired' = {} /\ failedPayloads' = {}
          /\ acked' = acked \cup RawOf(delivered) /\ failed' = failed \cup RawOf(expired)
          /\ ToDlq(Unserved, failedPayloads \cup RawOf(expired), T)
      BY <1>6 DEF EndBurst, InHand
    <2>2. /\ RawOf(Unserved) \cap (acked' \cup failed' \cup refused) = {}
          /\ acked' \cap (failed' \cup refused) = {}
          /\ failed' \cap refused = {}
          /\ RawOf(expired) \cap (lettered \cup lost) = {}
          /\ \A n \in acked' : Raw(n) \in stored
      BY <2>1, ServedApart
    <2>3. RawOf(queue') = RawOf(Unserved)
      <3>1. queue' = Unserved \cup Letters(T) /\ RawOf(Letters(T)) = {}
        BY <2>1, RawOfLetters DEF ToDlq
      <3>2. RawOf(Unserved \cup Letters(T)) = RawOf(Unserved) \cup RawOf(Letters(T))
        BY RawOfUnion
      <3> QED BY <3>1, <3>2
    <2>4. CountsApart'
      BY <2>1, <2>2, <2>3 DEF CountsApart
    <2>5. /\ lettered' = lettered \cup T
          /\ lost' = lost \cup ((failedPayloads \cup RawOf(expired)) \ T)
          /\ T \subseteq failedPayloads \cup RawOf(expired)
      BY <1>6, <2>1 DEF ToDlq, EndBurst, LetterSets
    <2>6. FatesApart'
      BY <2>1, <2>2, <2>5 DEF FatesApart, AccountInv
    <2>7. ReportsTrue'
      BY <2>1, <2>2 DEF ReportsTrue
    <2> QED BY <2>4, <2>6, <2>7
  <1>7. ASSUME NEW T \in SUBSET Payloads, DrainFailures(T)
        PROVE  CountsApart' /\ FatesApart' /\ ReportsTrue'
    <2>1. /\ UNCHANGED <<delivered, expired, stored, acked, failed, refused>>
          /\ InHand = {} /\ InHand' = {} /\ failedPayloads' = {}
          /\ ToDlq(queue, failedPayloads, T) /\ T \subseteq failedPayloads
      BY <1>7 DEF DrainFailures, LetterSets, InHand
    <2>2. RawOf(queue') = RawOf(queue)
      <3>1. queue' = queue \cup Letters(T) /\ RawOf(Letters(T)) = {}
        BY <2>1, RawOfLetters DEF ToDlq
      <3>2. RawOf(queue \cup Letters(T)) = RawOf(queue) \cup RawOf(Letters(T))
        BY RawOfUnion
      <3> QED BY <3>1, <3>2
    <2>3. CountsApart'
      BY <2>1, <2>2 DEF CountsApart, AccountInv
    <2>4. FatesApart'
      BY <2>1 DEF FatesApart, AccountInv, ToDlq
    <2>5. ReportsTrue'
      BY <2>1 DEF ReportsTrue, AccountInv
    <2> QED BY <2>3, <2>4, <2>5
  <1>8. CASE LeaveLoop \/ FlushReturns \/ ReportAndExit
    <2>1. /\ UNCHANGED <<queue, delivered, expired, stored, acked, failed,
                         failedPayloads, refused, lettered, lost>>
          /\ InHand = {} /\ InHand' = {}
      BY <1>8 DEF LeaveLoop, FlushReturns, ReportAndExit, client, counters, fates, InHand
    <2> QED BY <2>1 DEF CountsApart, FatesApart, ReportsTrue, AccountInv
  <1> QED BY <1>1, <1>2, <1>3, <1>4, <1>5, <1>6, <1>7, <1>8 DEF ProducerStep

LEMMA AccountClient ==
  ASSUME AccountInv, ClientStep
  PROVE  CountsApart' /\ FatesApart' /\ ReportsTrue'
  <1>1. /\ UNCHANGED <<pc, last, queue, acked, failed, failedPayloads,
                       refused, lettered, lost>>
        /\ stored \subseteq stored'
    BY DEF ClientStep, Persist, Acknowledge, Expire, TurnsFatal, counters, fates
  <1>2. delivered' \cap expired' = {} /\ delivered' \subseteq stored'
    BY DEF ClientStep, Persist, Acknowledge, Expire, TurnsFatal, Unserved, Reports,
           AccountInv, ReportsTrue
  <1>3. InHand' = InHand
    BY <1>1 DEF InHand
  <1> QED BY <1>1, <1>2, <1>3 DEF CountsApart, FatesApart, ReportsTrue, AccountInv

LEMMA AccountStutter ==
  ASSUME AccountInv, UNCHANGED vars
  PROVE  CountsApart' /\ FatesApart' /\ ReportsTrue'
  BY DEF vars, client, counters, fates, InHand, CountsApart, FatesApart, ReportsTrue,
         AccountInv

LEMMA AccountInvariant == Spec => []AccountInv
  <1>1. Init => AccountInv
    BY AccountInit
  <1>2. AccountInv /\ [Next]_vars => AccountInv'
    <2> SUFFICES ASSUME AccountInv, [Next]_vars PROVE AccountInv'
      OBVIOUS
    <2>1. HandInv'
      BY ProducerStepHolds, ClientStepHolds, StutterHolds DEF Next, AccountInv
    <2>2. CountsApart' /\ FatesApart' /\ ReportsTrue'
      BY AccountStep, AccountClient, AccountStutter DEF Next
    <2> QED BY <2>1, <2>2 DEF AccountInv
  <1> QED BY <1>1, <1>2, PTL DEF Spec

(* The invariant of the producer: its types, a payload is in hand where    *)
(* one is being sent, no payload is forgotten, none is counted twice, and  *)
(* a report agrees with the brokers (produce.py: run).                     *)
THEOREM ProducerInvariant == Spec => []ProducerInv
  <1>1. AccountInv => ProducerInv
    BY DEF AccountInv, HandInv, ProducerInv
  <1> QED BY <1>1, AccountInvariant, PTL

(* Two disjoint classes are counted one after the other. *)
LEMMA CountTwo ==
  ASSUME NEW S, NEW T, IsFiniteSet(S), IsFiniteSet(T), S \cap T = {}
  PROVE  /\ IsFiniteSet(S \cup T)
         /\ Cardinality(S \cup T) = Cardinality(S) + Cardinality(T)
         /\ Cardinality(S) \in Nat /\ Cardinality(T) \in Nat
  <1>1. Cardinality(S) \in Nat /\ Cardinality(T) \in Nat
    BY FS_CardinalityType
  <1>2. /\ IsFiniteSet(S \cup T)
        /\ Cardinality(S \cup T) = Cardinality(S) + Cardinality(T) - Cardinality(S \cap T)
    BY FS_Union
  <1>3. Cardinality(S \cap T) = 0
    BY FS_EmptySet
  <1> QED BY <1>1, <1>2, <1>3

(* The numbers of the report add up to what was sent, and what it calls    *)
(* acknowledged is on the brokers (produce.py: run, _report).              *)
THEOREM ProducerReportAddsUp == Spec => []ReportAddsUp
  <1>1. AccountInv => ReportAddsUp
    <2> SUFFICES ASSUME AccountInv, pc = "done"
                 PROVE  /\ Cardinality(acked) + Cardinality(lettered) + Cardinality(lost)
                             + Cardinality(RawOf(queue)) + Cardinality(failedPayloads) = last
                        /\ \A n \in acked : Raw(n) \in stored
      BY DEF ReportAddsUp
    <2> DEFINE waiting == RawOf(queue)
    <2>1. last \in Nat /\ InHand = {}
      BY ProducerAssumption DEF AccountInv, HandInv, TypeOK, InHand
    <2>2. /\ 1..last = waiting \cup acked \cup failed \cup refused
          /\ failed \cup refused = failedPayloads \cup lettered \cup lost
      BY <2>1 DEF AccountInv, HandInv, NoPayloadForgotten
    <2>3. /\ waiting \cap (acked \cup failed \cup refused) = {}
          /\ acked \cap (failed \cup refused) = {}
          /\ failedPayloads \cap (lettered \cup lost) = {}
          /\ lettered \cap lost = {}
      BY DEF AccountInv, CountsApart, FatesApart
    <2>4. \A n \in acked : Raw(n) \in stored
      BY DEF AccountInv, ReportsTrue
    <2> HIDE DEF waiting
    <2>5. 1..last = (((acked \cup lettered) \cup lost) \cup waiting) \cup failedPayloads
      BY <2>2
    <2>6. IsFiniteSet(1..last) /\ Cardinality(1..last) = last
      BY <2>1, FS_Interval
    <2>7. /\ IsFiniteSet(acked) /\ IsFiniteSet(lettered) /\ IsFiniteSet(lost)
          /\ IsFiniteSet(waiting) /\ IsFiniteSet(failedPayloads)
      BY <2>5, <2>6, FS_Subset
    <2>8. /\ IsFiniteSet(acked \cup lettered)
          /\ Cardinality(acked \cup lettered) = Cardinality(acked) + Cardinality(lettered)
      <3>1. acked \cap lettered = {}
        BY <2>2, <2>3
      <3> QED BY <2>7, <3>1, CountTwo
    <2>9. /\ IsFiniteSet((acked \cup lettered) \cup lost)
          /\ Cardinality((acked \cup lettered) \cup lost)
               = Cardinality(acked \cup lettered) + Cardinality(lost)
      <3>1. (acked \cup lettered) \cap lost = {}
        BY <2>2, <2>3
      <3> QED BY <2>7, <2>8, <3>1, CountTwo
    <2>10. /\ IsFiniteSet(((acked \cup lettered) \cup lost) \cup waiting)
           /\ Cardinality(((acked \cup lettered) \cup lost) \cup waiting)
                = Cardinality((acked \cup lettered) \cup lost) + Cardinality(waiting)
      <3>1. ((acked \cup lettered) \cup lost) \cap waiting = {}
        BY <2>2, <2>3
      <3> QED BY <2>7, <2>9, <3>1, CountTwo
    <2>11. last = Cardinality(((acked \cup lettered) \cup lost) \cup waiting)
                   + Cardinality(failedPayloads)
      <3>1. (((acked \cup lettered) \cup lost) \cup waiting) \cap failedPayloads = {}
        BY <2>2, <2>3
      <3> QED BY <2>5, <2>6, <2>7, <2>10, <3>1, CountTwo
    <2>12. Cardinality(acked) + Cardinality(lettered) + Cardinality(lost)
             + Cardinality(waiting) + Cardinality(failedPayloads) = last
      BY <2>8, <2>9, <2>10, <2>11
    <2> QED BY <2>4, <2>12 DEF waiting
  <1> QED BY <1>1, AccountInvariant, PTL
=============================================================================
