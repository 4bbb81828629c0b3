-------------------------- MODULE DeliveryContract --------------------------
(***************************************************************************)
(* What the ingest stream promises about every record of trips.raw, with   *)
(* nothing said about batches, stages or stores: a record that has been    *)
(* acknowledged by Kafka is settled (written to Cassandra or quarantined   *)
(* in trips.dlq) before the committed offset moves past it.  A record may  *)
(* be settled any number of times; it is never un-settled, and an offset   *)
(* once committed is never taken back.                                     *)
(***************************************************************************)
EXTENDS Naturals

CONSTANT MaxRecords  (* bound on the length of the topic, for model checking *)

VARIABLES
  produced,          (* number of records acknowledged by Kafka             *)
  settled,           (* offsets that are in a table or in the dead letters  *)
  committed          (* last offset of the last committed batch             *)

contractVars == <<produced, settled, committed>>

ContractTypeOK ==
  /\ produced \in 0..MaxRecords
  /\ settled \subseteq 1..produced
  /\ committed \in 0..produced

ContractInit ==
  /\ produced = 0
  /\ settled = {}
  /\ committed = 0

Acknowledge ==
  /\ produced < MaxRecords
  /\ produced' = produced + 1
  /\ UNCHANGED <<settled, committed>>

(* Records become settled in any order and in any grouping. *)
Settle ==
  /\ \E S \in SUBSET (1..produced) : settled' = settled \cup S
  /\ UNCHANGED <<produced, committed>>

(* The offset moves forward, and only over settled records. *)
Commit ==
  /\ \E n \in committed..produced :
        /\ 1..n \subseteq settled
        /\ committed' = n
  /\ UNCHANGED <<produced, settled>>

ContractNext == Acknowledge \/ Settle \/ Commit

ContractSafety == ContractInit /\ [][ContractNext]_contractVars
=============================================================================
