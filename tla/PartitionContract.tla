------------------------- MODULE PartitionContract -------------------------
(***************************************************************************)
(* What the driver relies on when it runs write_partition over the rows of *)
(* one Spark partition, and what StreamJob assumes of every row: the task  *)
(* returns only when each row is either completely in the tables (WriteRow *)
(* with "stored") or has a dead letter among the outcomes ("failed"), or  *)
(* both, when the write that made it give up was applied                   *)
(* (WriteRowTimesOut); a row that can never be written is dead-lettered; a *)
(* task that is lost forgets its outcomes but takes nothing out of the     *)
(* tables (LoseOutcomes).                                                  *)
(***************************************************************************)
CONSTANTS
  PartitionRows,     (* the rows of the partition                           *)
  DefectiveRows      (* those that _validate rejects                        *)

VARIABLES
  fate,              (* "pending", "stored" or "failed", per row            *)
  inTables,          (* rows that are in every table                        *)
  returned           (* the task has handed its outcomes to Spark           *)

partitionVars == <<fate, inTables, returned>>

PartitionInit ==
  /\ fate = [o \in PartitionRows |-> "pending"]
  /\ inTables = {}
  /\ returned = FALSE

(* Rows reach the tables, with or without the task learning about it, and  *)
(* pending rows get their outcome.                                         *)
Progress ==
  /\ ~returned
  /\ \E A \in SUBSET (PartitionRows \ DefectiveRows) : inTables' = inTables \cup A
  /\ \E S \in SUBSET inTables' : \E F \in SUBSET PartitionRows :
       /\ \A o \in S \cup F : fate[o] = "pending"
       /\ S \cap F = {}
       /\ fate' = [o \in PartitionRows |->
                     CASE o \in S -> "stored" [] o \in F -> "failed"
                       [] OTHER -> fate[o]]
  /\ UNCHANGED returned

TaskLost ==
  /\ ~returned
  /\ \E A \in SUBSET (PartitionRows \ DefectiveRows) : inTables' = inTables \cup A
  /\ fate' = [o \in PartitionRows |-> "pending"]
  /\ UNCHANGED returned

Return ==
  /\ ~returned
  /\ \A o \in PartitionRows : fate[o] # "pending"
  /\ returned' = TRUE
  /\ UNCHANGED <<fate, inTables>>

PartitionNext == Progress \/ TaskLost \/ Return

PartitionSafety == PartitionInit /\ [][PartitionNext]_partitionVars
=============================================================================
