-------------------------- MODULE MCCassandraSink --------------------------
(***************************************************************************)
(* Constant values for model-checking CassandraSink.                       *)
(***************************************************************************)
EXTENDS CassandraSink

DocumentedSchedule == <<1000, 2000, 4000>>
=============================================================================
