---------------------------- MODULE MCStreamJob ----------------------------
(***************************************************************************)
(* Constant values for model-checking StreamJob.  Times 1 and 3 with a     *)
(* lateness of 1 make a record of time 1 late after one of time 3.         *)
(***************************************************************************)
EXTENDS StreamJob

Clean(t) == [kind |-> "clean", time |-> t]
Defect(t) == [kind |-> "defect", time |-> t]
Garbled == [kind |-> "unparseable", time |-> NoTime]

(* The producer of this repository gives every event a time; another one   *)
(* may leave event_time out or send a text that to_timestamp cannot read.  *)
AnyEvents == {Clean(1), Clean(2), Clean(3), Clean(NoTime), Defect(1), Garbled}
=============================================================================
