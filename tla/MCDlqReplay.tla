---------------------------- MODULE MCDlqReplay ----------------------------
(***************************************************************************)
(* Constant values for model-checking DlqReplay.                           *)
(***************************************************************************)
EXTENDS DlqReplay

Event(i, k) == [id |-> i, kind |-> k]

OneClean == {Event(1, "clean")}
OneRefused == {Event(1, "refused")}
CleanAndGarbled == {Event(1, "clean"), Event(2, "garbled")}
=============================================================================
