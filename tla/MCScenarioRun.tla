--------------------------- MODULE MCScenarioRun ---------------------------
(***************************************************************************)
(* Constant values for model-checking ScenarioRun.                         *)
(***************************************************************************)
EXTENDS ScenarioRun

Setting(t, d, n) == [truncate |-> t, dirty |-> d, events |-> n]

(* Two events from a clean start; one after what an earlier run has left,  *)
(* purged or kept.                                                         *)
Clean == {Setting(TRUE, FALSE, 2)}
AllKinds == Clean \cup {Setting(TRUE, TRUE, 1), Setting(FALSE, TRUE, 1)}
=============================================================================
