-------------------------- MODULE MCScenarioRunner --------------------------
(* The driver, one other reviewer, and a small purchase order. *)
EXTENDS ScenarioRunner

MCCanonical == [v \in Vendors |-> v]
=============================================================================
