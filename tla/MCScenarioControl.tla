-------------------------- MODULE MCScenarioControl --------------------------
(* TLC instance of ScenarioControl.  The goroutine of a stopped run meets  *)
(* the run that replaced it, and the one after that.                       *)
EXTENDS ScenarioControl

CONSTANTS a1, a2
=============================================================================
