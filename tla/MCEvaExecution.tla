--------------------------- MODULE MCEvaExecution ---------------------------
(* The instance of EvaExecution that TLC checks. *)
EXTENDS EvaExecution

\* One plan of two steps.
TwoSteps == <<1, 1>>
=============================================================================
