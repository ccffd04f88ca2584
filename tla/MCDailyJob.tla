------------------------------ MODULE MCDailyJob ------------------------------
(* Instances of DailyJob for TLC. *)
EXTENDS DailyJob

AllSlow == StepNames
=============================================================================
