----------------------------- MODULE MCCollector -----------------------------
(* Instances of Collector for TLC. *)
EXTENDS Collector

CONSTANTS normal, waiting

TwoStatuses == {normal, waiting}
NoAlarm == {{}}
BothRestarts == {"new", "rollback"}
=============================================================================
