---------------------------- MODULE MCAlertEngine ----------------------------
(* Instances of AlertEngine for TLC.  The rules read disjoint fields of a     *)
(* snapshot, so a few reports between which every field changes alone or      *)
(* together with the others stand for all of them.                            *)
EXTENDS AlertEngine

Quiet == [power |-> 1, sunny |-> TRUE, fault |-> FALSE, voltageOut |-> FALSE,
          frequencyOut |-> FALSE]
SeveralReports ==
  {Quiet,
   [power |-> 0, sunny |-> TRUE, fault |-> TRUE, voltageOut |-> TRUE,
    frequencyOut |-> TRUE],                         \* everything wrong
   [Quiet EXCEPT !.power = 0, !.sunny = FALSE, !.fault = TRUE,
                 !.voltageOut = TRUE],
   [Quiet EXCEPT !.power = -1]}                     \* refused
Both == {"telemetry", "daily"}
=============================================================================
