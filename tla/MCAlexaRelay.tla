----------------------------- MODULE MCAlexaRelay -----------------------------
(* Instances of AlexaRelay for TLC. *)
EXTENDS AlexaRelay

CONSTANTS d1, d2

TwoReadings == {[at |-> 1, stale |-> TRUE, normal |-> TRUE],
                [at |-> 2, stale |-> FALSE, normal |-> FALSE]}
TwoDevices == {d1, d2}
=============================================================================
