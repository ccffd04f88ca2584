---------------------------- MODULE LatestRegister ----------------------------
(***************************************************************************)
(* What the relay's state store promises of the snapshot it keeps: readers *)
(* see a value that never goes back in time while the process lives, the   *)
(* stored value follows it in the same order, and a restart, which may     *)
(* come at any time, falls back to the stored one and to nothing older:    *)
(* the value goes back in no other way.  StateStore in                     *)
(* integrations/alexa-relay/src/state.js is shown to implement it          *)
(* (AlexaRelay!Register).                                                  *)
(***************************************************************************)
EXTENDS Naturals

CONSTANTS
  Values,        \* snapshots that may be written, with their time in .at
  NoValue        \* nothing received yet

VARIABLES value, durable

Held == Values \cup {NoValue}

Time(v) == IF v = NoValue THEN 0 ELSE v.at

Init == value = NoValue /\ durable = NoValue

Accept ==
  \E v \in Values :
    /\ Time(value) <= Time(v)
    /\ value' = v
    /\ UNCHANGED durable

Persist ==
  \E v \in Held :
    /\ Time(durable) <= Time(v) /\ Time(v) <= Time(value)
    /\ durable' = v
    /\ UNCHANGED value

Reload == value' = durable /\ UNCHANGED durable

Next == Accept \/ Persist \/ Reload

Spec == Init /\ [][Next]_<<value, durable>>
=============================================================================
