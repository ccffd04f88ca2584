------------------------------ MODULE MCLiveView ------------------------------
(* Instance of LiveView for TLC. *)
EXTENDS LiveView
=============================================================================
