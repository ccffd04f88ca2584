-------------------------------- MODULE MCHub --------------------------------
(* Two publishers (Run and monitorFreshness), plain and buffered readers. *)
EXTENDS Hub

CONSTANTS run, monitor, sse, alerts, audit

TwoPublishers == {run, monitor}
OnePlain == {sse}
TwoBuffered == {alerts, audit}
=============================================================================
