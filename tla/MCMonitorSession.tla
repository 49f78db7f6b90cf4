-------------------------- MODULE MCMonitorSession --------------------------
(* One caller besides the clock, one subscriber.                           *)
EXTENDS MonitorSession

CONSTANTS u1, s1

Users       == {u1}
Subscribers == {s1}
=============================================================================
