------------------------------ MODULE MCHeartbeat ------------------------------
(* Heartbeat with ticks of five minutes.                                     *)
EXTENDS Heartbeat
================================================================================
