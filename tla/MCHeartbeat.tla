----------------------------- MODULE MCHeartbeat -----------------------------
(* Constants of Heartbeat's TLC runs. *)
EXTENDS Heartbeat

(* The smallest threshold that covers a probe interval and a pass. *)
TightThreshold == ProbeInterval + PassTime
=============================================================================
