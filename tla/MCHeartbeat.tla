---------------------------- MODULE MCHeartbeat ----------------------------
(* Instances of Heartbeat for TLC. *)
EXTENDS Heartbeat

=============================================================================
