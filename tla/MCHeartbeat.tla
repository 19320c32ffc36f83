---------------------------- MODULE MCHeartbeat -----------------------------
(* TLC instance of Heartbeat: the settings are as tight as they may be.    *)
EXTENDS Heartbeat
=============================================================================
