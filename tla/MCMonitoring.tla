---------------------------- MODULE MCMonitoring ----------------------------
(* A small instance of Monitoring for TLC. *)
EXTENDS Monitoring, TLC
=============================================================================
