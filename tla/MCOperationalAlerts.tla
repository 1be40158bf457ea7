------------------------ MODULE MCOperationalAlerts ------------------------
(* A small instance of OperationalAlerts for TLC. *)
EXTENDS OperationalAlerts, TLC
=============================================================================
