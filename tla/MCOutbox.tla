------------------------------ MODULE MCOutbox ------------------------------
(* Small instances of Outbox for TLC.                                      *)
EXTENDS Outbox

(* build_worker_id's default: hostname and a fresh UUID for each process. *)
DistinctIds == [w \in Worker |-> w]

=============================================================================
