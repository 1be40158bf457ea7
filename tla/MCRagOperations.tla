-------------------------- MODULE MCRagOperations --------------------------
(* Small instances of RagOperations for TLC. *)
EXTENDS RagOperations, TLC

Symmetry == Permutations(Request) \cup Permutations(Worker)

(* Bound: nothing follows an audit that failed. *)
EveryAudit == unaudited = {}
=============================================================================
