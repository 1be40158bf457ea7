------------------------- MODULE MCHandoffDelivery -------------------------
(* Small instances of HandoffDelivery for TLC: the handoffs of one         *)
(* conversation, in one deployment or another.                             *)
EXTENDS HandoffDelivery, TLC

CONSTANT talk

DistinctIds == [w \in Worker |-> w]
OneConversation == [e \in Event |-> talk]

(* Real with a webhook, real with mail alone, and simulated. *)
RealAndSimulated ==
  {[notify |-> "real", hook |-> "real"], [notify |-> "real", hook |-> "none"],
   [notify |-> "dry_run", hook |-> "dry_run"]}
RealOnly == {[notify |-> "real", hook |-> "real"]}

Symmetry == Permutations(Event) \cup Permutations(Worker)
=============================================================================
