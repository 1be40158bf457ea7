--------------------------- MODULE MCLeadDelivery ---------------------------
(* Small instances of LeadDelivery for TLC: one event and its lead.        *)
EXTENDS LeadDelivery, TLC

CONSTANT e1

OneEvent == {e1}
DistinctIds == [w \in Worker |-> w]
LeadOfTurn == [t \in Turn |-> e1]
AllReal == [c \in Config |-> "real"]
AllDryRun == [c \in Config |-> "dry_run"]

Symmetry == Permutations(Worker) \cup Permutations(Turn) \cup Permutations(Config)
=============================================================================
