------------------------ MODULE MCKnowledgeDocuments ------------------------
(* A small instance of KnowledgeDocuments for TLC.                         *)
EXTENDS KnowledgeDocuments, TLC

Symmetry == Permutations(Actor) \cup Permutations(Doc)

(* The properties say nothing of a document that is excused: states in     *)
(* which all of them are need not be left.                                 *)
SomeUnexcused == excused # Doc

(* Bound: a behaviour has a mishap, a clash or an index run, and two of    *)
(* them, or a mishap or clash and the last change, only in its last step.  *)
OneTrouble ==
  \/ mishaps = 0 /\ clashed = {}
  \/ changes < MaxChanges /\ runId = NoRun /\ (mishaps = 0 \/ clashed = {})
=============================================================================
