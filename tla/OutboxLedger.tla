---------------------------- MODULE OutboxLedger ----------------------------
(***************************************************************************)
(* What the outbox promises for each event, with workers, locks and time   *)
(* left out: an accepted event stays open until an outcome closes it, each *)
(* recorded outcome uses one attempt of its budget, the outcome that uses  *)
(* the last attempt closes it whatever it is, and only a manual requeue    *)
(* opens it again, for one attempt more.  Outbox implements it.            *)
(***************************************************************************)
EXTENDS Integers

CONSTANTS Event, MaxAttempts

VARIABLES
  state,   (* "absent", "open" or "closed"                                 *)
  budget   (* attempts an event may still record                           *)

vars == <<state, budget>>

Init ==
  /\ state = [e \in Event |-> "absent"]
  /\ budget = [e \in Event |-> MaxAttempts]

(* The fact behind the event was committed, and the event with it. *)
Accept(e) ==
  /\ state[e] = "absent"
  /\ state' = [state EXCEPT ![e] = "open"]
  /\ UNCHANGED budget

(* A failed attempt that leaves another one. *)
RecordFailure(e) ==
  /\ state[e] = "open"
  /\ budget[e] > 1
  /\ budget' = [budget EXCEPT ![e] = @ - 1]
  /\ UNCHANGED state

(* An attempt that delivers, skips or gives up. *)
Close(e) ==
  /\ state[e] = "open"
  /\ budget[e] > 0
  /\ state' = [state EXCEPT ![e] = "closed"]
  /\ budget' = [budget EXCEPT ![e] = @ - 1]

(* A person asks for one attempt more. *)
Requeue(e) ==
  /\ state[e] # "absent"
  /\ state' = [state EXCEPT ![e] = "open"]
  /\ budget' = [budget EXCEPT ![e] = @ + 1]

Next == \E e \in Event : Accept(e) \/ RecordFailure(e) \/ Close(e) \/ Requeue(e)

Spec == Init /\ [][Next]_vars
=============================================================================
