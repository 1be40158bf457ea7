------------------------------- MODULE Outbox -------------------------------
(***************************************************************************)
(* The transactional outbox: integrations/outbox/processor.py (claim,      *)
(* handle, finalize, recovery of abandoned locks), the enqueue service,    *)
(* the portal's CRM retry and the Django admin's requeue action.           *)
(*                                                                         *)
(* Each database transaction of the code is one atomic action.  A worker   *)
(* is one process running `process_outbox --execute`, which handles one    *)
(* batch; the steps between its transactions (the handlers, with their     *)
(* HTTP and SMTP calls) are open to every other actor.  A worker that      *)
(* crashed or ended is started again as the same element of Worker: the    *)
(* old incarnation is dead, so no two of them are ever alive together.     *)
(*                                                                         *)
(* Time is abstracted to what the code compares: due[e] is                 *)
(* available_at <= now, lock_expired[e] is locked_at < now - timeout.      *)
(***************************************************************************)
EXTENDS Integers, FiniteSets

CONSTANTS
  Event,        (* outbox events, one for each deduplication key           *)
  Worker,       (* processes that run process_outbox                       *)
  Admin,        (* superusers at the Django admin's requeue action         *)
  WorkerId,     (* values of locked_by                                     *)
  IdOf,         (* the worker_id each process runs with                    *)
  NoOne,        (* locked_by = "", and no event in hand                    *)
  MaxAttempts,  (* LIVIA_OUTBOX_MAX_ATTEMPTS                               *)
  BatchSize,    (* LIVIA_OUTBOX_BATCH_SIZE                                 *)
  MaxRequeues,  (* bound: manual requeues, of each event and at all        *)
  MaxCrashes    (* bound: worker crashes                                   *)

ASSUME OutboxAssumption ==
  /\ MaxAttempts \in Nat \ {0}
  /\ BatchSize \in Nat \ {0}
  /\ MaxRequeues \in Nat
  /\ MaxCrashes \in Nat
  /\ IdOf \in [Worker -> WorkerId]
  /\ NoOne \notin WorkerId \cup Worker \cup Event

VARIABLES
  status,        (* OutboxEvent.status, or "absent" before the enqueue     *)
  attempts,      (* OutboxEvent.attempts                                   *)
  due,           (* available_at <= now                                    *)
  locked_by,     (* OutboxEvent.locked_by                                  *)
  lock_expired,  (* locked_at < now - LIVIA_OUTBOX_LOCK_TIMEOUT_SECONDS    *)
  pc,            (* where process_outbox_batch stands in each worker       *)
  batch,         (* the claimed events a worker has not finalized          *)
  handling,      (* the event whose handler a worker is running            *)
  selected,      (* the rows an admin's queryset returned, still to save   *)
  crashes,
  (* History, read by properties only: *)
  requeues,      (* manual requeues of each event                          *)
  claimant,      (* the worker incarnation whose claim the lock stands for *)
  overdue        (* events of a worker's batch whose lock it lost: it timed *)
                 (* out, or the admin's action requeued the event          *)

eventVars == <<status, attempts, due, locked_by, lock_expired>>
workerVars == <<pc, batch, handling>>
history == <<requeues, claimant, overdue>>
vars == <<eventVars, workerVars, selected, crashes, history>>

Terminal == {"succeeded", "skipped", "dead_letter"}
Status == {"absent", "pending", "processing", "retry"} \cup Terminal
Outcome == {"succeeded", "skipped", "permanent_failure", "retryable_failure"}

Processing(e) == status[e] = "processing"

(* Mutations: one plausible slip each.  The claim forgets retries; an      *)
(* off-by-one; no check of the lock's owner.                               *)
EligibleOnlyPending(e) == status[e] = "pending" /\ due[e]
ExhaustedLate(n) == n > MaxAttempts
MayFinalizeAnyLock(w, e) == Processing(e)

(* The filter of claim_outbox_events. *)
Eligible(e) == status[e] \in {"pending", "retry"} /\ due[e]

(* The filter of recover_abandoned_locks. *)
Abandoned(e) == Processing(e) /\ lock_expired[e]

(* The attempts, counting the one just made, leave no retry. *)
Exhausted(n) == n >= MaxAttempts

(* The status finalize_outbox_event gives for a handler's outcome. *)
FinalStatus(outcome, n) ==
  CASE outcome \in {"succeeded", "skipped"} -> outcome
    [] outcome = "permanent_failure" -> "dead_letter"
    [] OTHER -> IF Exhausted(n) THEN "dead_letter" ELSE "retry"

(* finalize_outbox_event records the outcome only under these conditions. *)
MayFinalize(w, e) == locked_by[e] = IdOf[w] /\ Processing(e)

(* What the portal's retry, CrmRetryOutcome apart, accepts. *)
PortalAccepts(e) == status[e] \in {"dead_letter", "skipped"}

(* What requeue_outbox_events selects. *)
AdminAccepts(e) == status[e] \in {"dead_letter", "retry"}

-----------------------------------------------------------------------------
Init ==
  /\ status = [e \in Event |-> "absent"]
  /\ attempts = [e \in Event |-> 0]
  /\ due = [e \in Event |-> TRUE]
  /\ locked_by = [e \in Event |-> NoOne]
  /\ lock_expired = [e \in Event |-> FALSE]
  /\ pc = [w \in Worker |-> "idle"]
  /\ batch = [w \in Worker |-> {}]
  /\ handling = [w \in Worker |-> NoOne]
  /\ selected = [a \in Admin |-> {}]
  /\ crashes = 0
  /\ requeues = [e \in Event |-> 0]
  /\ claimant = [e \in Event |-> NoOne]
  /\ overdue = [w \in Worker |-> {}]

(* enqueue_outbox_event: the unique deduplication key lets one creation    *)
(* through; a later enqueue of the key returns the row as it is.           *)
Enqueue(e) ==
  /\ status[e] = "absent"
  /\ status' = [status EXCEPT ![e] = "pending"]
  /\ UNCHANGED <<attempts, due, locked_by, lock_expired, workerVars, selected,
                 crashes, history>>

(* recover_abandoned_locks, one UPDATE, at the start of every batch. *)
RecoverAbandonedLocks(w) ==
  /\ pc[w] = "idle"
  /\ pc' = [pc EXCEPT ![w] = "claiming"]
  /\ status' = [e \in Event |-> IF Abandoned(e) THEN "retry" ELSE status[e]]
  /\ due' = [e \in Event |-> Abandoned(e) \/ due[e]]
  /\ locked_by' = [e \in Event |-> IF Abandoned(e) THEN NoOne ELSE locked_by[e]]
  /\ lock_expired' = [e \in Event |-> ~Abandoned(e) /\ lock_expired[e]]
  /\ claimant' = [e \in Event |-> IF Abandoned(e) THEN NoOne ELSE claimant[e]]
  /\ UNCHANGED <<attempts, batch, handling, selected, crashes, requeues, overdue>>

(* claim_outbox_events.  SKIP LOCKED, --event-type, --tenant and the order *)
(* by available_at make the batch any set of eligible events that fits;    *)
(* an empty one ends the run.                                              *)
Claim(w, S) ==
  /\ pc[w] = "claiming"
  /\ \A e \in S : Eligible(e)
  /\ Cardinality(S) <= BatchSize
  /\ status' = [e \in Event |-> IF e \in S THEN "processing" ELSE status[e]]
  /\ locked_by' = [e \in Event |-> IF e \in S THEN IdOf[w] ELSE locked_by[e]]
  /\ lock_expired' = [e \in Event |-> e \notin S /\ lock_expired[e]]
  /\ claimant' = [e \in Event |-> IF e \in S THEN w ELSE claimant[e]]
  /\ overdue' = [overdue EXCEPT ![w] = {}]
  /\ batch' = [batch EXCEPT ![w] = S]
  /\ pc' = [pc EXCEPT ![w] = IF S = {} THEN "idle" ELSE "working"]
  /\ UNCHANGED <<attempts, due, handling, selected, crashes, requeues>>

(* The next event of the loop is given to its handler, outside any         *)
(* transaction and whatever became of its lock meanwhile.                  *)
Handle(w, e) ==
  /\ pc[w] = "working"
  /\ handling[w] = NoOne
  /\ e \in batch[w]
  /\ handling' = [handling EXCEPT ![w] = e]
  /\ UNCHANGED <<eventVars, pc, batch, selected, crashes, history>>

(* The worker goes on to the next event of its batch. *)
EndOfEvent(w, e) ==
  /\ batch' = [batch EXCEPT ![w] = @ \ {e}]
  /\ handling' = [handling EXCEPT ![w] = NoOne]
  /\ pc' = [pc EXCEPT ![w] = IF batch[w] = {e} THEN "idle" ELSE "working"]

(* The handler returns (an exception is mapped to one of the failures) and *)
(* finalize_outbox_event records the outcome.                              *)
Finalize(w, e, outcome) ==
  LET final == FinalStatus(outcome, attempts[e] + 1)
  IN /\ handling[w] = e
     /\ MayFinalize(w, e)
     /\ status' = [status EXCEPT ![e] = final]
     /\ attempts' = [attempts EXCEPT ![e] = @ + 1]
     /\ due' = [due EXCEPT ![e] = final # "retry"]
     /\ locked_by' = [locked_by EXCEPT ![e] = NoOne]
     /\ lock_expired' = [lock_expired EXCEPT ![e] = FALSE]
     /\ claimant' = [claimant EXCEPT ![e] = NoOne]
     /\ EndOfEvent(w, e)
     /\ UNCHANGED <<selected, crashes, requeues, overdue>>

(* The lock is no longer the worker's: the outcome is dropped, with a log. *)
FinalizeRejected(w, e) ==
  /\ handling[w] = e
  /\ ~MayFinalize(w, e)
  /\ EndOfEvent(w, e)
  /\ UNCHANGED <<eventVars, selected, crashes, history>>

(* A worker dies: its batch is forgotten, its locks stay in the table. *)
Crash(w) ==
  /\ pc[w] # "idle"
  /\ crashes < MaxCrashes
  /\ crashes' = crashes + 1
  /\ pc' = [pc EXCEPT ![w] = "idle"]
  /\ batch' = [batch EXCEPT ![w] = {}]
  /\ handling' = [handling EXCEPT ![w] = NoOne]
  /\ claimant' = [e \in Event |-> IF claimant[e] = w THEN NoOne ELSE claimant[e]]
  /\ overdue' = [overdue EXCEPT ![w] = {}]
  /\ UNCHANGED <<eventVars, selected, requeues>>

(* The lock timeout passes.  The events of one claim share locked_at; that *)
(* they expire here one at a time only adds behaviours.                    *)
LockTimeoutElapses(e) ==
  /\ Processing(e)
  /\ ~lock_expired[e]
  /\ lock_expired' = [lock_expired EXCEPT ![e] = TRUE]
  /\ overdue' = [w \in Worker |->
                   IF claimant[e] = w THEN overdue[w] \cup {e} ELSE overdue[w]]
  /\ UNCHANGED <<status, attempts, due, locked_by, workerVars, selected, crashes,
                 requeues, claimant>>

(* calculate_backoff_seconds have passed since the last attempt. *)
BackoffElapses(e) ==
  /\ ~due[e]
  /\ due' = [due EXCEPT ![e] = TRUE]
  /\ UNCHANGED <<status, attempts, locked_by, lock_expired, workerVars, selected,
                 crashes, history>>

(* The event becomes pending, due at once and unlocked.  attempts stay.    *)
ManualRequeue(e) ==
  /\ \A f \in Event : requeues[f] < MaxRequeues
  /\ requeues' = [requeues EXCEPT ![e] = @ + 1]
  /\ status' = [status EXCEPT ![e] = "pending"]
  /\ due' = [due EXCEPT ![e] = TRUE]
  /\ locked_by' = [locked_by EXCEPT ![e] = NoOne]
  /\ lock_expired' = [lock_expired EXCEPT ![e] = FALSE]
  /\ claimant' = [claimant EXCEPT ![e] = NoOne]

(* execute_portal_crm_retry on a lead whose event exists: row locked, the  *)
(* status checked and the event requeued in one transaction.  For a lead   *)
(* without an event it is Enqueue; the other statuses change nothing.      *)
PortalRetry(e) ==
  /\ PortalAccepts(e)
  /\ ManualRequeue(e)
  /\ UNCHANGED <<attempts, workerVars, selected, crashes, overdue>>

(* requeue_outbox_events evaluates its queryset once, without locks ...    *)
AdminSelect(a, S) ==
  /\ selected[a] = {}
  /\ S # {}
  /\ \A e \in S : AdminAccepts(e)
  /\ selected' = [selected EXCEPT ![a] = S]
  /\ UNCHANGED <<eventVars, workerVars, crashes, history>>

(* ... and saves the rows one by one, each over whatever it has become.    *)
AdminSave(a, e) ==
  /\ e \in selected[a]
  /\ ManualRequeue(e)
  /\ selected' = [selected EXCEPT ![a] = @ \ {e}]
  /\ overdue' = [w \in Worker |->
                   IF claimant[e] = w THEN overdue[w] \cup {e} ELSE overdue[w]]
  /\ UNCHANGED <<attempts, workerVars, crashes>>

-----------------------------------------------------------------------------
WorkerStep(w) ==
  \/ RecoverAbandonedLocks(w)
  \/ \E S \in SUBSET Event : Claim(w, S)
  \/ \E e \in Event :
       \/ Handle(w, e)
       \/ \E outcome \in Outcome : Finalize(w, e, outcome)
       \/ FinalizeRejected(w, e)

Next ==
  \/ \E w \in Worker : WorkerStep(w) \/ Crash(w)
  \/ \E e \in Event :
       \/ Enqueue(e)
       \/ LockTimeoutElapses(e)
       \/ BackoffElapses(e)
       \/ PortalRetry(e)
  \/ \E a \in Admin :
       \/ \E S \in SUBSET Event : AdminSelect(a, S)
       \/ \E e \in Event : AdminSave(a, e)

Spec == Init /\ [][Next]_vars

(***************************************************************************)
(* Fairness, for the one liveness property.  Time passes.  Somebody keeps  *)
(* running process_outbox (docs/transactional_outbox.md, "Limitações": no  *)
(* scheduler does), a worker that is running goes on, and a handler        *)
(* returns, since every external call has a timeout.  An event that is due *)
(* over and over is claimed at last, because the claim takes the earliest  *)
(* available_at first.                                                     *)
(***************************************************************************)
Fairness ==
  /\ \A e \in Event : WF_vars(LockTimeoutElapses(e)) /\ WF_vars(BackoffElapses(e))
  /\ \A w \in Worker : WF_vars(WorkerStep(w))
  /\ \A e \in Event :
       SF_vars(\E w \in Worker, S \in SUBSET Event : e \in S /\ Claim(w, S))

FairSpec == Spec /\ Fairness

-----------------------------------------------------------------------------
(***************************************************************************)
(* Outbox implements OutboxLedger: an event is open until its status is    *)
(* terminal, and its budget is what retries and requeues have left of it.  *)
(***************************************************************************)
LedgerState ==
  [e \in Event |-> IF status[e] = "absent" THEN "absent"
                   ELSE IF status[e] \in Terminal THEN "closed" ELSE "open"]

LedgerBudget == [e \in Event |-> MaxAttempts + requeues[e] - attempts[e]]

Ledger == INSTANCE OutboxLedger WITH state <- LedgerState, budget <- LedgerBudget

TypeOK ==
  /\ status \in [Event -> Status]
  /\ attempts \in [Event -> Nat]
  /\ due \in [Event -> BOOLEAN]
  /\ locked_by \in [Event -> WorkerId \cup {NoOne}]
  /\ lock_expired \in [Event -> BOOLEAN]
  /\ pc \in [Worker -> {"idle", "claiming", "working"}]
  /\ batch \in [Worker -> SUBSET Event]
  /\ handling \in [Worker -> Event \cup {NoOne}]
  /\ selected \in [Admin -> SUBSET Event]
  /\ crashes \in 0..MaxCrashes
  /\ requeues \in [Event -> 0..MaxRequeues]
  /\ claimant \in [Event -> Worker \cup {NoOne}]
  /\ overdue \in [Worker -> SUBSET Event]

(* Every manual requeue grants an event one more attempt and no more: an   *)
(* event that may still be handled has recorded fewer than MaxAttempts     *)
(* outcomes beyond its requeues, however crashes, expired locks and        *)
(* requeues interleave (attempts is never reset by the requeues).          *)
RetryBudget ==
  \A e \in Event :
    attempts[e] <= MaxAttempts + requeues[e] - (IF status[e] \in Terminal THEN 0 ELSE 1)

(* Until its lock times out or the admin's action requeues it, a claimed   *)
(* event is its worker's: no crash, recovery, portal retry or claim of     *)
(* anyone else takes it away.                                              *)
ClaimKeptUntilTimeout ==
  \A w \in Worker : \A e \in batch[w] \ overdue[w] :
    Processing(e) /\ locked_by[e] = IdOf[w] /\ claimant[e] = w

(* Two workers hold one event together only if one of them lost its lock   *)
(* during its batch, by the timeout or by the admin's action.              *)
NoOverlapWithoutCause ==
  \A v, w \in Worker :
    v # w => batch[v] \cap batch[w] \subseteq overdue[v] \cup overdue[w]

(* Fencing: an attempt is recorded only by the incarnation whose claim the *)
(* lock stands for, never by a worker that was overtaken, provided no two  *)
(* processes share a worker id (build_worker_id's default).                *)
RecordedByClaimant ==
  [][\A e \in Event : attempts'[e] # attempts[e] =>
       \E w \in Worker : handling[w] = e /\ claimant[e] = w]_vars

(* The outbox records no more outcomes than the ledger's budget allows,    *)
(* reopens an event by hand only, and forgets none that it accepted.       *)
ImplementsLedger == Ledger!Spec

(* Every event that is enqueued is settled in the end: delivered, skipped  *)
(* or dead-lettered, through crashes, lost locks and retries - unless live *)
(* workers lose their locks for ever: recovery counts no attempt, so an    *)
(* event that outlives its lock each time is handled without end.          *)
EventuallySettled ==
  []<>(\E w \in Worker : overdue[w] # {})
    \/ \A e \in Event : status[e] = "pending" ~> status[e] \in Terminal
=============================================================================
