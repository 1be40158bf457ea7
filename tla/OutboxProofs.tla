---------------------------- MODULE OutboxProofs ----------------------------
(***************************************************************************)
(* Theorems about Outbox, for any number of events, workers and admins.    *)
(*                                                                         *)
(* The argument in short.  Structure ties a worker's loop to its batch.    *)
(* RetryBudget is inductive with the types.  Fencing rests on Claimed:     *)
(* where a worker holds an event whose row still carries its id, the row   *)
(* carries it because of this worker's own claim - true only because ids   *)
(* are not shared.  Kept adds that an event in a batch stays locked until  *)
(* its timeout or the admin's requeue.                                     *)
(***************************************************************************)
EXTENDS Outbox, TLAPS

(* build_worker_id without --worker-id: no two processes share an id. *)
UniqueIds == \A v, w \in Worker : IdOf[v] = IdOf[w] => v = w

(* A worker handles an event of its batch; it has a batch only inside the  *)
(* loop over it.                                                           *)
Structure ==
  \A w \in Worker : /\ handling[w] \in batch[w] \cup {NoOne}
                    /\ pc[w] # "working" => batch[w] = {}

(* A row that still carries the id of a worker that has the event in its   *)
(* batch carries it because of that worker's claim.                        *)
Claimed ==
  \A w \in Worker : \A e \in batch[w] :
    Processing(e) /\ locked_by[e] = IdOf[w] => claimant[e] = w

(* ClaimKeptUntilTimeout with what it takes to be inductive: the lock of   *)
(* an event that is not overdue is not expired either.                     *)
Kept ==
  \A w \in Worker : \A e \in batch[w] \ overdue[w] :
    /\ Processing(e)
    /\ ~lock_expired[e]
    /\ locked_by[e] = IdOf[w]
    /\ claimant[e] = w

USE OutboxAssumption

-----------------------------------------------------------------------------
LEMMA FinalStatusType ==
  ASSUME NEW outcome \in Outcome, NEW n \in Nat
  PROVE  FinalStatus(outcome, n) \in {"retry"} \cup Terminal
BY DEF FinalStatus, Outcome, Terminal

(* The outcome that leaves a retry leaves an attempt for it. *)
LEMMA RetryLeavesAttempt ==
  ASSUME NEW outcome \in Outcome, NEW n \in Nat, FinalStatus(outcome, n) = "retry"
  PROVE  n < MaxAttempts
BY DEF FinalStatus, Outcome, Exhausted

LEMMA TypeInit == Init => TypeOK
BY DEF Init, TypeOK, Status, Terminal

LEMMA TypeStep == TypeOK /\ [Next]_vars => TypeOK'
<1> SUFFICES ASSUME TypeOK, [Next]_vars
             PROVE  TypeOK'
  OBVIOUS
<1> USE DEF TypeOK, Status, Terminal
<1>1. ASSUME NEW w \in Worker, RecoverAbandonedLocks(w)
      PROVE  TypeOK'
  BY <1>1 DEF RecoverAbandonedLocks
<1>2. ASSUME NEW w \in Worker, NEW S \in SUBSET Event, Claim(w, S)
      PROVE  TypeOK'
  BY <1>2 DEF Claim
<1>3. ASSUME NEW w \in Worker, NEW e \in Event, Handle(w, e)
      PROVE  TypeOK'
  BY <1>3 DEF Handle, eventVars, history
<1>4. ASSUME NEW w \in Worker, NEW e \in Event, NEW outcome \in Outcome,
             Finalize(w, e, outcome)
      PROVE  TypeOK'
  <2>1. attempts[e] + 1 \in Nat
    OBVIOUS
  <2>2. FinalStatus(outcome, attempts[e] + 1) \in {"retry"} \cup Terminal
    BY <2>1, FinalStatusType
  <2>3. QED
    BY <1>4, <2>1, <2>2 DEF Finalize, EndOfEvent
<1>5. ASSUME NEW w \in Worker, NEW e \in Event, FinalizeRejected(w, e)
      PROVE  TypeOK'
  BY <1>5 DEF FinalizeRejected, EndOfEvent, eventVars, history
<1>6. ASSUME NEW w \in Worker, Crash(w)
      PROVE  TypeOK'
  BY <1>6 DEF Crash, eventVars
<1>7. ASSUME NEW e \in Event, Enqueue(e)
      PROVE  TypeOK'
  BY <1>7 DEF Enqueue, workerVars, history
<1>8. ASSUME NEW e \in Event, LockTimeoutElapses(e)
      PROVE  TypeOK'
  BY <1>8 DEF LockTimeoutElapses, workerVars
<1>9. ASSUME NEW e \in Event, BackoffElapses(e)
      PROVE  TypeOK'
  BY <1>9 DEF BackoffElapses, workerVars, history
<1>10. ASSUME NEW e \in Event, PortalRetry(e)
       PROVE  TypeOK'
  BY <1>10 DEF PortalRetry, ManualRequeue, workerVars
<1>11. ASSUME NEW a \in Admin, NEW S \in SUBSET Event, AdminSelect(a, S)
       PROVE  TypeOK'
  BY <1>11 DEF AdminSelect, eventVars, workerVars, history
<1>12. ASSUME NEW a \in Admin, NEW e \in Event, AdminSave(a, e)
       PROVE  TypeOK'
  BY <1>12 DEF AdminSave, ManualRequeue, workerVars
<1>13. CASE UNCHANGED vars
  BY <1>13 DEF vars, eventVars, workerVars, history
<1>14. QED
  BY <1>1, <1>2, <1>3, <1>4, <1>5, <1>6, <1>7, <1>8, <1>9, <1>10, <1>11, <1>12,
     <1>13 DEF Next, WorkerStep

(* Every reachable state of the outbox is well typed. *)
THEOREM TypeCorrect == Spec => []TypeOK
BY TypeInit, TypeStep, PTL DEF Spec

-----------------------------------------------------------------------------
LEMMA BudgetInit == Init => RetryBudget
BY DEF Init, RetryBudget, Terminal

LEMMA BudgetStep == TypeOK /\ RetryBudget /\ [Next]_vars => RetryBudget'
<1> SUFFICES ASSUME TypeOK, RetryBudget, [Next]_vars
             PROVE  RetryBudget'
  OBVIOUS
<1> USE DEF TypeOK, RetryBudget, Status, Terminal
<1>1. ASSUME NEW w \in Worker, RecoverAbandonedLocks(w)
      PROVE  RetryBudget'
  BY <1>1 DEF RecoverAbandonedLocks, Abandoned, Processing
<1>2. ASSUME NEW w \in Worker, NEW S \in SUBSET Event, Claim(w, S)
      PROVE  RetryBudget'
  BY <1>2 DEF Claim, Eligible
<1>3. ASSUME NEW w \in Worker, NEW e \in Event, NEW outcome \in Outcome,
             Finalize(w, e, outcome)
      PROVE  RetryBudget'
  <2> DEFINE final == FinalStatus(outcome, attempts[e] + 1)
  <2>1. attempts[e] + 1 \in Nat
    OBVIOUS
  <2>2. final \in {"retry"} \cup Terminal
    BY <2>1, FinalStatusType
  <2>3. final = "retry" => attempts[e] + 1 < MaxAttempts
    BY <2>1, RetryLeavesAttempt
  <2>4. /\ status' = [status EXCEPT ![e] = final]
        /\ attempts' = [attempts EXCEPT ![e] = @ + 1]
        /\ requeues' = requeues
        /\ status[e] = "processing"
    BY <1>3 DEF Finalize, MayFinalize, Processing
  <2> HIDE DEF final
  <2>5. QED
    BY <2>2, <2>3, <2>4
<1>4. ASSUME NEW e \in Event, Enqueue(e)
      PROVE  RetryBudget'
  BY <1>4 DEF Enqueue, history
<1>5. ASSUME NEW e \in Event, ManualRequeue(e), UNCHANGED attempts
      PROVE  RetryBudget'
  BY <1>5 DEF ManualRequeue
<1>6. ASSUME NEW e \in Event, PortalRetry(e)
      PROVE  RetryBudget'
  BY <1>5, <1>6 DEF PortalRetry
<1>7. ASSUME NEW a \in Admin, NEW e \in Event, AdminSave(a, e)
      PROVE  RetryBudget'
  BY <1>5, <1>7 DEF AdminSave
<1>8. ASSUME UNCHANGED <<status, attempts, requeues>>
      PROVE  RetryBudget'
  BY <1>8
<1>9. ASSUME NEW w \in Worker, NEW e \in Event, Handle(w, e) \/ FinalizeRejected(w, e)
      PROVE  RetryBudget'
  BY <1>8, <1>9 DEF Handle, FinalizeRejected, eventVars, history
<1>10. ASSUME NEW w \in Worker, Crash(w)
       PROVE  RetryBudget'
  BY <1>8, <1>10 DEF Crash, eventVars
<1>11. ASSUME NEW e \in Event, LockTimeoutElapses(e) \/ BackoffElapses(e)
       PROVE  RetryBudget'
  BY <1>8, <1>11 DEF LockTimeoutElapses, BackoffElapses, history
<1>12. ASSUME NEW a \in Admin, NEW S \in SUBSET Event, AdminSelect(a, S)
       PROVE  RetryBudget'
  BY <1>8, <1>12 DEF AdminSelect, eventVars, history
<1>13. CASE UNCHANGED vars
  BY <1>8, <1>13 DEF vars, eventVars, history
<1>14. QED
  BY <1>1, <1>2, <1>3, <1>4, <1>6, <1>7, <1>9, <1>10, <1>11, <1>12, <1>13
     DEF Next, WorkerStep

(* However crashes, timeouts, retries and requeues interleave, an event    *)
(* records at most MaxAttempts outcomes and one more for each requeue, and *)
(* one that may still be handled has an attempt left.                      *)
THEOREM BudgetHolds == Spec => []RetryBudget
BY TypeCorrect, BudgetInit, BudgetStep, PTL DEF Spec

-----------------------------------------------------------------------------
LEMMA StructureInit == Init => Structure
BY DEF Init, Structure

LEMMA StructureStep == TypeOK /\ Structure /\ [Next]_vars => Structure'
<1> SUFFICES ASSUME TypeOK, Structure, [Next]_vars
             PROVE  Structure'
  OBVIOUS
<1> USE DEF TypeOK, Structure
<1>1. ASSUME UNCHANGED workerVars
      PROVE  Structure'
  BY <1>1 DEF workerVars
<1>2. ASSUME NEW w \in Worker, NEW e \in Event, handling[w] = e, EndOfEvent(w, e)
      PROVE  Structure'
  BY <1>2 DEF EndOfEvent
<1>3. ASSUME NEW w \in Worker, WorkerStep(w) \/ Crash(w)
      PROVE  Structure'
  <2>1. CASE RecoverAbandonedLocks(w)
    BY <2>1 DEF RecoverAbandonedLocks
  <2>2. ASSUME NEW S \in SUBSET Event, Claim(w, S)
        PROVE  Structure'
    BY <2>2 DEF Claim
  <2>3. ASSUME NEW e \in Event, Handle(w, e)
        PROVE  Structure'
    BY <2>3 DEF Handle
  <2>4. ASSUME NEW e \in Event, NEW outcome \in Outcome, Finalize(w, e, outcome)
        PROVE  Structure'
    BY <1>2, <2>4 DEF Finalize
  <2>5. ASSUME NEW e \in Event, FinalizeRejected(w, e)
        PROVE  Structure'
    BY <1>2, <2>5 DEF FinalizeRejected
  <2>6. CASE Crash(w)
    BY <2>6 DEF Crash
  <2>7. QED
    BY <1>3, <2>1, <2>2, <2>3, <2>4, <2>5, <2>6 DEF WorkerStep
<1>4. ASSUME NEW e \in Event,
             Enqueue(e) \/ LockTimeoutElapses(e) \/ BackoffElapses(e) \/ PortalRetry(e)
      PROVE  Structure'
  BY <1>1, <1>4 DEF Enqueue, LockTimeoutElapses, BackoffElapses, PortalRetry
<1>5. ASSUME NEW a \in Admin, NEW S \in SUBSET Event, AdminSelect(a, S)
      PROVE  Structure'
  BY <1>1, <1>5 DEF AdminSelect
<1>6. ASSUME NEW a \in Admin, NEW e \in Event, AdminSave(a, e)
      PROVE  Structure'
  BY <1>1, <1>6 DEF AdminSave
<1>7. CASE UNCHANGED vars
  BY <1>1, <1>7 DEF vars
<1>8. QED
  BY <1>3, <1>4, <1>5, <1>6, <1>7 DEF Next

LEMMA ClaimedInit == Init => Claimed
BY DEF Init, Claimed

LEMMA ClaimedStep ==
  UniqueIds /\ TypeOK /\ Structure /\ Claimed /\ [Next]_vars => Claimed'
<1> SUFFICES ASSUME UniqueIds, TypeOK, Structure, Claimed, [Next]_vars
             PROVE  Claimed'
  OBVIOUS
<1> USE DEF TypeOK, Claimed, Processing
<1>1. ASSUME UNCHANGED <<batch, status, locked_by, claimant>>
      PROVE  Claimed'
  BY <1>1
<1>2. ASSUME NEW w \in Worker, WorkerStep(w) \/ Crash(w)
      PROVE  Claimed'
  <2>1. CASE RecoverAbandonedLocks(w)
    BY <2>1 DEF RecoverAbandonedLocks
  <2>2. ASSUME NEW S \in SUBSET Event, Claim(w, S)
        PROVE  Claimed'
    BY <2>2 DEF Claim, UniqueIds
  <2>3. ASSUME NEW e \in Event, Handle(w, e)
        PROVE  Claimed'
    BY <1>1, <2>3 DEF Handle, eventVars, history
  <2>4. ASSUME NEW e \in Event, NEW outcome \in Outcome, Finalize(w, e, outcome)
        PROVE  Claimed'
    BY <2>4 DEF Finalize, EndOfEvent
  <2>5. ASSUME NEW e \in Event, FinalizeRejected(w, e)
        PROVE  Claimed'
    BY <2>5 DEF FinalizeRejected, EndOfEvent, eventVars, history
  <2>6. CASE Crash(w)
    BY <2>6 DEF Crash, eventVars
  <2>7. QED
    BY <1>2, <2>1, <2>2, <2>3, <2>4, <2>5, <2>6 DEF WorkerStep
<1>3. ASSUME NEW e \in Event, ManualRequeue(e), UNCHANGED workerVars
      PROVE  Claimed'
  BY <1>3 DEF ManualRequeue, workerVars
<1>4. ASSUME NEW e \in Event, Enqueue(e)
      PROVE  Claimed'
  BY <1>4 DEF Enqueue, workerVars, history
<1>5. ASSUME NEW e \in Event, LockTimeoutElapses(e) \/ BackoffElapses(e)
      PROVE  Claimed'
  BY <1>1, <1>5 DEF LockTimeoutElapses, BackoffElapses, workerVars, history
<1>6. ASSUME NEW e \in Event, PortalRetry(e)
      PROVE  Claimed'
  BY <1>3, <1>6 DEF PortalRetry
<1>7. ASSUME NEW a \in Admin, NEW S \in SUBSET Event, AdminSelect(a, S)
      PROVE  Claimed'
  BY <1>1, <1>7 DEF AdminSelect, eventVars, workerVars, history
<1>8. ASSUME NEW a \in Admin, NEW e \in Event, AdminSave(a, e)
      PROVE  Claimed'
  BY <1>3, <1>8 DEF AdminSave
<1>9. CASE UNCHANGED vars
  BY <1>1, <1>9 DEF vars, eventVars, workerVars, history
<1>10. QED
  BY <1>2, <1>4, <1>5, <1>6, <1>7, <1>8, <1>9 DEF Next

(* A recorded outcome comes from the worker the claim belongs to. *)
LEMMA AttemptByClaimant ==
  ASSUME TypeOK, Structure, Claimed, [Next]_vars,
         NEW e \in Event, attempts'[e] # attempts[e]
  PROVE  \E w \in Worker : handling[w] = e /\ claimant[e] = w
<1>1. PICK w \in Worker, f \in Event, outcome \in Outcome : Finalize(w, f, outcome)
  BY DEF Next, WorkerStep, RecoverAbandonedLocks, Claim, Handle, FinalizeRejected,
         Crash, Enqueue, LockTimeoutElapses, BackoffElapses, PortalRetry,
         AdminSelect, AdminSave, vars, eventVars
<1>2. f = e /\ handling[w] = e /\ MayFinalize(w, e)
  BY <1>1 DEF Finalize, TypeOK
<1>3. e \in batch[w]
  BY <1>2 DEF Structure
<1>4. QED
  BY <1>2, <1>3 DEF Claimed, MayFinalize

(* Fencing: with unshared worker ids no overtaken worker, whatever crashed *)
(* or timed out in between, has its outcome recorded.                      *)
THEOREM Fencing == UniqueIds => (Spec => RecordedByClaimant)
<1> SUFFICES ASSUME UniqueIds
             PROVE  Spec => RecordedByClaimant
  OBVIOUS
<1>1. Init => Structure /\ Claimed
  BY StructureInit, ClaimedInit
<1>2. TypeOK /\ Structure /\ Claimed /\ [Next]_vars => (Structure /\ Claimed)'
  BY StructureStep, ClaimedStep
<1>3. TypeOK /\ Structure /\ Claimed /\ [Next]_vars
        => [\A e \in Event : attempts'[e] # attempts[e] =>
              \E w \in Worker : handling[w] = e /\ claimant[e] = w]_vars
  BY AttemptByClaimant
<1>4. QED
  BY <1>1, <1>2, <1>3, TypeCorrect, PTL DEF Spec, RecordedByClaimant

-----------------------------------------------------------------------------
LEMMA KeptInit == Init => Kept
BY DEF Init, Kept

LEMMA KeptStep ==
  UniqueIds /\ TypeOK /\ Structure /\ Kept /\ [Next]_vars => Kept'
<1> SUFFICES ASSUME UniqueIds, TypeOK, Structure, Kept, [Next]_vars
             PROVE  Kept'
  OBVIOUS
<1> USE DEF TypeOK, Kept, Processing
<1>1. ASSUME UNCHANGED <<batch, overdue, status, lock_expired, locked_by, claimant>>
      PROVE  Kept'
  BY <1>1
<1>2. ASSUME NEW w \in Worker, WorkerStep(w) \/ Crash(w)
      PROVE  Kept'
  <2>1. CASE RecoverAbandonedLocks(w)
    BY <2>1 DEF RecoverAbandonedLocks, Abandoned
  <2>2. ASSUME NEW S \in SUBSET Event, Claim(w, S)
        PROVE  Kept'
    <3>1. ASSUME NEW v \in Worker, NEW e \in batch'[v] \ overdue'[v], v # w
          PROVE  e \notin S /\ e \in batch[v] \ overdue[v]
      <4>1. e \in batch[v] \ overdue[v]
        BY <2>2, <3>1 DEF Claim
      <4>2. status[e] = "processing"
        BY <4>1
      <4>3. QED
        BY <2>2, <4>1, <4>2 DEF Claim, Eligible
    <3>2. ASSUME NEW e \in batch'[w]
          PROVE  e \in S
      BY <2>2, <3>2 DEF Claim
    <3>3. ASSUME NEW e \in S
          PROVE  /\ status'[e] = "processing"
                 /\ ~lock_expired'[e]
                 /\ locked_by'[e] = IdOf[w]
                 /\ claimant'[e] = w
      BY <2>2, <3>3 DEF Claim
    <3>4. ASSUME NEW e \in Event \ S
          PROVE  /\ status'[e] = status[e]
                 /\ lock_expired'[e] = lock_expired[e]
                 /\ locked_by'[e] = locked_by[e]
                 /\ claimant'[e] = claimant[e]
      BY <2>2, <3>4 DEF Claim
    <3>5. QED
      BY <3>1, <3>2, <3>3, <3>4
  <2>3. ASSUME NEW e \in Event, Handle(w, e)
        PROVE  Kept'
    BY <1>1, <2>3 DEF Handle, eventVars, history
  <2>4. ASSUME NEW e \in Event, NEW outcome \in Outcome, Finalize(w, e, outcome)
        PROVE  Kept'
    BY <2>4 DEF Finalize, EndOfEvent, MayFinalize, UniqueIds
  <2>5. ASSUME NEW e \in Event, FinalizeRejected(w, e)
        PROVE  Kept'
    BY <2>5 DEF FinalizeRejected, EndOfEvent, eventVars, history
  <2>6. CASE Crash(w)
    BY <2>6 DEF Crash, eventVars
  <2>7. QED
    BY <1>2, <2>1, <2>2, <2>3, <2>4, <2>5, <2>6 DEF WorkerStep
<1>3. ASSUME NEW e \in Event, PortalRetry(e)
      PROVE  Kept'
  BY <1>3 DEF PortalRetry, PortalAccepts, ManualRequeue, workerVars
<1>4. ASSUME NEW e \in Event, Enqueue(e)
      PROVE  Kept'
  BY <1>4 DEF Enqueue, workerVars, history
<1>5. ASSUME NEW e \in Event, LockTimeoutElapses(e)
      PROVE  Kept'
  BY <1>5 DEF LockTimeoutElapses, workerVars
<1>6. ASSUME NEW e \in Event, BackoffElapses(e)
      PROVE  Kept'
  BY <1>1, <1>6 DEF BackoffElapses, workerVars, history
<1>7. ASSUME NEW a \in Admin, NEW S \in SUBSET Event, AdminSelect(a, S)
      PROVE  Kept'
  BY <1>1, <1>7 DEF AdminSelect, eventVars, workerVars, history
<1>8. ASSUME NEW a \in Admin, NEW e \in Event, AdminSave(a, e)
      PROVE  Kept'
  <2>1. ASSUME NEW w \in Worker, NEW f \in batch'[w] \ overdue'[w]
        PROVE  f # e /\ f \in batch[w] \ overdue[w]
    BY <1>8, <2>1 DEF AdminSave, ManualRequeue, workerVars
  <2>2. QED
    BY <1>8, <2>1 DEF AdminSave, ManualRequeue, workerVars
<1>9. CASE UNCHANGED vars
  BY <1>1, <1>9 DEF vars, eventVars, workerVars, history
<1>10. QED
  BY <1>2, <1>3, <1>4, <1>5, <1>6, <1>7, <1>8, <1>9 DEF Next

LEMMA KeptGivesClaims ==
  Kept => ClaimKeptUntilTimeout /\ NoOverlapWithoutCause
<1> SUFFICES ASSUME Kept
             PROVE  ClaimKeptUntilTimeout /\ NoOverlapWithoutCause
  OBVIOUS
<1>1. ClaimKeptUntilTimeout
  BY DEF Kept, ClaimKeptUntilTimeout
<1>2. ASSUME NEW v \in Worker, NEW w \in Worker, v # w,
             NEW e \in batch[v] \cap batch[w], e \notin overdue[v] \cup overdue[w]
      PROVE  FALSE
  BY <1>2 DEF Kept
<1>3. QED
  BY <1>1, <1>2 DEF NoOverlapWithoutCause

(* Where ids are not shared, a claimed event stays its worker's until the  *)
(* lock times out or the admin's action requeues it ...                    *)
THEOREM ClaimsHold ==
  UniqueIds => (Spec => []ClaimKeptUntilTimeout)
<1> SUFFICES ASSUME UniqueIds
             PROVE  Spec => []ClaimKeptUntilTimeout
  OBVIOUS
<1>1. Init => Structure /\ Kept
  BY StructureInit, KeptInit
<1>2. TypeOK /\ Structure /\ Kept /\ [Next]_vars => (Structure /\ Kept)'
  BY StructureStep, KeptStep
<1>3. Kept => ClaimKeptUntilTimeout
  BY KeptGivesClaims
<1>4. QED
  BY <1>1, <1>2, <1>3, TypeCorrect, PTL DEF Spec

(* ... and two workers hold an event together only past one of the two.    *)
THEOREM OverlapNeedsCause ==
  UniqueIds => (Spec => []NoOverlapWithoutCause)
<1> SUFFICES ASSUME UniqueIds
             PROVE  Spec => []NoOverlapWithoutCause
  OBVIOUS
<1>1. Init => Structure /\ Kept
  BY StructureInit, KeptInit
<1>2. TypeOK /\ Structure /\ Kept /\ [Next]_vars => (Structure /\ Kept)'
  BY StructureStep, KeptStep
<1>3. Kept => NoOverlapWithoutCause
  BY KeptGivesClaims
<1>4. QED
  BY <1>1, <1>2, <1>3, TypeCorrect, PTL DEF Spec

-----------------------------------------------------------------------------
(* The rows an admin has selected are rows of the table. *)
SelectedExist == \A a \in Admin : \A e \in selected[a] : status[e] # "absent"

LEMMA SelectedInit == Init => SelectedExist
BY DEF Init, SelectedExist

LEMMA SelectedStep == TypeOK /\ SelectedExist /\ [Next]_vars => SelectedExist'
<1> SUFFICES ASSUME TypeOK, SelectedExist, [Next]_vars
             PROVE  SelectedExist'
  OBVIOUS
<1> USE DEF TypeOK, SelectedExist, Status, Terminal
<1>1. ASSUME NEW e \in Event, status[e] # "absent"
      PROVE  status'[e] # "absent"
  <2>1. ASSUME NEW w \in Worker, NEW f \in Event, NEW outcome \in Outcome,
               Finalize(w, f, outcome)
        PROVE  status'[e] # "absent"
    <3>1. attempts[f] + 1 \in Nat
      OBVIOUS
    <3>2. FinalStatus(outcome, attempts[f] + 1) \in {"retry"} \cup Terminal
      BY <3>1, FinalStatusType
    <3>3. QED
      BY <1>1, <2>1, <3>2 DEF Finalize
  <2>2. CASE ~ \E w \in Worker, f \in Event, outcome \in Outcome : Finalize(w, f, outcome)
    BY <1>1, <2>2 DEF Next, WorkerStep, RecoverAbandonedLocks, Claim, Handle,
       FinalizeRejected, Crash, Enqueue, LockTimeoutElapses, BackoffElapses,
       PortalRetry, AdminSelect, AdminSave, ManualRequeue, vars, eventVars
  <2>3. QED
    BY <2>1, <2>2
<1>2. ASSUME NEW a \in Admin, NEW e \in selected'[a]
      PROVE  e \in selected[a] \/ AdminAccepts(e)
  BY <1>2 DEF Next, WorkerStep, RecoverAbandonedLocks, Claim, Handle, Finalize,
     FinalizeRejected, Crash, Enqueue, LockTimeoutElapses, BackoffElapses,
     PortalRetry, AdminSelect, AdminSave, vars
<1>3. TypeOK'
  BY TypeStep
<1>4. QED
  BY <1>1, <1>2, <1>3 DEF AdminAccepts

LEMMA LedgerInit == Init => Ledger!Init
BY DEF Init, Ledger!Init, LedgerState, LedgerBudget

LEMMA LedgerStep ==
  TypeOK /\ RetryBudget /\ SelectedExist /\ [Next]_vars => [Ledger!Next]_(Ledger!vars)
<1> SUFFICES ASSUME TypeOK, RetryBudget, SelectedExist, [Next]_vars
             PROVE  [Ledger!Next]_(Ledger!vars)
  OBVIOUS
<1> USE DEF TypeOK, Status, Terminal
<1>1. ASSUME UNCHANGED <<attempts, requeues>>,
             \A e \in Event : /\ status'[e] = "absent" <=> status[e] = "absent"
                              /\ status'[e] \in Terminal <=> status[e] \in Terminal
      PROVE  UNCHANGED Ledger!vars
  <2>1. LedgerState' = LedgerState
    BY <1>1 DEF LedgerState
  <2>2. LedgerBudget' = LedgerBudget
    BY <1>1 DEF LedgerBudget
  <2>3. QED
    BY <2>1, <2>2 DEF Ledger!vars
<1>2. ASSUME NEW w \in Worker, WorkerStep(w) \/ Crash(w)
      PROVE  [Ledger!Next]_(Ledger!vars)
  <2>1. CASE RecoverAbandonedLocks(w)
    BY <1>1, <2>1 DEF RecoverAbandonedLocks, Abandoned, Processing
  <2>2. ASSUME NEW S \in SUBSET Event, Claim(w, S)
        PROVE  [Ledger!Next]_(Ledger!vars)
    BY <1>1, <2>2 DEF Claim, Eligible
  <2>3. ASSUME NEW e \in Event, Handle(w, e)
        PROVE  [Ledger!Next]_(Ledger!vars)
    BY <1>1, <2>3 DEF Handle, eventVars, history
  <2>4. ASSUME NEW e \in Event, NEW outcome \in Outcome, Finalize(w, e, outcome)
        PROVE  [Ledger!Next]_(Ledger!vars)
    <3> DEFINE final == FinalStatus(outcome, attempts[e] + 1)
    <3>1. attempts[e] + 1 \in Nat
      OBVIOUS
    <3>2. final \in {"retry"} \cup Terminal
      BY <3>1, FinalStatusType
    <3>3. final = "retry" => attempts[e] + 1 < MaxAttempts
      BY <3>1, RetryLeavesAttempt
    <3>4. /\ status' = [status EXCEPT ![e] = final]
          /\ attempts' = [attempts EXCEPT ![e] = @ + 1]
          /\ requeues' = requeues
          /\ status[e] = "processing"
      BY <2>4 DEF Finalize, MayFinalize, Processing
    <3> HIDE DEF final
    <3>5. LedgerState[e] = "open" /\ LedgerBudget[e] > 0
      BY <3>4 DEF RetryBudget, LedgerState, LedgerBudget
    <3>6. LedgerBudget' = [LedgerBudget EXCEPT ![e] = @ - 1]
      <4>1. ASSUME NEW f \in Event
            PROVE  MaxAttempts + requeues'[f] - attempts'[f]
                     = IF f = e THEN LedgerBudget[e] - 1 ELSE LedgerBudget[f]
        BY <3>4 DEF LedgerBudget
      <4>2. QED
        BY <4>1 DEF LedgerBudget
    <3>7. CASE final = "retry"
      <4>1. LedgerState' = LedgerState
        BY <3>4, <3>7 DEF LedgerState
      <4>2. LedgerBudget[e] > 1
        BY <3>3, <3>7 DEF LedgerBudget
      <4>3. Ledger!RecordFailure(e)
        BY <3>5, <3>6, <4>1, <4>2 DEF Ledger!RecordFailure
      <4>4. QED
        BY <4>3 DEF Ledger!Next
    <3>8. CASE final \in Terminal
      <4>1. LedgerState' = [LedgerState EXCEPT ![e] = "closed"]
        BY <3>4, <3>8 DEF LedgerState
      <4>2. Ledger!Close(e)
        BY <3>5, <3>6, <4>1 DEF Ledger!Close
      <4>3. QED
        BY <4>2 DEF Ledger!Next
    <3>9. QED
      BY <3>2, <3>7, <3>8
  <2>5. ASSUME NEW e \in Event, FinalizeRejected(w, e)
        PROVE  [Ledger!Next]_(Ledger!vars)
    BY <1>1, <2>5 DEF FinalizeRejected, eventVars, history
  <2>6. CASE Crash(w)
    BY <1>1, <2>6 DEF Crash, eventVars
  <2>7. QED
    BY <1>2, <2>1, <2>2, <2>3, <2>4, <2>5, <2>6 DEF WorkerStep
<1>3. ASSUME NEW e \in Event, Enqueue(e)
      PROVE  [Ledger!Next]_(Ledger!vars)
  <2>1. LedgerState[e] = "absent" /\ LedgerState' = [LedgerState EXCEPT ![e] = "open"]
    BY <1>3 DEF Enqueue, LedgerState
  <2>2. LedgerBudget' = LedgerBudget
    BY <1>3 DEF Enqueue, history, LedgerBudget
  <2>3. Ledger!Accept(e)
    BY <2>1, <2>2 DEF Ledger!Accept
  <2>4. QED
    BY <2>3 DEF Ledger!Next
<1>4. ASSUME NEW e \in Event, ManualRequeue(e), UNCHANGED attempts, status[e] # "absent"
      PROVE  [Ledger!Next]_(Ledger!vars)
  <2>1. LedgerState[e] # "absent" /\ LedgerState' = [LedgerState EXCEPT ![e] = "open"]
    BY <1>4 DEF ManualRequeue, LedgerState
  <2>2. LedgerBudget' = [LedgerBudget EXCEPT ![e] = @ + 1]
    <3>1. ASSUME NEW f \in Event
          PROVE  MaxAttempts + requeues'[f] - attempts'[f]
                   = IF f = e THEN LedgerBudget[e] + 1 ELSE LedgerBudget[f]
      BY <1>4 DEF ManualRequeue, LedgerBudget
    <3>2. QED
      BY <3>1 DEF LedgerBudget
  <2>3. Ledger!Requeue(e)
    BY <2>1, <2>2 DEF Ledger!Requeue
  <2>4. QED
    BY <2>3 DEF Ledger!Next
<1>5. ASSUME NEW e \in Event, PortalRetry(e)
      PROVE  [Ledger!Next]_(Ledger!vars)
  BY <1>4, <1>5 DEF PortalRetry, PortalAccepts
<1>6. ASSUME NEW e \in Event, LockTimeoutElapses(e) \/ BackoffElapses(e)
      PROVE  [Ledger!Next]_(Ledger!vars)
  BY <1>1, <1>6 DEF LockTimeoutElapses, BackoffElapses, history
<1>7. ASSUME NEW a \in Admin, NEW S \in SUBSET Event, AdminSelect(a, S)
      PROVE  [Ledger!Next]_(Ledger!vars)
  BY <1>1, <1>7 DEF AdminSelect, eventVars, history
<1>8. ASSUME NEW a \in Admin, NEW e \in Event, AdminSave(a, e)
      PROVE  [Ledger!Next]_(Ledger!vars)
  BY <1>4, <1>8 DEF AdminSave, SelectedExist
<1>9. CASE UNCHANGED vars
  BY <1>1, <1>9 DEF vars, eventVars, history
<1>10. QED
  BY <1>2, <1>3, <1>5, <1>6, <1>7, <1>8, <1>9 DEF Next

(* The outbox implements the ledger: attempts, requeues and outcomes are   *)
(* accounted for as the abstract specification promises.                   *)
THEOREM OutboxImplementsLedger == Spec => ImplementsLedger
<1>1. Init => SelectedExist
  BY SelectedInit
<1>2. TypeOK /\ SelectedExist /\ [Next]_vars => SelectedExist'
  BY SelectedStep
<1>3. Init => Ledger!Init
  BY LedgerInit
<1>4. TypeOK /\ RetryBudget /\ SelectedExist /\ [Next]_vars => [Ledger!Next]_(Ledger!vars)
  BY LedgerStep
<1>5. QED
  BY <1>1, <1>2, <1>3, <1>4, TypeCorrect, BudgetHolds, PTL
     DEF Spec, ImplementsLedger, Ledger!Spec

-----------------------------------------------------------------------------
(* An event whose lock was not lost, worker ids shared or not: what        *)
(* handlers rely on (LeadProofs, HandoffProofs).                           *)
Held(e) ==
  \A w \in Worker : e \in batch[w] =>
    Processing(e) /\ ~lock_expired[e] /\ locked_by[e] = IdOf[w] /\ claimant[e] = w

(* While its lock is not lost, an event is its claimant's alone. *)
LEMMA HeldAlone ==
  ASSUME Structure, NEW e \in Event, Held(e), NEW v \in Worker, NEW w \in Worker,
         handling[v] = e, handling[w] = e
  PROVE  v = w
<1>1. e \in batch[v] /\ e \in batch[w]
  BY DEF Structure
<1>2. QED
  BY <1>1 DEF Held

(* No step of the outbox but a timeout or the admin's action takes an      *)
(* event that is held from its claimant.                                   *)
LEMMA HeldStep ==
  ASSUME TypeOK, Structure, NEW e \in Event, Held(e),
         \/ UNCHANGED vars
         \/ \E w \in Worker :
              \/ RecoverAbandonedLocks(w) \/ Crash(w)
              \/ \E S \in SUBSET Event : Claim(w, S)
              \/ \E f \in Event :
                   \/ Handle(w, f) \/ FinalizeRejected(w, f)
                   \/ \E outcome \in Outcome : Finalize(w, f, outcome)
         \/ \E f \in Event : Enqueue(f) \/ BackoffElapses(f) \/ PortalRetry(f)
         \/ \E a \in Admin, S \in SUBSET Event : AdminSelect(a, S)
  PROVE  Held(e)'
<1> USE DEF TypeOK, Held, Processing
<1>1. ASSUME UNCHANGED <<batch, status, lock_expired, locked_by, claimant>>
      PROVE  Held(e)'
  BY <1>1
<1>2. ASSUME NEW w \in Worker, RecoverAbandonedLocks(w)
      PROVE  Held(e)'
  BY <1>2 DEF RecoverAbandonedLocks, Abandoned
<1>3. ASSUME NEW w \in Worker, Crash(w)
      PROVE  Held(e)'
  <2>1. /\ batch' = [batch EXCEPT ![w] = {}] /\ UNCHANGED <<status, locked_by, lock_expired>>
        /\ claimant' = [f \in Event |-> IF claimant[f] = w THEN NoOne ELSE claimant[f]]
    BY <1>3 DEF Crash, eventVars
  <2>2. QED
    BY <2>1
<1>4. ASSUME NEW w \in Worker, NEW S \in SUBSET Event, Claim(w, S)
      PROVE  Held(e)'
  <2>1. CASE e \in S
    <3>1. status[e] # "processing"
      BY <1>4, <2>1 DEF Claim, Eligible
    <3>2. \A v \in Worker : e \notin batch[v]
      BY <3>1
    <3>3. QED
      BY <1>4, <2>1, <3>2 DEF Claim
  <2>2. CASE e \notin S
    BY <1>4, <2>2 DEF Claim
  <2>3. QED
    BY <2>1, <2>2
<1>5. ASSUME NEW w \in Worker, NEW f \in Event, NEW outcome \in Outcome, Finalize(w, f, outcome)
      PROVE  Held(e)'
  <2>1. f \in batch[w]
    BY <1>5 DEF Finalize, Structure
  <2>2. CASE f = e
    <3>1. \A v \in Worker : e \notin batch'[v]
      BY <1>5, <2>1, <2>2 DEF Finalize, EndOfEvent
    <3>2. QED
      BY <3>1
  <2>3. CASE f # e
    BY <1>5, <2>3 DEF Finalize, EndOfEvent
  <2>4. QED
    BY <2>2, <2>3
<1>6. ASSUME NEW w \in Worker, NEW f \in Event, FinalizeRejected(w, f)
      PROVE  Held(e)'
  BY <1>6 DEF FinalizeRejected, EndOfEvent, eventVars, history
<1>7. ASSUME NEW f \in Event, Enqueue(f) \/ PortalRetry(f)
      PROVE  Held(e)'
  BY <1>7 DEF Enqueue, PortalRetry, PortalAccepts, ManualRequeue, workerVars, history
<1>8. ASSUME NEW f \in Event, BackoffElapses(f) \/ \E w \in Worker : Handle(w, f)
      PROVE  Held(e)'
  BY <1>1, <1>8 DEF BackoffElapses, Handle, eventVars, workerVars, history
<1>9. ASSUME NEW a \in Admin, NEW S \in SUBSET Event, AdminSelect(a, S)
      PROVE  Held(e)'
  BY <1>1, <1>9 DEF AdminSelect, eventVars, workerVars, history
<1>10. CASE UNCHANGED vars
  BY <1>1, <1>10 DEF vars, eventVars, workerVars, history
<1>11. QED
  BY <1>2, <1>3, <1>4, <1>5, <1>6, <1>7, <1>8, <1>9, <1>10

(* A row of the outbox is never deleted. *)
LEMMA RowsStay ==
  ASSUME TypeOK, [Next]_vars, NEW e \in Event, status[e] # "absent"
  PROVE  status'[e] # "absent"
<1> USE DEF TypeOK, Status, Terminal
<1>1. ASSUME NEW w \in Worker, NEW f \in Event, NEW outcome \in Outcome, Finalize(w, f, outcome)
      PROVE  status'[e] # "absent"
  <2>1. FinalStatus(outcome, attempts[f] + 1) \in {"retry"} \cup Terminal
    BY FinalStatusType
  <2>2. QED
    BY <1>1, <2>1 DEF Finalize
<1>2. ASSUME NEW w \in Worker, WorkerStep(w) \/ Crash(w),
             ~\E f \in Event, outcome \in Outcome : Finalize(w, f, outcome)
      PROVE  status'[e] # "absent"
  BY <1>2 DEF WorkerStep, RecoverAbandonedLocks, Claim, Handle, FinalizeRejected, Crash, eventVars
<1>3. ASSUME NEW f \in Event,
             Enqueue(f) \/ LockTimeoutElapses(f) \/ BackoffElapses(f) \/ PortalRetry(f)
      PROVE  status'[e] # "absent"
  BY <1>3 DEF Enqueue, LockTimeoutElapses, BackoffElapses, PortalRetry, ManualRequeue
<1>4. ASSUME NEW a \in Admin,
             \/ \E S \in SUBSET Event : AdminSelect(a, S)
             \/ \E f \in Event : AdminSave(a, f)
      PROVE  status'[e] # "absent"
  BY <1>4 DEF AdminSelect, AdminSave, ManualRequeue, eventVars
<1>5. CASE UNCHANGED vars
  BY <1>5 DEF vars, eventVars
<1>6. QED
  BY <1>1, <1>2, <1>3, <1>4, <1>5 DEF Next
=============================================================================
