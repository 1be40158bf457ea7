------------------------------ MODULE RagProofs ------------------------------
(* Proofs about RagOperations, for any number of requests, workers and      *)
(* commands, and whatever operations are asked for; and about               *)
(* KnowledgeDocuments, for any documents, texts and actors.                 *)
EXTENDS RagOperations, KnowledgeDocuments, TLAPS

USE RagAssumption DEF RagAssumption

-------------------------------------------------------------------------------
(* Pipelines are told apart by where a process is in them. *)
LEMMA Places ==
  /\ Pipeline = {"sync", "index"}
  /\ Inside("sync") = "syncing"
  /\ Inside("index") = "indexing"
  /\ Marking("sync") = "mark_sync"
  /\ Marking("index") = "mark_index"
  BY DEF Pipeline, Inside, Marking

(* What a first stage may be. *)
LEMMA Stages ==
  ASSUME NEW r \in Request, NEW s \in Pipeline
  PROVE  /\ FirstStage(r) \in {"sync", "index", "renew", "finish"}
         /\ StageAfter(r, s) \in {"renew", "finish"}
  BY Zenon DEF FirstStage, StageAfter

(* The outcome of two pipelines is one of theirs. *)
LEMMA Outcomes ==
  ASSUME NEW a \in Outcome, NEW b \in Outcome
  PROVE  Combine(a, b) \in Outcome /\ StatusOf(a) \in Terminal
  BY DEF Combine, StatusOf, Outcome, Terminal

(* A request's row when it is made, and with a column changed. *)
LEMMA NewRow ==
  ASSUME NEW op \in Operation, NEW dry \in BOOLEAN
  PROVE  NewRequest(op, dry, "pending") \in RequestRow
  BY DEF NewRequest, RequestRow, Active

LEMMA ChangedRow ==
  ASSUME NEW row \in RequestRow, NEW st \in {"absent"} \cup Active \cup Terminal,
         NEW l \in {"none", "fresh", "expired"}
  PROVE  /\ [row EXCEPT !.status = st] \in RequestRow
         /\ [row EXCEPT !.lease = l] \in RequestRow
  BY DEF RequestRow

(* The state is well typed, whatever the processes do. *)
THEOREM RagTypeCorrect == Spec => []RagTypeOK
<1>1. Init => RagTypeOK
  BY DEF Init, RagTypeOK, NewRequest, RequestRow, Operation, SyncModes, Outcome, Pipeline
<1>2. RagTypeOK /\ [Next]_vars => RagTypeOK'
  <2> SUFFICES ASSUME RagTypeOK, [Next]_vars PROVE RagTypeOK'
    OBVIOUS
  <2> USE DEF RagTypeOK
  <2>1. ASSUME NEW r \in Request, NEW op \in Operations, NEW dry \in DryRun,
               CreateRequest(r, op, dry)
        PROVE  RagTypeOK'
    <3>1. request' \in [Request -> RequestRow]
      <4>1. NewRequest(op, dry, "pending") \in RequestRow
        BY NewRow
      <4> QED
        BY <2>1, <4>1 DEF CreateRequest
    <3> QED
      BY <2>1, <3>1 DEF CreateRequest, local, bounds, history
  <2>2. ASSUME NEW w \in Worker, ListStale(w) PROVE RagTypeOK'
    BY <2>2 DEF ListStale, Goto, rows, bounds, history, Process
  <2>3. ASSUME NEW w \in Worker, NEW r \in Request, RecoverRow(w, r) PROVE RagTypeOK'
    <3>1. request' \in [Request -> RequestRow]
      <4>1. [request[r] EXCEPT !.status = "failed"] \in RequestRow
        <5>1. request[r] \in RequestRow
          OBVIOUS
        <5> QED
          BY <5>1, ChangedRow DEF RequestRow, Terminal
      <4>2. request' = request \/ request' = [request EXCEPT ![r] = [request[r] EXCEPT !.status = "failed"]]
        BY <2>3 DEF RecoverRow
      <4> QED
        BY <4>1, <4>2
    <3> QED
      BY <2>3, <3>1 DEF RecoverRow, bounds
  <2>4. ASSUME NEW w \in Worker, Stop(w) PROVE RagTypeOK'
    BY <2>4 DEF Stop, Rest, Goto, rows, bounds, history, Outcome
  <2>5. ASSUME NEW w \in Worker, NEW r \in Request, PickPending(w, r) PROVE RagTypeOK'
    BY <2>5 DEF PickPending, Goto, rows, bounds, history
  <2>6. ASSUME NEW w \in Worker, NEW r \in Request, ClaimRequest(w, r) PROVE RagTypeOK'
    <3>1. request' \in [Request -> RequestRow]
      <4>1. request[r].attempts + 1 > MaxAttempts \/ request[r].attempts + 1 \in 0..MaxAttempts
        BY DEF RequestRow
      <4> QED
        BY <2>6, <4>1 DEF ClaimRequest, RequestRow, Active, Terminal
    <3>2. Rest(w) \/ (Goto(w, FirstStage(r)) /\ UNCHANGED <<job, stale, result>>)
      BY <2>6 DEF ClaimRequest
    <3>3. /\ pc' \in [Process -> {"idle", "recovering", "picked", "sync", "syncing",
                                  "mark_sync", "renew", "index", "indexing", "mark_index",
                                  "finish", "fail", "audit", "retract", "rebuild", "reembed"}]
          /\ job' \in [Process -> Request \cup {NoOne}]
          /\ stale' \in [Process -> SUBSET Request]
          /\ result' \in [Process -> Outcome]
      <4>1. FirstStage(r) \in {"sync", "index", "renew", "finish"}
        BY Stages DEF Pipeline
      <4> QED
        BY <3>2, <4>1 DEF Rest, Goto, Outcome
    <3> QED
      BY <2>6, <3>1, <3>3 DEF ClaimRequest, bounds, history
  <2>7. ASSUME NEW w \in Worker, NEW r \in Request, RenewLease(w, r) PROVE RagTypeOK'
    <3>1. request' \in [Request -> RequestRow]
      <4>1. [request[r] EXCEPT !.lease = "fresh"] \in RequestRow
        <5>1. request[r] \in RequestRow
          OBVIOUS
        <5> QED
          BY <5>1, ChangedRow DEF RequestRow
      <4>2. request' = [request EXCEPT ![r] = [request[r] EXCEPT !.lease = "fresh"]]
        BY <2>7 DEF RenewLease
      <4> QED
        BY <4>1, <4>2
    <3> QED
      BY <2>7, <3>1 DEF RenewLease, Goto, bounds, history
  <2>8. ASSUME NEW w \in Worker, NEW r \in Request, Report(w, r) PROVE RagTypeOK'
    <3>1. StatusOf(result[w]) \in Terminal
      BY Outcomes DEF Process
    <3>2. request' \in [Request -> RequestRow]
      <4>1. PICK st \in Terminal : request' = [request EXCEPT ![r] = [request[r] EXCEPT !.status = st]]
        BY <2>8, <3>1 DEF Report, Terminal
      <4>2. [request[r] EXCEPT !.status = st] \in RequestRow
        <5>1. request[r] \in RequestRow
          OBVIOUS
        <5> QED
          BY <5>1, ChangedRow DEF RequestRow
      <4> QED
        BY <4>1, <4>2
    <3>3. \/ Goto(w, "audit") /\ result' = [result EXCEPT ![w] = "success"]
             /\ UNCHANGED <<job, stale>>
          \/ Rest(w)
      BY <2>8 DEF Report
    <3>4. /\ pc' \in [Process -> {"idle", "recovering", "picked", "sync", "syncing",
                                  "mark_sync", "renew", "index", "indexing", "mark_index",
                                  "finish", "fail", "audit", "retract", "rebuild", "reembed"}]
          /\ job' \in [Process -> Request \cup {NoOne}]
          /\ stale' \in [Process -> SUBSET Request]
          /\ result' \in [Process -> Outcome]
      BY <3>3 DEF Rest, Goto, Outcome
    <3> QED
      BY <2>8, <3>2, <3>4 DEF Report, bounds
  <2>9. ASSUME NEW p \in Process, NEW s \in Pipeline, Acquire(p, s) PROVE RagTypeOK'
    BY <2>9, Places DEF Acquire, Goto, bounds
  <2>10. ASSUME NEW p \in Process, NEW s \in Pipeline, Refused(p, s) PROVE RagTypeOK'
    BY <2>10, Places DEF Refused, Goto, rows, bounds, history
  <2>11. ASSUME NEW p \in Process, NEW s \in Pipeline, NEW outcome \in Outcome,
                Complete(p, s, outcome)
         PROVE  RagTypeOK'
    <3>1. lock' \in [Pipeline -> [status : {"never_run", "running"} \cup Outcome,
                                  fresh : BOOLEAN]]
      BY <2>11 DEF Complete, Overwrite
    <3>2. holder' \in [Pipeline -> Process \cup {NoOne}] /\ exposed' \subseteq Process
      BY <2>11 DEF Complete, Overwrite
    <3>3. result' \in [Process -> Outcome]
      <4>1. Combine(result[p], outcome) \in Outcome
        BY Outcomes
      <4> QED
        BY <2>11, <4>1 DEF Complete
    <3>4. did' \in [Request -> SUBSET (Pipeline \X Outcome)]
      BY <2>11 DEF Complete
    <3>5. pc' \in [Process -> {"idle", "recovering", "picked", "sync", "syncing",
                               "mark_sync", "renew", "index", "indexing", "mark_index",
                               "finish", "fail", "audit", "retract", "rebuild", "reembed"}]
      <4>1. StageAfter(job[p], s) \in {"renew", "finish"}
        BY Zenon DEF StageAfter
      <4> QED
        BY <2>11, <4>1 DEF Complete, Goto
    <3> QED
      BY <2>11, <3>1, <3>2, <3>3, <3>4, <3>5 DEF Complete, bounds
  <2>12. ASSUME NEW p \in Process, NEW s \in Pipeline, NEW own \in BOOLEAN,
                Break(p, s, own)
         PROVE  RagTypeOK'
    BY <2>12, Places DEF Break, Goto, Leave, rows, bounds
  <2>13. ASSUME NEW p \in Process, NEW s \in Pipeline, MarkFailed(p, s) PROVE RagTypeOK'
    <3>1. /\ lock' \in [Pipeline -> [status : {"never_run", "running"} \cup Outcome,
                                     fresh : BOOLEAN]]
          /\ holder' \in [Pipeline -> Process \cup {NoOne}] /\ exposed' \subseteq Process
      BY <2>13 DEF MarkFailed, Overwrite, Outcome
    <3> QED
      BY <2>13, <3>1 DEF MarkFailed, Goto, bounds
  <2>14. ASSUME NEW c \in Command, NEW s \in Pipeline, StartCommand(c, s) PROVE RagTypeOK'
    <3>1. commands' \in 0..MaxCommands
      BY <2>14 DEF StartCommand
    <3> QED
      BY <2>14, <3>1, Places DEF StartCommand, Goto, rows, history
  <2>15. ASSUME NEW c \in Command, StartReindex(c) PROVE RagTypeOK'
    <3>1. commands' \in 0..MaxCommands
      BY <2>15 DEF StartReindex
    <3> QED
      BY <2>15, <3>1 DEF StartReindex, Goto, rows, history
  <2>16. ASSUME NEW c \in Command, NEW outcome \in Outcome, ReindexStep(c, outcome)
         PROVE  RagTypeOK'
    <3>1. /\ lock' \in [Pipeline -> [status : {"never_run", "running"} \cup Outcome,
                                     fresh : BOOLEAN]]
          /\ holder' \in [Pipeline -> Process \cup {NoOne}] /\ exposed' \subseteq Process
      BY <2>16, Places DEF ReindexStep, Overwrite
    <3> QED
      BY <2>16, <3>1 DEF ReindexStep, Goto, bounds
  <2>17. ASSUME NEW c \in Command, ReindexFails(c) PROVE RagTypeOK'
    BY <2>17 DEF ReindexFails, Goto, rows, bounds, history
  <2>18. ASSUME NEW r \in Request, LeaseExpires(r) PROVE RagTypeOK'
    <3>1. request' \in [Request -> RequestRow]
      <4>1. [request[r] EXCEPT !.lease = "expired"] \in RequestRow
        <5>1. request[r] \in RequestRow
          OBVIOUS
        <5> QED
          BY <5>1, ChangedRow DEF RequestRow
      <4>2. request' = [request EXCEPT ![r] = [request[r] EXCEPT !.lease = "expired"]]
        BY <2>18 DEF LeaseExpires
      <4> QED
        BY <4>1, <4>2
    <3>2. outlived' \in 0..MaxOutlived
      BY <2>18 DEF LeaseExpires, Outlives
    <3> QED
      BY <2>18, <3>1, <3>2 DEF LeaseExpires, local, history
  <2>19. ASSUME NEW s \in Pipeline, LockTimesOut(s) PROVE RagTypeOK'
    <3>1. outlived' \in 0..MaxOutlived
      BY <2>19 DEF LockTimesOut, Outlives
    <3>2. /\ lock' \in [Pipeline -> [status : {"never_run", "running"} \cup Outcome,
                                     fresh : BOOLEAN]]
          /\ holder' \in [Pipeline -> Process \cup {NoOne}]
      <4>1. lock' = [lock EXCEPT ![s] = [lock[s] EXCEPT !.fresh = FALSE]]
        BY <2>19 DEF LockTimesOut
      <4>2. holder' = [holder EXCEPT ![s] = NoOne]
        BY <2>19 DEF LockTimesOut
      <4>3. lock' \in [Pipeline -> [status : {"never_run", "running"} \cup Outcome,
                                    fresh : BOOLEAN]]
        <5>1. [lock[s] EXCEPT !.fresh = FALSE]
                \in [status : {"never_run", "running"} \cup Outcome, fresh : BOOLEAN]
          <6>1. lock[s] \in [status : {"never_run", "running"} \cup Outcome, fresh : BOOLEAN]
            OBVIOUS
          <6> QED
            BY <6>1
        <5> QED
          BY <4>1, <5>1
      <4> QED
        BY <4>2, <4>3
    <3>3. exposed' \subseteq Process
      BY <2>19 DEF LockTimesOut
    <3> QED
      BY <2>19, <3>1, <3>2, <3>3 DEF LockTimesOut, local
  <2>20. ASSUME NEW p \in Process, Crash(p) PROVE RagTypeOK'
    <3>1. crashes' \in 0..MaxCrashes
      BY <2>20 DEF Crash
    <3> QED
      BY <2>20, <3>1 DEF Crash, Rest, Leave, Goto, rows, Outcome
  <2>21. ASSUME NEW w \in Worker, Audited(w) PROVE RagTypeOK'
    BY <2>21 DEF Audited, Rest, Goto, rows, bounds, history, Outcome
  <2>22. ASSUME NEW w \in Worker, NEW r \in Request, Stumble(w, r) PROVE RagTypeOK'
    BY <2>22 DEF Stumble, Goto, rows, bounds
  <2>23. CASE UNCHANGED vars
    BY <2>23 DEF vars, rows, local, bounds, history
  <2> HIDE DEF RagTypeOK
  <2> QED
    BY <2>1, <2>2, <2>3, <2>4, <2>5, <2>6, <2>7, <2>8, <2>9, <2>10, <2>11, <2>12,
       <2>13, <2>14, <2>15, <2>16, <2>17, <2>18, <2>19, <2>20, <2>21, <2>22, <2>23
       DEF Next, WorkerStep, CommandStep, PipelineStep, Process
<1> QED
  BY <1>1, <1>2, PTL DEF Spec

-------------------------------------------------------------------------------
(***************************************************************************)
(* The locks.  A process that holds a pipeline's lock is inside it, its    *)
(* lock is running and recent, and nobody has overwritten it; anybody else *)
(* inside has lost its own.                                                *)
(***************************************************************************)
HoldersInside ==
  /\ \A s \in Pipeline :
       /\ holder[s] # NoOne => holder[s] \in Live(s) \ exposed /\ Busy(s)
       /\ Live(s) \subseteq exposed \cup {holder[s]}
  /\ \A p \in exposed : \E s \in Pipeline : p \in Live(s)

(* Where a process is outside the pipelines. *)
Outside ==
  {"idle", "recovering", "picked", "sync", "mark_sync", "renew", "index", "mark_index",
   "finish", "fail", "audit", "retract", "rebuild", "reembed"}

LEMMA HoldersInit == Init => HoldersInside
  BY Places DEF Init, HoldersInside, Live

LEMMA HoldersStep ==
  RagTypeOK /\ HoldersInside /\ [Next]_vars => HoldersInside'
<1> SUFFICES ASSUME RagTypeOK, HoldersInside, [Next]_vars PROVE HoldersInside'
  OBVIOUS
<1>0. /\ pc \in [Process -> Outside \cup {"syncing", "indexing"}]
      /\ NoOne \notin Process
      /\ holder \in [Pipeline -> Process \cup {NoOne}]
      /\ lock \in [Pipeline -> [status : {"never_run", "running"} \cup Outcome, fresh : BOOLEAN]]
      /\ exposed \subseteq Process
  BY DEF RagTypeOK, Outside
(* A process that moves from outside the pipelines to outside them. *)
<1>a. ASSUME NEW p \in Process, pc[p] \notin {"syncing", "indexing"},
             NEW where \in Outside, Goto(p, where),
             UNCHANGED <<lock, holder, exposed>>
      PROVE  HoldersInside'
  BY <1>0, <1>a, Places DEF HoldersInside, Live, Goto, Busy, Outside
(* A process that saves a status and goes outside. *)
<1>b. ASSUME NEW p \in Process, NEW s \in Pipeline, NEW outcome \in Outcome,
             pc[p] \in {"syncing", "indexing"} => pc[p] = Inside(s),
             Overwrite(p, s, outcome),
             NEW where \in Outside, Goto(p, where)
      PROVE  HoldersInside'
  BY <1>0, <1>b, Places DEF HoldersInside, Live, Goto, Busy, Overwrite, Outside
(* A process that leaves without saving one. *)
<1>c. ASSUME NEW p \in Process, Leave(p), UNCHANGED lock,
             NEW where \in Outside, Goto(p, where)
      PROVE  HoldersInside'
  BY <1>0, <1>c, Places DEF HoldersInside, Live, Goto, Busy, Leave, Outside
<1>d. ASSUME UNCHANGED <<pc, lock, holder, exposed>> PROVE HoldersInside'
  BY <1>d DEF HoldersInside, Live, Busy
<1>1. ASSUME NEW r \in Request, NEW op \in Operations, NEW dry \in DryRun,
             CreateRequest(r, op, dry)
      PROVE  HoldersInside'
  BY <1>1, <1>d DEF CreateRequest, local, history
<1>2. ASSUME NEW w \in Worker, ListStale(w) PROVE HoldersInside'
  BY <1>2, <1>a DEF ListStale, rows, history, Process, Outside
<1>3. ASSUME NEW w \in Worker, NEW r \in Request, RecoverRow(w, r) PROVE HoldersInside'
  BY <1>3, <1>d DEF RecoverRow
<1>4. ASSUME NEW w \in Worker, Stop(w) PROVE HoldersInside'
  BY <1>4, <1>a DEF Stop, Recovered, Rest, rows, history, Process, Outside
<1>5. ASSUME NEW w \in Worker, NEW r \in Request, PickPending(w, r) PROVE HoldersInside'
  BY <1>5, <1>a DEF PickPending, Recovered, rows, history, Process, Outside
<1>6. ASSUME NEW w \in Worker, NEW r \in Request, ClaimRequest(w, r) PROVE HoldersInside'
  <2>1. Goto(w, "idle") \/ Goto(w, FirstStage(r))
    BY <1>6 DEF ClaimRequest, Rest
  <2>2. FirstStage(r) \in {"sync", "index", "renew", "finish"}
    BY Stages, Places
  <2>3. pc[w] = "recovering" /\ UNCHANGED <<lock, holder, exposed>>
    BY <1>6 DEF ClaimRequest, Recovered, history
  <2> QED
    BY <2>1, <2>2, <2>3, <1>a DEF Process, Outside
<1>7. ASSUME NEW w \in Worker, NEW r \in Request, RenewLease(w, r) PROVE HoldersInside'
  BY <1>7, <1>a DEF RenewLease, history, Process, Outside
<1>8. ASSUME NEW w \in Worker, NEW r \in Request, Report(w, r) PROVE HoldersInside'
  BY <1>8, <1>a DEF Report, Rest, Process, Outside
<1>9. ASSUME NEW p \in Process, NEW s \in Pipeline, Acquire(p, s) PROVE HoldersInside'
  <2>1. /\ lock' = [lock EXCEPT ![s] = [status |-> "running", fresh |-> TRUE]]
        /\ holder' = [holder EXCEPT ![s] = p]
        /\ pc' = [pc EXCEPT ![p] = Inside(s)]
        /\ exposed' = exposed
        /\ pc[p] = s
        /\ ~Busy(s)
    BY <1>9 DEF Acquire, Goto
  <2>2. Live(s) \subseteq exposed /\ p \notin exposed
    BY <1>0, <2>1, Places DEF HoldersInside, Live
  <2> QED
    BY <1>0, <2>1, <2>2, Places DEF HoldersInside, Live, Busy
<1>10. ASSUME NEW p \in Process, NEW s \in Pipeline, Refused(p, s) PROVE HoldersInside'
  BY <1>10, <1>a, Places DEF Refused, rows, history, Outside
<1>11. ASSUME NEW p \in Process, NEW s \in Pipeline, NEW outcome \in Outcome,
              Complete(p, s, outcome)
       PROVE  HoldersInside'
  <2>1. StageAfter(job[p], s) \in {"renew", "finish"}
    BY Zenon DEF StageAfter
  <2>2. Goto(p, StageAfter(job[p], s)) \/ Goto(p, "idle")
    BY <1>11 DEF Complete
  <2>3. pc[p] = Inside(s) /\ Overwrite(p, s, outcome)
    BY <1>11 DEF Complete
  <2> QED
    BY <2>1, <2>2, <2>3, <1>b DEF Outside
<1>12. ASSUME NEW p \in Process, NEW s \in Pipeline, NEW own \in BOOLEAN,
              Break(p, s, own)
       PROVE  HoldersInside'
  BY <1>12, <1>c, Places DEF Break, rows, Outside
<1>13. ASSUME NEW p \in Process, NEW s \in Pipeline, MarkFailed(p, s) PROVE HoldersInside'
  BY <1>13, <1>b, Places DEF MarkFailed, Outcome, Outside
<1>14. ASSUME NEW c \in Command, NEW s \in Pipeline, StartCommand(c, s) PROVE HoldersInside'
  BY <1>14, <1>a, Places DEF StartCommand, rows, history, Process, Outside
<1>15. ASSUME NEW c \in Command, StartReindex(c) PROVE HoldersInside'
  BY <1>15, <1>a DEF StartReindex, rows, history, Process, Outside
<1>16. ASSUME NEW c \in Command, NEW outcome \in Outcome, ReindexStep(c, outcome)
       PROVE  HoldersInside'
  BY <1>16, <1>b, Places DEF ReindexStep, Process, Outside
<1>17. ASSUME NEW c \in Command, ReindexFails(c) PROVE HoldersInside'
  BY <1>17, <1>a DEF ReindexFails, rows, history, Process, Outside
<1>18. ASSUME NEW r \in Request, LeaseExpires(r) PROVE HoldersInside'
  BY <1>18, <1>d DEF LeaseExpires, local, history
<1>19. ASSUME NEW s \in Pipeline, LockTimesOut(s) PROVE HoldersInside'
  <2>1. /\ lock' = [lock EXCEPT ![s] = [lock[s] EXCEPT !.fresh = FALSE]]
        /\ holder' = [holder EXCEPT ![s] = NoOne]
        /\ exposed' = exposed \cup ({holder[s]} \ {NoOne})
        /\ pc' = pc
    BY <1>19 DEF LockTimesOut, local
  <2> QED
    BY <1>0, <2>1, Places DEF HoldersInside, Live, Busy
<1>20. ASSUME NEW p \in Process, Crash(p) PROVE HoldersInside'
  BY <1>20, <1>c DEF Crash, Rest, rows, Outside
<1>21. ASSUME NEW w \in Worker, Audited(w) PROVE HoldersInside'
  BY <1>21, <1>a DEF Audited, Rest, rows, history, Process, Outside
<1>22. ASSUME NEW w \in Worker, NEW r \in Request, Stumble(w, r) PROVE HoldersInside'
  BY <1>22, <1>a DEF Stumble, rows, Process, Outside
<1>23. CASE UNCHANGED vars
  BY <1>23, <1>d DEF vars, rows, local, history
<1> QED
  BY <1>1, <1>2, <1>3, <1>4, <1>5, <1>6, <1>7, <1>8, <1>9, <1>10, <1>11, <1>12,
     <1>13, <1>14, <1>15, <1>16, <1>17, <1>18, <1>19, <1>20, <1>21, <1>22, <1>23
     DEF Next, WorkerStep, CommandStep, PipelineStep, Process

(* Two processes share a pipeline only if one of them has lost its lock    *)
(* (acquire_tenant_sync_lock, acquire_tenant_index_lock).                  *)
THEOREM PipelinesExcluded == Spec => []PipelinesExclude
<1>1. HoldersInside => PipelinesExclude
  BY DEF HoldersInside, PipelinesExclude
<1> QED
  BY <1>1, HoldersInit, HoldersStep, RagTypeCorrect, PTL DEF Spec

(* Nothing but create_operation_request makes a request pending. *)
LEMMA OnlyCreated ==
  ASSUME RagTypeOK, Next, NEW r \in Request,
         request[r].status # "pending", request'[r].status = "pending"
  PROVE  \E q \in Request, op \in Operations, dry \in DryRun : CreateRequest(q, op, dry)
<1>0. request \in [Request -> RequestRow] /\ result \in [Process -> Outcome]
  BY DEF RagTypeOK
<1>u. ASSUME UNCHANGED request PROVE FALSE
  BY <1>u
(* A row whose lease changes, or whose status becomes another. *)
<1>l. ASSUME NEW q \in Request, NEW l,
             request' = [request EXCEPT ![q] = [request[q] EXCEPT !.lease = l]]
      PROVE  FALSE
  BY <1>0, <1>l DEF RequestRow
<1>s. ASSUME NEW q \in Request, NEW st, st # "pending",
             request' = [request EXCEPT ![q] = [request[q] EXCEPT !.status = st]]
      PROVE  FALSE
  BY <1>0, <1>s DEF RequestRow
<1>1. ASSUME NEW p \in Process, PipelineStep(p) PROVE FALSE
  BY <1>1, <1>u DEF PipelineStep, Acquire, Refused, Complete, Break, MarkFailed, rows
<1>2. ASSUME NEW c \in Command, CommandStep(c) PROVE FALSE
  BY <1>1, <1>2, <1>u DEF CommandStep, StartCommand, StartReindex, ReindexStep,
     ReindexFails, rows, Process
<1>3. ASSUME NEW w \in Worker, WorkerStep(w) PROVE FALSE
  <2>1. ASSUME ListStale(w) \/ Stop(w) PROVE FALSE
    BY <2>1, <1>u DEF ListStale, Stop, rows
  <2>2. ASSUME NEW q \in Request, RecoverRow(w, q) PROVE FALSE
    <3>1. CASE StillStale(q)
      BY <2>2, <3>1, <1>s DEF RecoverRow
    <3>2. CASE ~StillStale(q)
      BY <2>2, <3>2, <1>u DEF RecoverRow
    <3> QED
      BY <3>1, <3>2
  <2>3. ASSUME NEW q \in Request, PickPending(w, q) PROVE FALSE
    BY <2>3, <1>u DEF PickPending, rows
  <2>4. ASSUME NEW q \in Request, ClaimRequest(w, q) PROVE FALSE
    <3>1. CASE ~Claimable(q)
      BY <2>4, <3>1, <1>u DEF ClaimRequest
    <3>2. CASE Claimable(q) /\ request[q].attempts + 1 > MaxAttempts
      BY <2>4, <3>2, <1>s DEF ClaimRequest
    <3>3. CASE Claimable(q) /\ ~(request[q].attempts + 1 > MaxAttempts)
      <4>1. request' = [request EXCEPT ![q].status = "running",
                                       ![q].attempts = request[q].attempts + 1,
                                       ![q].lease = "fresh"]
        BY <2>4, <3>3 DEF ClaimRequest
      <4> QED
        BY <1>0, <4>1 DEF RequestRow
    <3> QED
      BY <3>1, <3>2, <3>3
  <2>5. ASSUME NEW q \in Request, RenewLease(w, q) PROVE FALSE
    BY <2>5, <1>l DEF RenewLease
  <2>6. ASSUME NEW q \in Request, Report(w, q) PROVE FALSE
    <3>1. StatusOf(result[w]) \in Terminal
      BY <1>0, Outcomes DEF Process
    <3>2. \E st \in Terminal : request' = [request EXCEPT ![q] = [request[q] EXCEPT !.status = st]]
      BY <2>6, <3>1 DEF Report, Terminal
    <3> QED
      BY <3>2, <1>s DEF Terminal
  <2>7. ASSUME NEW q \in Request, Audited(w) \/ Stumble(w, q) PROVE FALSE
    BY <2>7, <1>u DEF Audited, Stumble, rows
  <2> QED
    BY <1>1, <1>3, <2>1, <2>2, <2>3, <2>4, <2>5, <2>6, <2>7 DEF WorkerStep, Process
<1>4. ASSUME NEW q \in Request, LeaseExpires(q) PROVE FALSE
  BY <1>4, <1>l DEF LeaseExpires
<1>5. ASSUME NEW s \in Pipeline, LockTimesOut(s) PROVE FALSE
  BY <1>5, <1>u DEF LockTimesOut
<1>6. ASSUME NEW p \in Process, Crash(p) PROVE FALSE
  BY <1>6, <1>u DEF Crash, rows
<1> QED
  BY <1>2, <1>3, <1>4, <1>5, <1>6 DEF Next

(* A request is made only while nobody works under a lock that still       *)
(* protects it (create_operation_request).                                 *)
THEOREM NewRequestsAlone == Spec => NewRequestAlone
<1>1. RagTypeOK /\ HoldersInside /\ [Next]_vars =>
        [\A r \in Request : request[r].status = "absent" /\ request'[r].status = "pending" =>
           \A s \in Pipeline : Live(s) \subseteq exposed]_vars
  <2> SUFFICES ASSUME RagTypeOK, HoldersInside, Next, NEW r \in Request,
                      request[r].status = "absent", request'[r].status = "pending",
                      NEW s \in Pipeline
               PROVE  Live(s) \subseteq exposed
    OBVIOUS
  <2>1. ~Busy(s)
    BY OnlyCreated DEF CreateRequest, PipelineLocked
  <2>2. NoOne \notin Live(s)
    BY DEF Live
  <2> QED
    BY <2>1, <2>2 DEF HoldersInside
<1> QED
  BY <1>1, HoldersInit, HoldersStep, RagTypeCorrect, PTL DEF Spec, NewRequestAlone

-------------------------------------------------------------------------------
(***************************************************************************)
(* The requests.  At most one is pending or running; one that was          *)
(* recovered or reported is finished; an attempt is counted once; a        *)
(* worker's request is running and its own, or was recovered and not yet   *)
(* reported; and a worker past its report remembers it.                    *)
(***************************************************************************)
OneActive ==
  \A q, r \in Request :
    request[q].status \in Active /\ request[r].status \in Active => q = r

History ==
  \A r \in Request :
    /\ request[r].status \in {"absent", "pending"} => request[r].attempts = 0
    /\ request[r].attempts < 2
    /\ r \in recovered \cup reported => request[r].status \in Terminal

Holds(w) ==
  /\ job[w] \in Request
  /\ request[job[w]].status = "running"
       \/ (request[job[w]].status \in Terminal /\ job[w] \in recovered)
  /\ job[w] \notin reported

Work ==
  \A w \in Worker : Executing(w) =>
    /\ Holds(w)
    /\ \A v \in Worker : Executing(v) /\ job[v] = job[w] => v = w

Finishing ==
  \A w \in Worker : job[w] # NoOne =>
    /\ pc[w] \in {"audit", "retract"} => job[w] \in reported
    /\ pc[w] = "retract" => job[w] \in unaudited

Execution == OneActive /\ History /\ Work /\ Finishing

LEMMA ExecutionInit == Init => Execution
  BY DEF Init, Execution, OneActive, History, Work, Finishing, Executing, NewRequest, Active, Process

LEMMA ExecutionStep == RagTypeOK /\ Execution /\ [Next]_vars => Execution'
<1> SUFFICES ASSUME RagTypeOK, Execution, [Next]_vars PROVE Execution'
  OBVIOUS
<1>0. /\ request \in [Request -> RequestRow]
      /\ job \in [Process -> Request \cup {NoOne}]
      /\ pc \in [Process -> Outside \cup {"syncing", "indexing"}]
      /\ result \in [Process -> Outcome]
      /\ \A r \in Request : request[r].attempts \in Nat
      /\ Worker \subseteq Process
      /\ NoOne \notin Request
  <2>1. \A r \in Request : request[r].attempts \in Nat
    BY DEF RagTypeOK, RequestRow
  <2> QED
    BY <2>1 DEF RagTypeOK, Process, Outside
(* Statuses stay, and no worker begins to execute, nor to finish. *)
<1>a. ASSUME \A r \in Request : /\ request'[r].status = request[r].status
                                /\ request'[r].attempts = request[r].attempts,
             UNCHANGED <<recovered, reported, unaudited>>,
             \A w \in Worker :
               /\ Executing(w)' => Executing(w) /\ job'[w] = job[w]
               /\ pc'[w] \in {"audit", "retract"} => pc'[w] = pc[w] /\ job'[w] = job[w]
      PROVE  Execution'
  <2>1. OneActive' /\ History'
    BY <1>a DEF Execution, OneActive, History
  <2>2. \A w \in Worker : Executing(w)' => Holds(w)'
    BY <1>a DEF Execution, Work, Holds
  <2>3. \A v, w \in Worker : Executing(v)' /\ Executing(w)' /\ job'[v] = job'[w] => v = w
    BY <1>a DEF Execution, Work
  <2>4. Finishing'
    BY <1>a DEF Execution, Finishing
  <2> QED
    BY <2>1, <2>2, <2>3, <2>4 DEF Execution, Work
(* So it is with a step that leaves the requests and the jobs alone. *)
<1>b. ASSUME UNCHANGED <<request, job, recovered, reported, unaudited>>,
             \A w \in Worker :
               \/ pc'[w] = pc[w]
               \/ pc'[w] \in {"recovering", "picked"}
               \/ /\ pc'[w] \notin {"audit", "retract"}
                  /\ pc[w] \notin {"recovering", "picked", "audit", "retract"}
      PROVE  Execution'
  BY <1>a, <1>b DEF Executing
(* A worker that rests, having nothing to do with the rows. *)
<1>c. ASSUME NEW p \in Process, Rest(p), UNCHANGED <<request, recovered, reported, unaudited>>
      PROVE  Execution'
  <2>1. \A w \in Worker :
          /\ Executing(w)' => Executing(w) /\ job'[w] = job[w]
          /\ pc'[w] \in {"audit", "retract"} => pc'[w] = pc[w] /\ job'[w] = job[w]
    BY <1>0, <1>c DEF Rest, Goto, Executing, RagTypeOK
  <2> QED
    BY <1>a, <1>c, <2>1
(* The lease alone. *)
<1>l. ASSUME NEW r \in Request, NEW l,
             request' = [request EXCEPT ![r] = [request[r] EXCEPT !.lease = l]],
             UNCHANGED <<job, recovered, reported, unaudited>>,
             \A w \in Worker :
               \/ pc'[w] = pc[w]
               \/ /\ pc'[w] \notin {"audit", "retract"}
                  /\ pc[w] \notin {"recovering", "picked", "audit", "retract"}
      PROVE  Execution'
  <2>1. \A q \in Request : /\ request'[q].status = request[q].status
                           /\ request'[q].attempts = request[q].attempts
    BY <1>0, <1>l DEF RequestRow
  <2> QED
    BY <1>a, <1>l, <2>1 DEF Executing
<1>1. ASSUME NEW r \in Request, NEW op \in Operations, NEW dry \in DryRun,
             CreateRequest(r, op, dry)
      PROVE  Execution'
  <2>1. /\ request' = [request EXCEPT ![r] = NewRequest(op, dry, "pending")]
        /\ request[r].status = "absent"
        /\ \A q \in Request : request[q].status \notin Active
        /\ UNCHANGED <<pc, job, recovered, reported, unaudited>>
    BY <1>1 DEF CreateRequest, local, history
  <2>2. request'[r].status = "pending" /\ request'[r].attempts = 0
    BY <1>0, <2>1 DEF NewRequest
  <2>3. \A q \in Request : q # r => request'[q] = request[q]
    BY <1>0, <2>1
  <2>4. OneActive'
    BY <2>1, <2>2, <2>3 DEF OneActive, Active
  <2>5. History'
    BY <2>1, <2>2, <2>3 DEF Execution, History, Terminal
  <2>6. Work'
    BY <2>1, <2>2, <2>3 DEF Execution, Work, Holds, Executing, Terminal
  <2>7. Finishing'
    BY <2>1 DEF Execution, Finishing
  <2> QED
    BY <2>4, <2>5, <2>6, <2>7 DEF Execution
<1>2. ASSUME NEW w \in Worker, ListStale(w) PROVE Execution'
  BY <1>0, <1>2, <1>b DEF ListStale, Goto, rows, history
<1>3. ASSUME NEW w \in Worker, NEW r \in Request, RecoverRow(w, r) PROVE Execution'
  <2>1. CASE StillStale(r)
    <3>1. /\ request' = [request EXCEPT ![r] = [request[r] EXCEPT !.status = "failed"]]
          /\ request[r].status = "running"
          /\ recovered' = recovered \cup {r}
          /\ UNCHANGED <<pc, job, reported, unaudited>>
      BY <1>3, <2>1 DEF RecoverRow, StillStale, Expired
    <3>2. request'[r].status = "failed" /\ request'[r].attempts = request[r].attempts
      BY <1>0, <3>1 DEF RequestRow
    <3>3. \A q \in Request : q # r => request'[q] = request[q]
      BY <1>0, <3>1
    <3>4. OneActive'
      BY <3>2, <3>3 DEF Execution, OneActive, Active
    <3>5. History'
      BY <3>1, <3>2, <3>3 DEF Execution, History, Terminal
    <3>6. Work'
      BY <3>1, <3>2, <3>3 DEF Execution, Work, Holds, Executing, Terminal
    <3>7. Finishing'
      BY <3>1 DEF Execution, Finishing
    <3> QED
      BY <3>4, <3>5, <3>6, <3>7 DEF Execution
  <2>2. CASE ~StillStale(r)
    BY <1>3, <2>2, <1>b DEF RecoverRow
  <2> QED
    BY <2>1, <2>2
<1>4. ASSUME NEW w \in Worker, Stop(w) PROVE Execution'
  BY <1>0, <1>4, <1>c DEF Stop, rows, history
<1>5. ASSUME NEW w \in Worker, NEW r \in Request, PickPending(w, r) PROVE Execution'
  <2>1. \A v \in Worker :
          /\ Executing(v)' => Executing(v) /\ job'[v] = job[v]
          /\ pc'[v] \in {"audit", "retract"} => pc'[v] = pc[v] /\ job'[v] = job[v]
    BY <1>0, <1>5 DEF PickPending, Goto, Executing
  <2> QED
    BY <1>5, <1>a, <2>1 DEF PickPending, rows, history
<1>6. ASSUME NEW w \in Worker, NEW r \in Request, ClaimRequest(w, r) PROVE Execution'
  <2>1. /\ UNCHANGED <<recovered, reported, unaudited>>
        /\ job[w] = r /\ pc[w] = "recovering"
    BY <1>6 DEF ClaimRequest, Recovered, history
  <2>2. CASE ~Claimable(r)
    BY <1>0, <1>6, <2>1, <2>2, <1>c DEF ClaimRequest
  <2>3. CASE Claimable(r) /\ request[r].attempts + 1 > MaxAttempts
    <3>1. request[r].attempts = 0
      BY <2>3 DEF Claimable, Execution, History
    <3> QED
      BY <2>3, <3>1
  <2>4. CASE Claimable(r) /\ ~(request[r].attempts + 1 > MaxAttempts)
    <3>1. /\ request' = [request EXCEPT ![r].status = "running",
                                        ![r].attempts = request[r].attempts + 1,
                                        ![r].lease = "fresh"]
          /\ job' = job
          /\ pc' = [pc EXCEPT ![w] = FirstStage(r)]
          /\ \A v \in Worker : v # w => pc'[v] = pc[v]
      BY <1>0, <1>6, <2>4 DEF ClaimRequest, Goto
    <3>2. request[r].status = "pending" /\ request[r].attempts = 0
      BY <2>4 DEF Claimable, Execution, History
    <3>3. request'[r].status = "running" /\ request'[r].attempts = 1
      BY <1>0, <3>1, <3>2 DEF RequestRow
    <3>4. \A q \in Request : q # r => request'[q] = request[q]
      BY <1>0, <3>1
    <3>5. OneActive'
      BY <3>2, <3>3, <3>4 DEF Execution, OneActive, Active
    <3>6. r \notin recovered \cup reported
      BY <3>2 DEF Execution, History, Terminal
    <3>7. History'
      BY <2>1, <3>3, <3>4, <3>6 DEF Execution, History, Terminal
    <3>8. \A v \in Worker : v # w /\ Executing(v)' => Executing(v) /\ job'[v] = job[v] /\ job[v] # r
      BY <3>1, <3>2 DEF Execution, Work, Holds, Executing, Terminal
    <3>9. Work'
      <4>1. job'[w] = r /\ Holds(w)'
        BY <2>1, <3>1, <3>3, <3>6 DEF Holds
      <4>2. ASSUME NEW v \in Worker, v # w, Executing(v)' PROVE Holds(v)' /\ job'[v] # r
        <5>1. Executing(v) /\ job'[v] = job[v] /\ job[v] # r
          BY <3>8, <4>2
        <5>2. Holds(v)
          BY <5>1 DEF Execution, Work
        <5>3. request'[job[v]] = request[job[v]]
          BY <3>4, <5>1, <5>2 DEF Holds
        <5> QED
          BY <2>1, <5>1, <5>2, <5>3 DEF Holds
      <4>3. ASSUME NEW u \in Worker, NEW v \in Worker, Executing(u)', Executing(v)',
                   job'[u] = job'[v]
            PROVE  u = v
        BY <3>8, <4>1, <4>2, <4>3 DEF Execution, Work
      <4> QED
        BY <4>1, <4>2, <4>3 DEF Work
    <3>10. Finishing'
      <4>1. pc'[w] \notin {"audit", "retract"}
        <5>1. FirstStage(r) \in {"sync", "index", "renew", "finish"}
          BY Stages, Places
        <5> QED
          BY <1>0, <3>1, <5>1
      <4> QED
        BY <2>1, <3>1, <4>1 DEF Execution, Finishing
    <3> QED
      BY <3>5, <3>7, <3>9, <3>10 DEF Execution
  <2> QED
    BY <2>2, <2>3, <2>4
<1>7. ASSUME NEW w \in Worker, NEW r \in Request, RenewLease(w, r) PROVE Execution'
  <2>1. request' = [request EXCEPT ![r] = [request[r] EXCEPT !.lease = "fresh"]]
    BY <1>7 DEF RenewLease
  <2>2. \A v \in Worker :
          \/ pc'[v] = pc[v]
          \/ /\ pc'[v] \notin {"audit", "retract"}
             /\ pc[v] \notin {"recovering", "picked", "audit", "retract"}
    BY <1>0, <1>7 DEF RenewLease, Goto
  <2> QED
    BY <1>7, <1>l, <2>1, <2>2 DEF RenewLease, history
<1>8. ASSUME NEW w \in Worker, NEW r \in Request, Report(w, r) PROVE Execution'
  <2>1. StatusOf(result[w]) \in Terminal
    BY <1>0, Outcomes
  <2>2. PICK st \in Terminal : request' = [request EXCEPT ![r] = [request[r] EXCEPT !.status = st]]
    BY <1>8, <2>1 DEF Report, Terminal
  <2>3. /\ job[w] = r
        /\ \/ Executing(w)
           \/ r \in reported
        /\ \/ job' = job /\ pc'[w] = "audit"
           \/ job' = [job EXCEPT ![w] = NoOne] /\ pc'[w] = "idle"
        /\ \A v \in Worker : v # w => pc'[v] = pc[v]
        /\ reported' = reported \cup {r} /\ UNCHANGED <<recovered, unaudited>>
    BY <1>0, <1>8 DEF Report, Rest, Goto, Executing, Execution, Finishing
  <2>4. request'[r].status = st /\ request'[r].attempts = request[r].attempts
    BY <1>0, <2>2 DEF RequestRow
  <2>5. \A q \in Request : q # r => request'[q] = request[q]
    BY <1>0, <2>2
  <2>6. OneActive'
    BY <2>4, <2>5 DEF Execution, OneActive, Active, Terminal
  <2>7. History'
    BY <2>3, <2>4, <2>5 DEF Execution, History, Terminal
  <2>8. ASSUME NEW v \in Worker, Executing(v)'
        PROVE  v # w /\ Executing(v) /\ job'[v] = job[v]
    <3>1. v # w
      BY <1>0, <2>3, <2>8 DEF Executing
    <3> QED
      BY <1>0, <2>3, <2>8, <3>1 DEF Executing
  <2>9. \A v \in Worker : Executing(v)' => job[v] # r
    BY <2>3, <2>8 DEF Execution, Work, Holds
  <2>10. Work'
    BY <2>3, <2>5, <2>8, <2>9 DEF Execution, Work, Holds
  <2>11. Finishing'
    <3>1. \A v \in Worker : v # w => job'[v] = job[v]
      BY <1>0, <2>3
    <3> QED
      BY <1>0, <2>3, <3>1 DEF Execution, Finishing
  <2> QED
    BY <2>6, <2>7, <2>10, <2>11 DEF Execution
<1>9. ASSUME NEW p \in Process, PipelineStep(p) PROVE Execution'
  <2>1. UNCHANGED <<request, job, recovered, reported, unaudited>>
    BY <1>9 DEF PipelineStep, Acquire, Refused, Complete, Break, MarkFailed, rows, history
  <2>2. /\ pc[p] \notin {"recovering", "picked", "audit", "retract"}
        /\ \E where : Goto(p, where) /\ where \notin {"audit", "retract"}
    <3>1. \A s \in Pipeline : StageAfter(job[p], s) \in {"renew", "finish"}
      BY Zenon DEF StageAfter
    <3> QED
      BY <1>9, <3>1, Places DEF PipelineStep, Acquire, Refused, Complete, Break, MarkFailed
  <2> QED
    BY <1>0, <2>1, <2>2, <1>b DEF Goto
<1>10. ASSUME NEW c \in Command, CommandStep(c) PROVE Execution'
  <2>1. CASE PipelineStep(c)
    BY <1>9, <2>1 DEF Process
  <2>2. CASE ~PipelineStep(c)
    <3>1. UNCHANGED <<request, job, recovered, reported, unaudited>>
      BY <1>10, <2>2 DEF CommandStep, StartCommand, StartReindex, ReindexStep,
         ReindexFails, rows, history
    <3>2. \E where : Goto(c, where)
      BY <1>10, <2>2 DEF CommandStep, StartCommand, StartReindex, ReindexStep, ReindexFails
    <3>3. \A w \in Worker : pc'[w] = pc[w]
      BY <1>0, <3>2 DEF Goto
    <3> QED
      BY <3>1, <3>3, <1>b
  <2> QED
    BY <2>1, <2>2
<1>11. ASSUME NEW r \in Request, LeaseExpires(r) PROVE Execution'
  <2>1. request' = [request EXCEPT ![r] = [request[r] EXCEPT !.lease = "expired"]]
    BY <1>11 DEF LeaseExpires
  <2> QED
    BY <1>11, <1>l, <2>1 DEF LeaseExpires, local, history
<1>12. ASSUME NEW s \in Pipeline, LockTimesOut(s) PROVE Execution'
  BY <1>12, <1>b DEF LockTimesOut, local
<1>13. ASSUME NEW p \in Process, Crash(p) PROVE Execution'
  BY <1>13, <1>c DEF Crash, rows
<1>14. ASSUME NEW w \in Worker, Audited(w) PROVE Execution'
  BY <1>0, <1>14, <1>c DEF Audited, rows, history
(* The two exceptions: before a result is saved, and after. *)
<1>15. ASSUME NEW w \in Worker, NEW r \in Request, Stumble(w, r) PROVE Execution'
  <2>1. job[w] = r /\ UNCHANGED <<request, job, recovered, reported>>
    BY <1>15 DEF Stumble, rows
  <2>2. CASE pc[w] = "finish"
    BY <1>0, <1>15, <1>b, <2>1, <2>2 DEF Stumble, Goto
  <2>3. CASE pc[w] = "audit"
    <3>1. pc' = [pc EXCEPT ![w] = "retract"] /\ unaudited' = unaudited \cup {r}
      BY <1>15, <2>3 DEF Stumble, Goto
    <3>2. OneActive' /\ History'
      BY <2>1 DEF Execution, OneActive, History
    <3>3. \A v \in Worker : Executing(v)' => Executing(v)
      BY <1>0, <2>1, <3>1 DEF Executing
    <3>4. Work'
      BY <2>1, <3>3 DEF Execution, Work, Holds
    <3>5. Finishing'
      BY <1>0, <2>1, <2>3, <3>1 DEF Execution, Finishing
    <3> QED
      BY <3>2, <3>4, <3>5 DEF Execution
  <2> QED
    BY <1>15, <2>2, <2>3 DEF Stumble
<1>16. CASE UNCHANGED vars
  BY <1>16, <1>b DEF vars, rows, local, history
<1> QED
  BY <1>0, <1>1, <1>2, <1>3, <1>4, <1>5, <1>6, <1>7, <1>8, <1>9, <1>10, <1>11, <1>12,
     <1>13, <1>14, <1>15, <1>16 DEF Next, WorkerStep

(* No request is executed twice, and two at a time only after one of them  *)
(* was recovered as stale (execute_operation_request).                     *)
THEOREM ExecutedOnce == Spec => []OneExecution
<1>1. Execution => OneExecution
  <2> SUFFICES ASSUME Execution PROVE OneExecution
    OBVIOUS
  <2>1. ASSUME NEW v \in Worker, NEW w \in Worker, v # w, Executing(v), Executing(w)
        PROVE  job[v] # job[w] /\ {job[v], job[w]} \cap recovered # {}
    <3>1. Holds(v) /\ Holds(w) /\ job[v] # job[w]
      BY <2>1 DEF Execution, Work
    <3>2. ~(request[job[v]].status = "running" /\ request[job[w]].status = "running")
      BY <3>1 DEF Execution, OneActive, Active, Holds
    <3> QED
      BY <3>1, <3>2 DEF Holds
  <2> QED
    BY <2>1 DEF OneExecution, Execution, History
<1> QED
  BY <1>1, ExecutionInit, ExecutionStep, RagTypeCorrect, PTL DEF Spec

(* A finished request changes only when its worker, late, reports over the *)
(* failure that a recovery wrote, or makes a failure of a result it could  *)
(* not audit (_finalize_request, execute_operation_request).               *)
THEOREM FinishedStands == Spec => FinishedForCause
<1>1. ASSUME RagTypeOK, Execution, Next, NEW r \in Request,
             request[r].status \in Terminal, request'[r].status # request[r].status
      PROVE  \/ r \in recovered /\ r \notin reported /\ r \in reported'
             \/ request'[r].status = "failed" /\ r \in reported \cap unaudited
  <2>0. request \in [Request -> RequestRow]
    BY <1>1 DEF RagTypeOK
  <2>l. ASSUME NEW q \in Request, NEW l,
               request' = [request EXCEPT ![q] = [request[q] EXCEPT !.lease = l]]
        PROVE  FALSE
    BY <2>0, <2>l, <1>1 DEF RequestRow
  <2>1. ASSUME NEW q \in Request, NEW op \in Operations, NEW dry \in DryRun,
               CreateRequest(q, op, dry)
        PROVE  FALSE
    BY <2>0, <2>1, <1>1 DEF CreateRequest, Terminal
  <2>2. ASSUME NEW p \in Process, PipelineStep(p) PROVE FALSE
    BY <2>2, <1>1 DEF PipelineStep, Acquire, Refused, Complete, Break, MarkFailed, rows
  <2>3. ASSUME NEW c \in Command, CommandStep(c) PROVE FALSE
    BY <2>2, <2>3, <1>1 DEF CommandStep, StartCommand, StartReindex, ReindexStep,
       ReindexFails, rows, Process
  <2>4. ASSUME NEW q \in Request, LeaseExpires(q) PROVE FALSE
    BY <2>4, <2>l DEF LeaseExpires
  <2>5. ASSUME NEW s \in Pipeline, LockTimesOut(s) PROVE FALSE
    BY <2>5, <1>1 DEF LockTimesOut
  <2>6. ASSUME NEW p \in Process, Crash(p) PROVE FALSE
    BY <2>6, <1>1 DEF Crash, rows
  <2>7. PICK w \in Worker : WorkerStep(w)
    BY <1>1, <2>1, <2>3, <2>4, <2>5, <2>6 DEF Next
  <2>8. ASSUME NEW q \in Request, RecoverRow(w, q) PROVE FALSE
    BY <2>0, <2>8, <1>1 DEF RecoverRow, StillStale, Expired, Terminal
  <2>9. ASSUME NEW q \in Request, ClaimRequest(w, q) PROVE FALSE
    BY <2>0, <2>9, <1>1 DEF ClaimRequest, Claimable, Terminal
  <2>10. ASSUME NEW q \in Request, RenewLease(w, q) PROVE FALSE
    BY <2>10, <2>l DEF RenewLease
  <2>11. PICK q \in Request : Report(w, q)
    BY <1>1, <2>2, <2>7, <2>8, <2>9, <2>10
       DEF WorkerStep, ListStale, Stop, PickPending, Audited, Stumble, rows, Process
  <2>12. q = r
    BY <2>0, <2>11, <1>1 DEF Report
  <2>13. job[w] = r /\ reported' = reported \cup {r}
    BY <2>11, <2>12 DEF Report
  <2>14. CASE pc[w] = "retract"
    <3>1. request'[r].status = "failed"
      BY <2>0, <2>11, <2>12, <2>14 DEF Report, RequestRow
    <3> QED
      BY <1>1, <2>13, <2>14, <3>1 DEF Execution, Finishing
  <2>15. CASE pc[w] # "retract"
    <3>1. Executing(w)
      BY <2>11, <2>13, <2>15 DEF Report, Executing
    <3>2. Holds(w)
      BY <1>1, <3>1 DEF Execution, Work
    <3> QED
      BY <1>1, <2>13, <3>2 DEF Holds, Terminal
  <2> QED
    BY <2>14, <2>15
<1>2. RagTypeOK /\ Execution /\ [Next]_vars =>
        [\A r \in Request :
           request[r].status \in Terminal /\ request'[r].status # request[r].status =>
             \/ r \in recovered /\ r \notin reported /\ r \in reported'
             \/ request'[r].status = "failed" /\ r \in reported \cap unaudited]_vars
  BY <1>1
<1> QED
  BY <1>2, ExecutionInit, ExecutionStep, RagTypeCorrect, PTL DEF Spec, FinishedForCause

-------------------------------------------------------------------------------
(***************************************************************************)
(* What a request went through.  Nothing was done for a request before it  *)
(* is claimed; a worker that still has no failure to report (its result is *)
(* "success") has been, at each place, through exactly the pipelines that  *)
(* come before it, each with success; and only a report makes a request    *)
(* succeeded, after which no worker holds it.  Whether Drive was read for  *)
(* real stays as the request was made.                                     *)
(***************************************************************************)
BeforeIndex(op) == IF op = "full_reindex" THEN {<<"sync", "success">>} ELSE {}

Progress(w, r) ==
  /\ pc[w] \in {"sync", "syncing"} =>
       did[r] = {} /\ result[w] = "success" /\ request[r].op # "index_embeddings"
  /\ pc[w] = "renew" => request[r].op = "full_reindex"
  /\ pc[w] \in {"index", "indexing"} => request[r].op \in {"index_embeddings", "full_reindex"}
  /\ pc[w] \in {"renew", "index", "indexing"} /\ result[w] = "success" =>
       did[r] = BeforeIndex(request[r].op)
  /\ pc[w] = "finish" /\ result[w] = "success" =>
       did[r] = Needed(request[r].op) \X {"success"}

(* Where a worker has no outcome yet, or none any more. *)
Quiet == {"idle", "recovering", "picked", "audit", "retract"}

Wholeness ==
  /\ \A r \in Request : request[r].status \in {"absent", "pending"} => did[r] = {}
  /\ \A r \in Request : request[r].status = "succeeded" => r \in reported
  /\ \A w \in Worker : pc[w] \in Quiet => result[w] = "success"
  /\ \A w \in Worker : Executing(w) /\ ~request[job[w]].dry => Progress(w, job[w])
  /\ SucceededIsWhole

(* The stages of an execution that is not a dry run. *)
LEMMA RealStages ==
  ASSUME NEW r \in Request, ~request[r].dry
  PROVE  /\ request[r].op = "index_embeddings" => FirstStage(r) = "index"
         /\ request[r].op # "index_embeddings" => FirstStage(r) = "sync"
         /\ request[r].op = "full_reindex" => StageAfter(r, "sync") = "renew"
         /\ request[r].op # "full_reindex" => StageAfter(r, "sync") = "finish"
         /\ StageAfter(r, "index") = "finish"
  BY Zenon DEF FirstStage, StageAfter

(* Two pipelines make a success only of two successes. *)
LEMMA BothSucceed ==
  ASSUME NEW a \in Outcome, NEW b \in Outcome, Combine(a, b) = "success"
  PROVE  a = "success" /\ b = "success"
  BY DEF Combine, Outcome

(* What each operation needs. *)
LEMMA Needs ==
  /\ Needed("full_reindex") = {"sync", "index"}
  /\ Needed("index_embeddings") = {"index"}
  /\ \A op \in Operation \ {"full_reindex", "index_embeddings"} : Needed(op) = {"sync"}
<1>1. "full_reindex" \notin SyncModes /\ "index_embeddings" \notin SyncModes
  BY DEF SyncModes, DriveModes
<1>2. Needed("full_reindex") = {"sync", "index"}
  BY <1>1, Zenon DEF Needed, Pipeline
<1>3. Needed("index_embeddings") = {"index"}
  BY <1>1, Zenon DEF Needed
<1>4. ASSUME NEW op \in Operation \ {"full_reindex", "index_embeddings"}
      PROVE  Needed(op) = {"sync"}
  <2>1. op \in SyncModes
    BY DEF Operation
  <2> QED
    BY <2>1, Zenon DEF Needed, SyncModes, DriveModes
<1> QED
  BY <1>2, <1>3, <1>4

LEMMA WholenessInit == Init => Wholeness
  BY DEF Init, Wholeness, Quiet, SucceededIsWhole, Executing, NewRequest, Process

LEMMA WholenessStep == RagTypeOK /\ Execution /\ Wholeness /\ [Next]_vars => Wholeness'
<1> SUFFICES ASSUME RagTypeOK, Execution, Wholeness, [Next]_vars PROVE Wholeness'
  OBVIOUS
<1> USE DEF Quiet
<1>0. /\ request \in [Request -> RequestRow]
      /\ \A r \in Request : request[r].op \in Operation /\ request[r].dry \in BOOLEAN
      /\ job \in [Process -> Request \cup {NoOne}]
      /\ pc \in [Process -> Outside \cup {"syncing", "indexing"}]
      /\ result \in [Process -> Outcome]
      /\ did \in [Request -> SUBSET (Pipeline \X Outcome)]
      /\ Worker \subseteq Process
      /\ NoOne \notin Request
  <2>1. \A r \in Request : request[r].op \in Operation /\ request[r].dry \in BOOLEAN
    BY DEF RagTypeOK, RequestRow
  <2> QED
    BY <2>1 DEF RagTypeOK, Process, Outside
(* A worker at work holds a request of its own, that is not pending. *)
<1>w. ASSUME NEW w \in Worker, Executing(w)
      PROVE  /\ job[w] \in Request /\ job[w] \notin reported
             /\ request[job[w]].status \notin {"absent", "pending", "succeeded"}
             /\ \A v \in Worker : Executing(v) /\ job[v] = job[w] => v = w
  BY <1>w DEF Execution, Work, Holds, Wholeness, Terminal
(* Nothing is done for a request, and none begins to succeed. *)
<1>a. ASSUME did' = did, reported \subseteq reported',
             \A r \in Request :
               /\ request'[r].op = request[r].op /\ request'[r].dry = request[r].dry
               /\ \/ request'[r].status = request[r].status
                  \/ request'[r].status \notin {"absent", "pending", "succeeded"},
             \A w \in Worker : pc'[w] \in Quiet => result'[w] = "success",
             \A w \in Worker : Executing(w)' /\ ~request'[job'[w]].dry => Progress(w, job[w])'
      PROVE  Wholeness'
  BY <1>a DEF Wholeness, SucceededIsWhole
(* What keeps the rows, the job and the place of a worker keeps its progress. *)
<1>p. ASSUME did' = did,
             \A r \in Request :
               request'[r].op = request[r].op /\ request'[r].dry = request[r].dry,
             NEW w \in Worker, pc'[w] = pc[w], job'[w] = job[w], result'[w] = result[w],
             Executing(w)', ~request'[job'[w]].dry
      PROVE  Progress(w, job[w])'
  <2>1. Executing(w)
    BY <1>p DEF Executing
  <2>2. Progress(w, job[w])
    BY <1>p, <1>w, <2>1 DEF Wholeness
  <2> QED
    BY <1>p, <1>w, <2>1, <2>2 DEF Progress
(* A process that goes somewhere, the rows' statuses unchanged. *)
<1>b. ASSUME UNCHANGED <<did, job, result, reported>>,
             \A r \in Request : /\ request'[r].op = request[r].op
                                /\ request'[r].dry = request[r].dry
                                /\ request'[r].status = request[r].status,
             NEW p \in Process, NEW where, Goto(p, where),
             \/ p \notin Worker
             \/ where \in Quiet \ {"idle"} /\ pc[p] \in Quiet
             \/ where \in {"fail", "mark_sync", "mark_index"}
             \/ where \notin Quiet
                  /\ (Executing(p)' /\ ~request[job[p]].dry => Progress(p, job[p])')
      PROVE  Wholeness'
  <2>1. \A w \in Worker : w # p => pc'[w] = pc[w]
    BY <1>0, <1>b DEF Goto
  <2>2. p \in Worker => pc'[p] = where
    BY <1>0, <1>b DEF Goto
  <2>3. ASSUME NEW w \in Worker, pc'[w] \in Quiet
        PROVE  result'[w] = "success"
    BY <1>b, <2>1, <2>2, <2>3 DEF Wholeness
  <2>4. ASSUME NEW w \in Worker, Executing(w)', ~request'[job'[w]].dry
        PROVE  Progress(w, job[w])'
    <3>1. CASE w # p
      BY <1>b, <1>p, <2>1, <2>4, <3>1
    <3>2. CASE w = p /\ where \in {"fail", "mark_sync", "mark_index"}
      BY <2>2, <3>2 DEF Progress
    <3>3. CASE w = p /\ where \notin {"fail", "mark_sync", "mark_index"}
      <4>1. where \notin Quiet \ {"idle"}
        BY <2>2, <2>4, <3>3 DEF Executing
      <4>2. request'[job[p]].dry = request[job[p]].dry
        <5>1. job[p] \in Request
          BY <1>0, <1>b, <2>4, <3>3 DEF Executing
        <5> QED
          BY <1>b, <5>1
      <4> QED
        BY <1>b, <2>4, <3>3, <4>1, <4>2
    <3> QED
      BY <3>1, <3>2, <3>3
  <2> QED
    BY <1>b, <1>a, <2>3, <2>4
(* A process that rests, the rows unchanged. *)
<1>c. ASSUME NEW p \in Process, Rest(p), did' = did, reported \subseteq reported',
             \A r \in Request :
               /\ request'[r].op = request[r].op /\ request'[r].dry = request[r].dry
               /\ \/ request'[r].status = request[r].status
                  \/ request'[r].status \notin {"absent", "pending", "succeeded"}
      PROVE  Wholeness'
  <2>1. /\ pc' = [pc EXCEPT ![p] = "idle"]
        /\ job' = [job EXCEPT ![p] = NoOne]
        /\ result' = [result EXCEPT ![p] = "success"]
    BY <1>c DEF Rest, Goto
  <2>2. ASSUME NEW w \in Worker, pc'[w] \in Quiet
        PROVE  result'[w] = "success"
    BY <1>0, <2>1, <2>2 DEF Wholeness
  <2>3. ASSUME NEW w \in Worker, Executing(w)', ~request'[job'[w]].dry
        PROVE  Progress(w, job[w])'
    <3>1. w # p
      BY <1>0, <2>1, <2>3 DEF Executing
    <3>2. pc'[w] = pc[w] /\ job'[w] = job[w] /\ result'[w] = result[w]
      BY <1>0, <2>1, <3>1
    <3> QED
      BY <1>c, <1>p, <2>3, <3>2
  <2> QED
    BY <1>a, <1>c, <2>2, <2>3
<1>l. ASSUME NEW r \in Request, NEW l,
             request' = [request EXCEPT ![r] = [request[r] EXCEPT !.lease = l]]
      PROVE  \A q \in Request : /\ request'[q].op = request[q].op
                                /\ request'[q].dry = request[q].dry
                                /\ request'[q].status = request[q].status
  BY <1>0, <1>l DEF RequestRow
<1>s. ASSUME NEW r \in Request, NEW st,
             request' = [request EXCEPT ![r] = [request[r] EXCEPT !.status = st]]
      PROVE  /\ \A q \in Request : /\ request'[q].op = request[q].op
                                   /\ request'[q].dry = request[q].dry
             /\ \A q \in Request : q # r => request'[q].status = request[q].status
             /\ request'[r].status = st
  BY <1>0, <1>s DEF RequestRow
<1>1. ASSUME NEW r \in Request, NEW op \in Operations, NEW dry \in DryRun,
             CreateRequest(r, op, dry)
      PROVE  Wholeness'
  <2>1. /\ request' = [request EXCEPT ![r] = NewRequest(op, dry, "pending")]
        /\ request[r].status = "absent"
        /\ UNCHANGED <<pc, job, result, reported, did>>
    BY <1>1 DEF CreateRequest, local, history
  <2>2. request'[r].status = "pending" /\ \A q \in Request : q # r => request'[q] = request[q]
    BY <1>0, <2>1 DEF NewRequest
  <2>3. ASSUME NEW w \in Worker, Executing(w)', ~request'[job'[w]].dry
        PROVE  Progress(w, job[w])'
    <3>1. Executing(w)
      BY <2>1, <2>3 DEF Executing
    <3>2. job[w] \in Request /\ job[w] # r
      BY <1>w, <2>1, <3>1
    <3>3. Progress(w, job[w])
      BY <2>1, <2>2, <2>3, <3>1, <3>2 DEF Wholeness
    <3> QED
      BY <2>1, <2>2, <3>2, <3>3 DEF Progress
  <2> QED
    BY <2>1, <2>2, <2>3 DEF Wholeness, SucceededIsWhole
<1>2. ASSUME NEW w \in Worker, ListStale(w) PROVE Wholeness'
  BY <1>0, <1>2, <1>b DEF ListStale, rows, history
<1>3. ASSUME NEW w \in Worker, NEW r \in Request, RecoverRow(w, r) PROVE Wholeness'
  <2>0. /\ \A v \in Worker : pc'[v] \in Quiet => result'[v] = "success"
        /\ UNCHANGED <<pc, job, result, did, reported>>
    BY <1>3 DEF RecoverRow, Wholeness
  <2>1. CASE StillStale(r)
    <3>1. request' = [request EXCEPT ![r] = [request[r] EXCEPT !.status = "failed"]]
      BY <1>3, <2>1 DEF RecoverRow
    <3> QED
      BY <1>a, <1>p, <1>s, <2>0, <3>1
  <2>2. CASE ~StillStale(r)
    BY <1>3, <1>a, <1>p, <2>0, <2>2 DEF RecoverRow
  <2> QED
    BY <2>1, <2>2
<1>4. ASSUME NEW w \in Worker, Stop(w) PROVE Wholeness'
  BY <1>0, <1>4, <1>c DEF Stop, rows, history
<1>5. ASSUME NEW w \in Worker, NEW r \in Request, PickPending(w, r) PROVE Wholeness'
  <2>1. /\ pc' = [pc EXCEPT ![w] = "picked"] /\ job' = [job EXCEPT ![w] = r]
        /\ pc[w] = "recovering"
        /\ UNCHANGED <<request, result, did, reported>>
    BY <1>5 DEF PickPending, Goto, Recovered, rows, history
  <2>2. ASSUME NEW v \in Worker, pc'[v] \in Quiet
        PROVE  result'[v] = "success"
    BY <1>0, <2>1, <2>2 DEF Wholeness
  <2>3. ASSUME NEW v \in Worker, Executing(v)', ~request'[job'[v]].dry
        PROVE  Progress(v, job[v])'
    <3>1. v # w
      BY <1>0, <2>1, <2>3 DEF Executing
    <3>2. pc'[v] = pc[v] /\ job'[v] = job[v] /\ result'[v] = result[v]
      BY <1>0, <2>1, <3>1
    <3> QED
      BY <1>p, <2>1, <2>3, <3>2
  <2> QED
    BY <1>a, <2>1, <2>2, <2>3
<1>6. ASSUME NEW w \in Worker, NEW r \in Request, ClaimRequest(w, r) PROVE Wholeness'
  <2>1. /\ reported' = reported /\ did' = did /\ job[w] = r /\ pc[w] = "recovering"
        /\ result[w] = "success"
    BY <1>6 DEF ClaimRequest, Recovered, history, Wholeness
  <2>2. CASE ~Claimable(r)
    BY <1>0, <1>6, <1>c, <2>1, <2>2 DEF ClaimRequest
  <2>3. CASE Claimable(r) /\ request[r].attempts + 1 > MaxAttempts
    <3>1. request[r].attempts = 0
      BY <2>3 DEF Claimable, Execution, History
    <3> QED
      BY <2>3, <3>1
  <2>4. CASE Claimable(r) /\ ~(request[r].attempts + 1 > MaxAttempts)
    <3>1. /\ request' = [request EXCEPT ![r].status = "running",
                                        ![r].attempts = request[r].attempts + 1,
                                        ![r].lease = "fresh"]
          /\ job' = job /\ result' = result
          /\ pc' = [pc EXCEPT ![w] = FirstStage(r)]
      BY <1>6, <2>4 DEF ClaimRequest, Goto
    <3>2. /\ \A q \in Request : /\ request'[q].op = request[q].op
                                /\ request'[q].dry = request[q].dry
          /\ \A q \in Request : q # r => request'[q].status = request[q].status
          /\ request'[r].status = "running"
      BY <1>0, <3>1 DEF RequestRow
    <3>3. FirstStage(r) \in {"sync", "index", "renew", "finish"}
      BY Stages, Places
    <3>4. did[r] = {}
      BY <2>4 DEF Claimable, Wholeness
    <3>5. ASSUME NEW v \in Worker, pc'[v] \in Quiet
          PROVE  result'[v] = "success"
      BY <1>0, <2>1, <3>1, <3>5 DEF Wholeness
    <3>6. ASSUME NEW v \in Worker, Executing(v)', ~request'[job'[v]].dry
          PROVE  Progress(v, job[v])'
      <4>1. CASE v # w
        <5>1. pc'[v] = pc[v]
          BY <1>0, <3>1, <4>1
        <5> QED
          BY <1>p, <2>1, <3>1, <3>2, <3>6, <5>1
      <4>2. CASE v = w
        <5>1. ~request[r].dry /\ pc'[w] = FirstStage(r)
          BY <1>0, <2>1, <3>1, <3>2, <3>6, <4>2
        <5>2. CASE request[r].op = "index_embeddings"
          <6>1. pc'[w] = "index"
            BY <5>1, <5>2, RealStages
          <6>2. BeforeIndex(request[r].op) = {}
            BY <5>2 DEF BeforeIndex
          <6> QED
            BY <2>1, <3>1, <3>2, <3>4, <4>2, <5>2, <6>1, <6>2 DEF Progress
        <5>3. CASE request[r].op # "index_embeddings"
          <6>1. pc'[w] = "sync"
            BY <5>1, <5>3, RealStages
          <6> QED
            BY <2>1, <3>1, <3>2, <3>4, <4>2, <5>3, <6>1 DEF Progress
        <5> QED
          BY <5>2, <5>3
      <4> QED
        BY <4>1, <4>2
    <3> QED
      BY <1>a, <2>1, <3>2, <3>5, <3>6
  <2> QED
    BY <2>2, <2>3, <2>4
<1>7. ASSUME NEW w \in Worker, NEW r \in Request, RenewLease(w, r) PROVE Wholeness'
  <2>1. /\ request' = [request EXCEPT ![r] = [request[r] EXCEPT !.lease = "fresh"]]
        /\ pc[w] = "renew" /\ job[w] = r /\ Goto(w, "index")
        /\ UNCHANGED <<job, result, did, reported>>
    BY <1>7 DEF RenewLease, history
  <2>2. Executing(w)
    BY <1>0, <2>1 DEF Executing
  <2>3. pc'[w] = "index"
    BY <1>0, <2>1 DEF Goto
  <2>4. ~request[r].dry => Progress(w, job[w])'
    <3>1. ~request[r].dry => Progress(w, r)
      BY <2>1, <2>2 DEF Wholeness
    <3> QED
      BY <1>l, <2>1, <2>3, <3>1 DEF Progress
  <2> QED
    BY <1>b, <1>l, <2>1, <2>4, <1>0
<1>8. ASSUME NEW w \in Worker, NEW r \in Request, Report(w, r) PROVE Wholeness'
  <2>1. result[w] \in Outcome /\ StatusOf(result[w]) \in Terminal
    BY <1>0, Outcomes
  <2>2. /\ did' = did /\ reported' = reported \cup {r} /\ job[w] = r
        /\ pc[w] \in {"finish", "fail", "retract"}
    BY <1>8 DEF Report
  <2>3. CASE pc[w] = "finish"
    <3>1. /\ request' = [request EXCEPT ![r] = [request[r] EXCEPT !.status = StatusOf(result[w])]]
          /\ pc' = [pc EXCEPT ![w] = "audit"] /\ job' = job
          /\ result' = [result EXCEPT ![w] = "success"]
      BY <1>8, <2>3 DEF Report, Goto
    <3>2. ~request[r].dry /\ StatusOf(result[w]) = "succeeded" =>
            did[r] = Needed(request[r].op) \X {"success"}
      <4>1. StatusOf(result[w]) = "succeeded" => result[w] = "success"
        BY <2>1 DEF StatusOf, Outcome
      <4>2. Executing(w)
        BY <2>2, <2>3 DEF Executing
      <4> QED
        BY <2>2, <2>3, <4>1, <4>2 DEF Wholeness, Progress
    <3>3. ASSUME NEW v \in Worker, pc'[v] \in Quiet
          PROVE  result'[v] = "success"
      BY <1>0, <3>1, <3>3 DEF Wholeness
    <3>4. ASSUME NEW v \in Worker, Executing(v)', ~request'[job'[v]].dry
          PROVE  Progress(v, job[v])'
      <4>1. v # w
        BY <1>0, <3>1, <3>4 DEF Executing
      <4>2. pc'[v] = pc[v] /\ job'[v] = job[v] /\ result'[v] = result[v]
        BY <1>0, <3>1, <4>1
      <4> QED
        BY <1>p, <1>s, <2>2, <3>1, <3>4, <4>2
    <3>5. \A q \in Request : request'[q].status \in {"absent", "pending"} => did'[q] = {}
      BY <1>s, <2>1, <2>2, <3>1 DEF Wholeness, Terminal
    <3>6. \A q \in Request : request'[q].status = "succeeded" => q \in reported'
      BY <1>s, <2>2, <3>1 DEF Wholeness
    <3>7. SucceededIsWhole'
      BY <1>s, <2>2, <3>1, <3>2 DEF Wholeness, SucceededIsWhole
    <3> QED
      BY <3>3, <3>4, <3>5, <3>6, <3>7 DEF Wholeness
  <2>4. CASE pc[w] # "finish"
    <3>1. /\ request' = [request EXCEPT ![r] = [request[r] EXCEPT !.status = "failed"]]
          /\ Rest(w)
      BY <1>8, <2>4 DEF Report
    <3> QED
      BY <1>c, <1>s, <1>0, <2>2, <3>1
  <2> QED
    BY <2>3, <2>4
<1>9. ASSUME NEW p \in Process, NEW s \in Pipeline, Acquire(p, s) PROVE Wholeness'
  <2>1. /\ UNCHANGED <<request, job, result, did, reported>>
        /\ pc[p] = s /\ Goto(p, Inside(s))
    BY <1>9 DEF Acquire
  <2>2. pc'[p] = Inside(s)
    BY <1>0, <2>1 DEF Goto
  <2>3. ASSUME p \in Worker, Executing(p)', ~request[job[p]].dry PROVE Progress(p, job[p])'
    <3>1. Executing(p)
      BY <2>1, <2>3, Places DEF Executing
    <3>2. Progress(p, job[p])
      BY <2>3, <3>1 DEF Wholeness
    <3> QED
      BY <2>1, <2>2, <3>2, Places DEF Progress
  <2> QED
    BY <1>b, <2>1, <2>3, Places
<1>10. ASSUME NEW p \in Process, NEW s \in Pipeline, Refused(p, s) PROVE Wholeness'
  <2>1. /\ UNCHANGED <<request, job, result, did, reported>>
        /\ \E where : Goto(p, where) /\ (p \in Worker => where \in {"fail", Marking(s)})
    BY <1>10 DEF Refused, rows, history
  <2> QED
    BY <1>b, <2>1, Places
<1>11. ASSUME NEW p \in Process, NEW s \in Pipeline, NEW outcome \in Outcome,
              Complete(p, s, outcome)
       PROVE  Wholeness'
  <2>0. UNCHANGED <<request, job, reported>> /\ pc[p] = Inside(s)
    BY <1>11 DEF Complete
  <2>1. CASE p \in Worker
    <3>1. /\ result' = [result EXCEPT ![p] = Combine(result[p], outcome)]
          /\ did' = [did EXCEPT ![job[p]] = did[job[p]] \cup {<<s, outcome>>}]
          /\ pc' = [pc EXCEPT ![p] = StageAfter(job[p], s)]
      BY <1>11, <2>1 DEF Complete, Goto
    <3>2. Combine(result[p], outcome) = "success" => result[p] = "success" /\ outcome = "success"
      BY <1>0, BothSucceed
    <3>3. StageAfter(job[p], s) \in {"renew", "finish"}
      BY Zenon DEF StageAfter
    <3>4. \A v \in Worker : v # p => pc'[v] = pc[v] /\ result'[v] = result[v]
      BY <1>0, <3>1
    <3>5. ASSUME NEW v \in Worker, pc'[v] \in Quiet
          PROVE  result'[v] = "success"
      BY <1>0, <2>1, <3>1, <3>3, <3>4, <3>5 DEF Wholeness
    <3>6. CASE job[p] = NoOne
      <4>1. did' = did
        BY <1>0, <3>1, <3>6
      <4>2. ASSUME NEW v \in Worker, Executing(v)', ~request'[job'[v]].dry
            PROVE  Progress(v, job[v])'
        <5>1. v # p
          BY <2>0, <3>6, <4>2 DEF Executing
        <5> QED
          BY <1>p, <2>0, <3>4, <4>1, <4>2, <5>1
      <4> QED
        BY <1>a, <2>0, <3>5, <4>1, <4>2
    <3>7. CASE job[p] # NoOne
      <4>1. Executing(p)
        BY <2>0, <3>7, Places DEF Executing
      <4> DEFINE r == job[p]
      <4>2. /\ r \in Request /\ request[r].status \notin {"absent", "pending", "succeeded"}
            /\ \A v \in Worker : Executing(v) /\ job[v] = r => v = p
        BY <1>w, <2>1, <4>1
      <4>3. did'[r] = did[r] \cup {<<s, outcome>>} /\ \A q \in Request : q # r => did'[q] = did[q]
        BY <1>0, <3>1, <4>2
      <4>4. ASSUME ~request[r].dry, Executing(p)' PROVE Progress(p, job[p])'
        <5>1. Progress(p, r)
          BY <2>1, <4>1, <4>4 DEF Wholeness
        <5>2. pc'[p] = StageAfter(r, s) /\ result'[p] = Combine(result[p], outcome)
          BY <1>0, <3>1
        <5>3. CASE s = "sync"
          <6>1. did'[r] = {<<"sync", outcome>>} /\ request[r].op # "index_embeddings"
            BY <2>0, <4>3, <5>1, <5>3, Places DEF Progress
          <6>2. CASE request[r].op = "full_reindex"
            <7>1. pc'[p] = "renew"
              BY <4>2, <4>4, <5>2, <5>3, <6>2, RealStages
            <7> QED
              BY <2>0, <3>2, <5>2, <6>1, <6>2, <7>1 DEF Progress, BeforeIndex
          <6>3. CASE request[r].op # "full_reindex"
            <7>1. pc'[p] = "finish"
              BY <4>2, <4>4, <5>2, <5>3, <6>3, RealStages
            <7>2. Needed(request[r].op) = {"sync"}
              BY <1>0, <4>2, <6>1, <6>3, Needs
            <7>3. {"sync"} \X {"success"} = {<<"sync", "success">>}
              OBVIOUS
            <7> QED
              BY <2>0, <3>2, <5>2, <6>1, <7>1, <7>2, <7>3 DEF Progress
          <6> QED
            BY <6>2, <6>3
        <5>4. CASE s = "index"
          <6>1. /\ request[r].op \in {"index_embeddings", "full_reindex"}
                /\ result[p] = "success" => did[r] = BeforeIndex(request[r].op)
            BY <2>0, <5>1, <5>4, Places DEF Progress
          <6>2. pc'[p] = "finish"
            BY <4>2, <4>4, <5>2, <5>4, RealStages
          <6>3. BeforeIndex(request[r].op) \cup {<<"index", "success">>}
                  = Needed(request[r].op) \X {"success"}
            <7>1. CASE request[r].op = "full_reindex"
              BY <7>1, Needs DEF BeforeIndex
            <7>2. CASE request[r].op = "index_embeddings"
              BY <7>2, Needs DEF BeforeIndex
            <7> QED
              BY <6>1, <7>1, <7>2
          <6> QED
            BY <2>0, <3>2, <4>3, <5>2, <5>4, <6>1, <6>2, <6>3 DEF Progress
        <5> QED
          BY <5>3, <5>4 DEF Pipeline
      <4>5. ASSUME NEW v \in Worker, Executing(v)', ~request'[job'[v]].dry
            PROVE  Progress(v, job[v])'
        <5>1. CASE v = p
          BY <2>0, <4>4, <4>5, <5>1
        <5>2. CASE v # p
          <6>1. Executing(v) /\ ~request[job[v]].dry
            BY <2>0, <3>4, <4>5, <5>2 DEF Executing
          <6>2. Progress(v, job[v]) /\ job[v] \in Request /\ job[v] # r
            BY <1>w, <4>2, <5>2, <6>1 DEF Wholeness
          <6> QED
            BY <2>0, <3>4, <4>3, <5>2, <6>2 DEF Progress
        <5> QED
          BY <5>1, <5>2
      <4>6. \A q \in Request : request'[q].status \in {"absent", "pending"} => did'[q] = {}
        BY <2>0, <4>2, <4>3 DEF Wholeness
      <4>7. SucceededIsWhole'
        BY <2>0, <4>2, <4>3 DEF Wholeness, SucceededIsWhole
      <4> QED
        BY <2>0, <3>5, <4>5, <4>6, <4>7 DEF Wholeness
    <3> QED
      BY <3>6, <3>7
  <2>2. CASE p \notin Worker
    BY <1>11, <1>b, <2>0, <2>2 DEF Complete
  <2> QED
    BY <2>1, <2>2
<1>12. ASSUME NEW p \in Process, NEW s \in Pipeline, NEW own \in BOOLEAN, Break(p, s, own)
       PROVE  Wholeness'
  <2>1. /\ UNCHANGED <<request, job, result, did, reported>>
        /\ \E where \in {"fail", Marking(s)} : Goto(p, where)
    BY <1>12 DEF Break, rows
  <2> QED
    BY <1>b, <2>1, Places
<1>13. ASSUME NEW p \in Process, NEW s \in Pipeline, MarkFailed(p, s) PROVE Wholeness'
  <2>1. /\ UNCHANGED <<request, job, result, did, reported>>
        /\ \E where : Goto(p, where) /\ (p \in Worker => where = "fail")
    BY <1>13 DEF MarkFailed
  <2> QED
    BY <1>b, <2>1
<1>14. ASSUME NEW p \in Process, PipelineStep(p) PROVE Wholeness'
  BY <1>9, <1>10, <1>11, <1>12, <1>13, <1>14 DEF PipelineStep
<1>15. ASSUME NEW c \in Command, CommandStep(c) PROVE Wholeness'
  <2>1. CASE PipelineStep(c)
    BY <1>14, <2>1 DEF Process
  <2>2. CASE ~PipelineStep(c)
    <3>1. UNCHANGED <<request, job, result, did, reported>> /\ \E where : Goto(c, where)
      BY <1>15, <2>2 DEF CommandStep, StartCommand, StartReindex, ReindexStep,
         ReindexFails, rows, history
    <3>2. c \in Process /\ c \notin Worker
      BY DEF Process
    <3> QED
      BY <1>b, <3>1, <3>2
  <2> QED
    BY <2>1, <2>2
<1>16. ASSUME NEW r \in Request, LeaseExpires(r) PROVE Wholeness'
  <2>1. /\ request' = [request EXCEPT ![r] = [request[r] EXCEPT !.lease = "expired"]]
        /\ UNCHANGED <<pc, job, result, did, reported>>
    BY <1>16 DEF LeaseExpires, local, history
  <2>2. \A w \in Worker : pc'[w] \in Quiet => result'[w] = "success"
    BY <2>1 DEF Wholeness
  <2> QED
    BY <1>a, <1>l, <1>p, <2>1, <2>2
<1>17. ASSUME UNCHANGED <<request, pc, job, result, did, reported>> PROVE Wholeness'
  BY <1>17 DEF Wholeness, SucceededIsWhole, Progress, Executing
<1>18. ASSUME NEW s \in Pipeline, LockTimesOut(s) PROVE Wholeness'
  BY <1>17, <1>18 DEF LockTimesOut, local
<1>19. ASSUME NEW p \in Process, Crash(p) PROVE Wholeness'
  BY <1>19, <1>c DEF Crash, rows
<1>20. ASSUME NEW w \in Worker, Audited(w) PROVE Wholeness'
  BY <1>0, <1>20, <1>c DEF Audited, rows, history
<1>21. ASSUME NEW w \in Worker, NEW r \in Request, Stumble(w, r) PROVE Wholeness'
  <2>1. UNCHANGED <<request, job, result, did, reported>>
    BY <1>21 DEF Stumble, rows
  <2>2. CASE pc[w] = "finish"
    BY <1>0, <1>21, <1>b, <2>1, <2>2 DEF Stumble
  <2>3. CASE pc[w] = "audit"
    BY <1>0, <1>21, <1>b, <2>1, <2>3 DEF Stumble
  <2> QED
    BY <1>21, <2>2, <2>3 DEF Stumble
<1>22. CASE UNCHANGED vars
  BY <1>17, <1>22 DEF vars, rows, local, history
<1> QED
  BY <1>0, <1>1, <1>2, <1>3, <1>4, <1>5, <1>6, <1>7, <1>8, <1>14, <1>15, <1>16, <1>18,
     <1>19, <1>20, <1>21, <1>22 DEF Next, WorkerStep

(* A real operation that shows succeeded went through every pipeline it    *)
(* stands for, each without a failure (execute_operation_request,          *)
(* _finalize_request).                                                     *)
THEOREM SucceededAreWhole == Spec => []SucceededIsWhole
<1>1. Wholeness => SucceededIsWhole
  BY DEF Wholeness
<1> QED
  BY <1>1, WholenessInit, WholenessStep, ExecutionInit, ExecutionStep, RagTypeCorrect,
     PTL DEF Spec

-----------------------------------------------------------------------------
(* KnowledgeDocuments.  The invariant says what each operation in progress  *)
(* has made sure of at the place it is at (OwnOf), what an active manifest  *)
(* means (ManifestOf) and what an indexed row means (IndexOf); a step keeps *)
(* it when it keeps the documents, but the excused, as the other operations *)
(* have found them (Keeps, Carried).                                        *)
USE KnowledgeAssumption

Place == {"idle", "mark", "sync", "judge", "save", "stage", "chunk", "decide", "embed",
          "verify", "hide"}

WorkRow == [name : {"none", "upsert", "reindex", "pipeline", "index"}, at : Place,
         docs : SUBSET Doc, loaded : [Doc -> Row], todo : SUBSET Doc,
         staged : [Doc -> Stamp], run : Run \cup {NoRun},
         pending : [Doc -> SUBSET Version], failed : BOOLEAN]

DocumentsTyped ==
  /\ doc \in [Doc -> Row] /\ manifest \in [Doc -> Manifest]
  /\ chunk \in [Doc -> [Version -> Life]] /\ emb \in [Doc -> [Version -> Life]]
  /\ work \in [Actor -> WorkRow]
  /\ changes \in 0..MaxChanges /\ mishaps \in 0..MaxMishaps
  /\ runId \in Run \cup {NoRun} /\ runs \subseteq Run
  /\ raced \in [Actor -> SUBSET Doc] /\ excused \subseteq Doc /\ clashed \subseteq Doc

(* Neither a mishap nor a clash has happened. *)
Calm == mishaps = 0 /\ clashed = {}

(* Where an operation can be, and of how many documents it is. *)
PlacesOf == [none |-> {"idle"}, upsert |-> {"sync", "judge", "save"},
             reindex |-> {"mark", "sync", "stage", "chunk", "decide", "embed", "verify", "hide"},
             pipeline |-> {"sync", "stage", "chunk"}, index |-> {"decide", "embed"}]

ShapeOf(w) ==
  /\ w.at \in PlacesOf[w.name]
  /\ w.name \in {"none", "index"} => w.docs = {}
  /\ w.name \in {"upsert", "reindex"} => \E d \in Doc : w.docs = {d}
  /\ w.todo \subseteq w.docs
  /\ w.name = "reindex" => \A d \in w.docs : w.loaded[d].status = "active"
  /\ w.at = "save" => \A d \in w.docs : w.loaded[d].lifecycle # "failed"
  /\ w.failed => ~Calm

(* The document is as its manifest has it; its chunks are of that text; and *)
(* it is cut and embedded.                                                  *)
InStep(d) == doc[d].status = "active" /\ manifest[d].active /\ manifest[d].sha = doc[d].text
Sound(d) == InStep(d) /\ Current(chunk[d]) \subseteq {doc[d].text}
Cut(d) == InStep(d) /\ Current(chunk[d]) = {doc[d].text}
Whole(d) == Cut(d) /\ doc[d].text \in Current(emb[d])
Indexed(d) == Sound(d) /\ (Calm => Whole(d))

(* Of an operation and a document that is not excused: it has the row as it *)
(* is; ...                                                                  *)
FreshOf(w, d) ==
  d \in w.docs => w.loaded[d].status = doc[d].status /\ w.loaded[d].text = doc[d].text

(* ... a build has the text of the manifest staged, or none; ... *)
BuildOf(w, d) ==
  w.at = "chunk" /\ manifest[d].active => w.staged[d] \in {NoVersion, manifest[d].sha}

(* ... a reindex has made sure of this, from place to place; ... *)
ReindexOf(w, d) ==
  w.name = "reindex" /\ d \in w.docs =>
    /\ w.at \in {"stage", "chunk"} => InStep(d)
    /\ w.at = "chunk" => w.staged[d] = doc[d].text
    /\ w.at \in {"decide", "embed", "verify"} /\ ~w.failed => Sound(d)
    /\ Calm =>
         /\ w.at \in {"decide", "embed", "verify"} => Cut(d)
         /\ w.at = "embed" => doc[d].text \in Current(emb[d]) \cup w.pending[d]
         /\ w.at = "verify" => Whole(d)
         /\ w.at # "hide"

(* ... and the verdict an upsert is about to save is true. *)
SavedOf(w, d) ==
  w.at = "save" /\ d \in w.docs /\ w.loaded[d].lifecycle = "indexed" => Indexed(d)

OwnOf(w) ==
  /\ ShapeOf(w)
  /\ \A d \in Doc \ excused : FreshOf(w, d) /\ BuildOf(w, d) /\ ReindexOf(w, d) /\ SavedOf(w, d)

(* A manifest that is active has been staged. *)
StagedOf(d) == manifest[d].active => manifest[d].status \notin {"none", "removed"}

(* An upsert has still to synchronise the document. *)
UnsyncedBy(w, d) == w.name = "upsert" /\ w.at = "sync" /\ d \in w.docs
Unsynced(d) == \E a \in Actor : UnsyncedBy(work[a], d)

ManifestOf(d) == manifest[d].active /\ ~Unsynced(d) => InStep(d)
IndexOf(d) == doc[d].lifecycle = "indexed" => Indexed(d)

DocumentsInv ==
  /\ DocumentsTyped
  /\ \A a \in Actor : OwnOf(work[a])
  /\ \A d \in Doc : StagedOf(d)
  /\ \A d \in Doc \ excused : ManifestOf(d) /\ IndexOf(d)

LEMMA Stamps == Version \subseteq Nat /\ NoVersion \notin Version /\ 1 \in Version
BY DEF Version, NoVersion

LEMMA ItsDocument ==
  ASSUME NEW a \in Actor, NEW d, work[a].docs = {d}
  PROVE  Its(a) = d
BY DEF Its

LEMMA RowFields ==
  \A r \in Row : /\ r.status \in DocStatus /\ r.text \in Version /\ r.content \in Stamp
                 /\ r.indexed \in Stamp /\ r.lifecycle \in Lifecycle
BY DEF Row

LEMMA WorkFields ==
  \A w \in WorkRow :
    /\ w.name \in {"none", "upsert", "reindex", "pipeline", "index"} /\ w.at \in Place
    /\ w.docs \subseteq Doc /\ w.loaded \in [Doc -> Row] /\ w.todo \subseteq Doc
    /\ w.staged \in [Doc -> Stamp] /\ w.pending \in [Doc -> SUBSET Version]
    /\ w.run \in Run \cup {NoRun} /\ w.failed \in BOOLEAN
BY DEF WorkRow

LEMMA WorkUpdates ==
  ASSUME NEW w \in WorkRow
  PROVE  /\ \A v \in {"none", "upsert", "reindex", "pipeline", "index"} : [w EXCEPT !.name = v] \in WorkRow
         /\ \A v \in Place : [w EXCEPT !.at = v] \in WorkRow
         /\ \A v \in SUBSET Doc : [w EXCEPT !.docs = v] \in WorkRow
         /\ \A v \in [Doc -> Row] : [w EXCEPT !.loaded = v] \in WorkRow
         /\ \A v \in SUBSET Doc : [w EXCEPT !.todo = v] \in WorkRow
         /\ \A v \in [Doc -> Stamp] : [w EXCEPT !.staged = v] \in WorkRow
         /\ \A v \in [Doc -> SUBSET Version] : [w EXCEPT !.pending = v] \in WorkRow
         /\ \A v \in Run \cup {NoRun} : [w EXCEPT !.run = v] \in WorkRow
         /\ \A v \in BOOLEAN : [w EXCEPT !.failed = v] \in WorkRow
BY DEF WorkRow

(* An operation that goes on, and one that takes a row up. *)
LEMMA WorkAt ==
  ASSUME NEW w \in WorkRow, NEW v \in Place
  PROVE  /\ [w EXCEPT !.at = v] \in WorkRow /\ [w EXCEPT !.at = v].at = v
         /\ [w EXCEPT !.at = v].name = w.name
         /\ [w EXCEPT !.at = v].docs = w.docs
         /\ [w EXCEPT !.at = v].loaded = w.loaded
         /\ [w EXCEPT !.at = v].todo = w.todo
         /\ [w EXCEPT !.at = v].staged = w.staged
         /\ [w EXCEPT !.at = v].pending = w.pending
         /\ [w EXCEPT !.at = v].run = w.run
         /\ [w EXCEPT !.at = v].failed = w.failed
<1>1. [w EXCEPT !.at = v] \in WorkRow
  BY WorkUpdates
<1>2. QED
  BY <1>1 DEF WorkRow

LEMMA WorkLoaded ==
  ASSUME NEW w \in WorkRow, NEW v \in [Doc -> Row]
  PROVE  /\ [w EXCEPT !.loaded = v] \in WorkRow /\ [w EXCEPT !.loaded = v].loaded = v
         /\ [w EXCEPT !.loaded = v].name = w.name
         /\ [w EXCEPT !.loaded = v].at = w.at
         /\ [w EXCEPT !.loaded = v].docs = w.docs
         /\ [w EXCEPT !.loaded = v].todo = w.todo
         /\ [w EXCEPT !.loaded = v].staged = w.staged
         /\ [w EXCEPT !.loaded = v].pending = w.pending
         /\ [w EXCEPT !.loaded = v].run = w.run
         /\ [w EXCEPT !.loaded = v].failed = w.failed
<1>1. [w EXCEPT !.loaded = v] \in WorkRow
  BY WorkUpdates
<1>2. QED
  BY <1>1 DEF WorkRow

LEMMA WorkTodo ==
  ASSUME NEW w \in WorkRow, NEW v \in SUBSET Doc
  PROVE  /\ [w EXCEPT !.todo = v] \in WorkRow /\ [w EXCEPT !.todo = v].todo = v
         /\ [w EXCEPT !.todo = v].name = w.name
         /\ [w EXCEPT !.todo = v].at = w.at
         /\ [w EXCEPT !.todo = v].docs = w.docs
         /\ [w EXCEPT !.todo = v].loaded = w.loaded
         /\ [w EXCEPT !.todo = v].staged = w.staged
         /\ [w EXCEPT !.todo = v].pending = w.pending
         /\ [w EXCEPT !.todo = v].run = w.run
         /\ [w EXCEPT !.todo = v].failed = w.failed
<1>1. [w EXCEPT !.todo = v] \in WorkRow
  BY WorkUpdates
<1>2. QED
  BY <1>1 DEF WorkRow

LEMMA WorkStaged ==
  ASSUME NEW w \in WorkRow, NEW v \in [Doc -> Stamp]
  PROVE  /\ [w EXCEPT !.staged = v] \in WorkRow /\ [w EXCEPT !.staged = v].staged = v
         /\ [w EXCEPT !.staged = v].name = w.name
         /\ [w EXCEPT !.staged = v].at = w.at
         /\ [w EXCEPT !.staged = v].docs = w.docs
         /\ [w EXCEPT !.staged = v].loaded = w.loaded
         /\ [w EXCEPT !.staged = v].todo = w.todo
         /\ [w EXCEPT !.staged = v].pending = w.pending
         /\ [w EXCEPT !.staged = v].run = w.run
         /\ [w EXCEPT !.staged = v].failed = w.failed
<1>1. [w EXCEPT !.staged = v] \in WorkRow
  BY WorkUpdates
<1>2. QED
  BY <1>1 DEF WorkRow

LEMMA WorkRun ==
  ASSUME NEW w \in WorkRow, NEW v \in Run \cup {NoRun}
  PROVE  /\ [w EXCEPT !.run = v] \in WorkRow /\ [w EXCEPT !.run = v].run = v
         /\ [w EXCEPT !.run = v].name = w.name
         /\ [w EXCEPT !.run = v].at = w.at
         /\ [w EXCEPT !.run = v].docs = w.docs
         /\ [w EXCEPT !.run = v].loaded = w.loaded
         /\ [w EXCEPT !.run = v].todo = w.todo
         /\ [w EXCEPT !.run = v].staged = w.staged
         /\ [w EXCEPT !.run = v].pending = w.pending
         /\ [w EXCEPT !.run = v].failed = w.failed
<1>1. [w EXCEPT !.run = v] \in WorkRow
  BY WorkUpdates
<1>2. QED
  BY <1>1 DEF WorkRow

LEMMA WorkPending ==
  ASSUME NEW w \in WorkRow, NEW v \in [Doc -> SUBSET Version]
  PROVE  /\ [w EXCEPT !.pending = v] \in WorkRow /\ [w EXCEPT !.pending = v].pending = v
         /\ [w EXCEPT !.pending = v].name = w.name
         /\ [w EXCEPT !.pending = v].at = w.at
         /\ [w EXCEPT !.pending = v].docs = w.docs
         /\ [w EXCEPT !.pending = v].loaded = w.loaded
         /\ [w EXCEPT !.pending = v].todo = w.todo
         /\ [w EXCEPT !.pending = v].staged = w.staged
         /\ [w EXCEPT !.pending = v].run = w.run
         /\ [w EXCEPT !.pending = v].failed = w.failed
<1>1. [w EXCEPT !.pending = v] \in WorkRow
  BY WorkUpdates
<1>2. QED
  BY <1>1 DEF WorkRow

LEMMA WorkFailed ==
  ASSUME NEW w \in WorkRow, NEW v \in BOOLEAN
  PROVE  /\ [w EXCEPT !.failed = v] \in WorkRow /\ [w EXCEPT !.failed = v].failed = v
         /\ [w EXCEPT !.failed = v].name = w.name
         /\ [w EXCEPT !.failed = v].at = w.at
         /\ [w EXCEPT !.failed = v].docs = w.docs
         /\ [w EXCEPT !.failed = v].loaded = w.loaded
         /\ [w EXCEPT !.failed = v].todo = w.todo
         /\ [w EXCEPT !.failed = v].staged = w.staged
         /\ [w EXCEPT !.failed = v].run = w.run
         /\ [w EXCEPT !.failed = v].pending = w.pending
<1>1. [w EXCEPT !.failed = v] \in WorkRow
  BY WorkUpdates
<1>2. QED
  BY <1>1 DEF WorkRow

LEMMA Blanks ==
  /\ Blank \in Row /\ NoOp \in WorkRow
  /\ NoOp.name = "none" /\ NoOp.at = "idle" /\ NoOp.docs = {} /\ NoOp.todo = {}
  /\ NoOp.staged \in [Doc -> Stamp] /\ NoOp.pending \in [Doc -> SUBSET Version]
  /\ NoOp.run = NoRun /\ NoRun \in Run \cup {NoRun} /\ ~NoOp.failed
  /\ \A r \in Row : Loaded(r) \in Row /\ Loaded(r).status = r.status /\ Loaded(r).text = r.text
<1>1. Blank \in Row
  BY Stamps DEF Blank, Row, DocStatus, Stamp, Lifecycle
<1>2. \A r \in Row : Loaded(r) \in Row /\ Loaded(r).status = r.status /\ Loaded(r).text = r.text
  BY <1>1 DEF Loaded, Row
<1>3. NoOp \in WorkRow
  BY <1>1 DEF NoOp, WorkRow, Place, Stamp
<1>4. QED
  BY <1>1, <1>2, <1>3 DEF NoOp, Stamp

(* What is current of a map of texts to lives, and of what is made of it. *)
LEMMA Lives ==
  ASSUME NEW of \in [Version -> Life]
  PROVE  /\ Retired(of) \in [Version -> Life] /\ Current(Retired(of)) = {}
         /\ \A texts : /\ RetiredOf(of, texts) \in [Version -> Life]
                       /\ Current(RetiredOf(of, texts)) = Current(of) \ texts
         /\ \A t \in Stamp : /\ Chunked(of, t) \in [Version -> Life]
                             /\ t = NoVersion => Chunked(of, t) = of
                             /\ t # NoVersion => Current(Chunked(of, t)) = {t}
<1>1. Retired(of) \in [Version -> Life] /\ Current(Retired(of)) = {}
  BY DEF Retired, Current, Life
<1>2. ASSUME NEW texts
      PROVE  /\ RetiredOf(of, texts) \in [Version -> Life]
             /\ Current(RetiredOf(of, texts)) = Current(of) \ texts
  BY DEF RetiredOf, Current, Life
<1>3. ASSUME NEW t \in Stamp
      PROVE  /\ Chunked(of, t) \in [Version -> Life]
             /\ t = NoVersion => Chunked(of, t) = of
             /\ t # NoVersion => Current(Chunked(of, t)) = {t}
  <2>1. t # NoVersion => t \in Version
    BY DEF Stamp
  <2>2. CASE t = NoVersion \/ Current(of) = {t}
    BY <2>2 DEF Chunked
  <2>3. CASE ~(t = NoVersion \/ Current(of) = {t})
    <3>1. Chunked(of, t) = [Retired(of) EXCEPT ![t] = "active"]
      BY <2>3 DEF Chunked
    <3>2. /\ [Retired(of) EXCEPT ![t] = "active"] \in [Version -> Life]
          /\ Current([Retired(of) EXCEPT ![t] = "active"]) = {t}
      BY <1>1, <2>1, <2>3 DEF Current, Life
    <3>3. QED
      BY <2>3, <3>1, <3>2
  <2>4. QED
    BY <2>2, <2>3
<1>4. QED
  BY <1>1, <1>2, <1>3

-----------------------------------------------------------------------------
(* A step of a: what it leaves of the documents for the other operations,   *)
(* and what its own has made sure of.                                       *)
Keeps(d) ==
  /\ doc'[d].status = doc[d].status /\ doc'[d].text = doc[d].text
  /\ InStep(d) => InStep(d)'
  /\ Sound(d) => Sound(d)'
  /\ Calm' => (Cut(d) => Cut(d)') /\ (Whole(d) => Whole(d)')

Carried(a) ==
  /\ DocumentsTyped' /\ OwnOf(work[a])'
  /\ excused \subseteq excused' /\ (Calm' => Calm)
  /\ \A b \in Actor \ {a} : work'[b] = work[b]
  /\ \A d \in Doc : StagedOf(d)'
  /\ \A d \in Doc \ excused' :
       /\ Keeps(d) /\ ManifestOf(d)' /\ IndexOf(d)'
       /\ \A b \in Actor \ {a} : BuildOf(work[b], d)'

LEMMA Assembled ==
  ASSUME DocumentsInv, NEW a \in Actor, Carried(a)
  PROVE  DocumentsInv'
<1>2. ASSUME NEW b \in Actor \ {a} PROVE OwnOf(work[b])'
  <2>1. work'[b] = work[b] /\ OwnOf(work[b])
    BY DEF Carried, DocumentsInv
  <2>2. ShapeOf(work[b])'
    BY <2>1 DEF Carried, OwnOf, ShapeOf
  <2>3. ASSUME NEW d \in Doc \ excused'
        PROVE  (FreshOf(work[b], d) /\ BuildOf(work[b], d) /\ ReindexOf(work[b], d) /\ SavedOf(work[b], d))'
    <3>1. /\ FreshOf(work[b], d) /\ ReindexOf(work[b], d) /\ SavedOf(work[b], d)
          /\ Keeps(d) /\ BuildOf(work[b], d)'
      BY <2>1 DEF Carried, OwnOf
    <3>2. Calm' => Calm
      BY DEF Carried
    <3>3. FreshOf(work[b], d)'
      BY <2>1, <3>1 DEF FreshOf, Keeps
    <3>4. ReindexOf(work[b], d)'
      <4>1. Calm' /\ Cut(d) /\ doc[d].text \in Current(emb[d]) => doc'[d].text \in Current(emb[d])'
        BY <3>1 DEF Keeps, Whole
      <4>2. doc'[d].text = doc[d].text
        BY <3>1 DEF Keeps
      <4>3. QED
        BY <2>1, <3>1, <3>2, <4>1, <4>2 DEF ReindexOf, Keeps
    <3>5. SavedOf(work[b], d)'
      BY <2>1, <3>1, <3>2 DEF SavedOf, Keeps, Indexed
    <3>6. QED
      BY <3>1, <3>3, <3>4, <3>5
  <2>4. QED
    BY <2>2, <2>3 DEF OwnOf
<1>3. \A b \in Actor : OwnOf(work[b])'
  BY <1>2 DEF Carried
<1>4. QED
  BY <1>3 DEF DocumentsInv, Carried

(* A step that changes neither the texts nor the index of any document. *)
LEMMA DataSame ==
  ASSUME DocumentsInv, NEW a \in Actor, DocumentsTyped', OwnOf(work[a])',
         UNCHANGED <<manifest, chunk, emb, excused>>, Calm' => Calm,
         \A b \in Actor \ {a} : work'[b] = work[b],
         \A d \in Doc : /\ doc'[d].status = doc[d].status /\ doc'[d].text = doc[d].text
                        /\ d \notin excused =>
                             /\ UnsyncedBy(work[a], d) => UnsyncedBy(work[a], d)'
                             /\ \/ doc'[d].lifecycle # "indexed" \/ doc[d].lifecycle = "indexed"
                                \/ Indexed(d)
  PROVE  DocumentsInv'
<1>1. ASSUME NEW d \in Doc
      PROVE  /\ InStep(d)' <=> InStep(d)
             /\ Sound(d)' <=> Sound(d)
             /\ Cut(d)' <=> Cut(d)
             /\ Whole(d)' <=> Whole(d)
             /\ Indexed(d) => Indexed(d)'
  BY DEF InStep, Sound, Cut, Whole, Indexed
<1>2. ASSUME NEW d \in Doc \ excused' PROVE ManifestOf(d)'
  <2>1. Unsynced(d) => Unsynced(d)'
    BY DEF Unsynced, UnsyncedBy
  <2>2. QED
    BY <1>1, <2>1 DEF DocumentsInv, ManifestOf
<1>3. ASSUME NEW d \in Doc \ excused' PROVE IndexOf(d)'
  BY <1>1 DEF DocumentsInv, IndexOf
<1>4. ASSUME NEW d \in Doc \ excused', NEW b \in Actor \ {a} PROVE BuildOf(work[b], d)'
  BY DEF DocumentsInv, OwnOf, BuildOf
<1>5. \A d \in Doc \ excused' : Keeps(d)
  BY <1>1 DEF Keeps
<1>6. \A d \in Doc : StagedOf(d)'
  BY DEF DocumentsInv, StagedOf
<1>7. Carried(a)
  BY <1>2, <1>3, <1>4, <1>5, <1>6 DEF Carried
<1>8. QED
  BY <1>7, Assembled

(* An operation begins with the rows as they are. *)
LEMMA Begun ==
  ASSUME DocumentsTyped, NEW a \in Actor, NEW name, NEW at, NEW docs \in SUBSET Doc, NEW found,
         name \in {"none", "upsert", "reindex", "pipeline", "index"}, at \in Place,
         \A d \in docs : found[d] \in Row,
         Begin(a, name, at, docs, found)
  PROVE  /\ work[a].at = "idle"
         /\ work' \in [Actor -> WorkRow] /\ \A b \in Actor \ {a} : work'[b] = work[b]
         /\ work'[a].name = name /\ work'[a].at = at /\ work'[a].docs = docs
         /\ work'[a].todo = docs /\ ~work'[a].failed
         /\ \A d \in docs : /\ work'[a].loaded[d].status = found[d].status
                            /\ work'[a].loaded[d].text = found[d].text
<1> DEFINE l == [d \in Doc |-> IF d \in docs THEN Loaded(found[d]) ELSE Blank]
           i == IF name = "reindex" THEN runId ELSE NoRun
           w == [NoOp EXCEPT !.name = name, !.at = at, !.docs = docs, !.todo = docs, !.run = i,
                             !.loaded = l]
<1>1. work' = [work EXCEPT ![a] = w] /\ work[a].at = "idle"
  BY DEF Begin
<1>2. l \in [Doc -> Row] /\ \A d \in docs : l[d].status = found[d].status /\ l[d].text = found[d].text
  BY Blanks
<1>i. i \in Run \cup {NoRun}
  BY DEF DocumentsTyped
<1> HIDE DEF l, i
<1>3. /\ w.name = name /\ w.at = at /\ w.docs = docs /\ w.todo = docs /\ w.loaded = l
      /\ w.staged = NoOp.staged /\ w.pending = NoOp.pending /\ w.failed = NoOp.failed
  BY DEF NoOp
<1> DEFINE w1 == [NoOp EXCEPT !.name = name]
           w2 == [w1 EXCEPT !.at = at]
           w3 == [w2 EXCEPT !.docs = docs]
           w4 == [w3 EXCEPT !.todo = docs]
           w5 == [w4 EXCEPT !.run = i]
<1>4. w = [w5 EXCEPT !.loaded = l]
  OBVIOUS
<1>5. w \in WorkRow
  <2>1. w1 \in WorkRow
    BY Blanks, WorkUpdates
  <2> HIDE DEF w1
  <2>2. w2 \in WorkRow
    BY <2>1, WorkUpdates
  <2> HIDE DEF w2
  <2>3. w3 \in WorkRow
    BY <2>2, WorkUpdates
  <2> HIDE DEF w3
  <2>4. w4 \in WorkRow
    BY <2>3, WorkUpdates
  <2> HIDE DEF w4
  <2>5. w5 \in WorkRow
    BY <1>i, <2>4, WorkUpdates
  <2> HIDE DEF w5, w
  <2>6. QED
    BY <1>2, <1>4, <2>5, WorkUpdates
<1> HIDE DEF w
<1>6. work \in [Actor -> WorkRow]
  BY DEF DocumentsTyped
<1>7. work' \in [Actor -> WorkRow] /\ work'[a] = w /\ \A b \in Actor \ {a} : work'[b] = work[b]
  BY <1>1, <1>5, <1>6
<1>8. QED
  BY <1>1, <1>2, <1>3, <1>7, Blanks

LEMMA PlacesAre ==
  /\ PlacesOf["none"] = {"idle"} /\ PlacesOf["upsert"] = {"sync", "judge", "save"}
  /\ PlacesOf["reindex"] = {"mark", "sync", "stage", "chunk", "decide", "embed", "verify", "hide"}
  /\ PlacesOf["pipeline"] = {"sync", "stage", "chunk"} /\ PlacesOf["index"] = {"decide", "embed"}
BY DEF PlacesOf

(* An operation that has just begun has made sure of nothing yet. *)
LEMMA Beginning ==
  ASSUME NEW a \in Actor,
         \/ work'[a].at \in {"mark", "sync"}
         \/ work'[a].name = "pipeline" /\ work'[a].at = "stage"
         \/ work'[a].name = "index" /\ work'[a].at = "decide",
         ShapeOf(work[a])', \A d \in Doc \ excused' : FreshOf(work[a], d)'
  PROVE  OwnOf(work[a])'
BY DEF OwnOf, BuildOf, ReindexOf, SavedOf

LEMMA BeginReindexStep ==
  ASSUME DocumentsInv, NEW a \in Actor, NEW d \in Doc, BeginReindex(a, d)
  PROVE  DocumentsInv'
<1>1. /\ doc[d].status = "active" /\ Begin(a, "reindex", "mark", {d}, doc)
      /\ UNCHANGED <<doc, manifest, chunk, emb, changes, mishaps, excused, raced, clashed, runId, runs>>
      /\ Calm' <=> Calm
  BY DEF BeginReindex, ids, Calm
<1>2. DocumentsTyped /\ \A e \in {d} : doc[e] \in Row
  BY DEF DocumentsInv, DocumentsTyped
<1>3. /\ work[a].at = "idle"
      /\ work' \in [Actor -> WorkRow] /\ \A b \in Actor \ {a} : work'[b] = work[b]
      /\ work'[a].name = "reindex" /\ work'[a].at = "mark" /\ work'[a].docs = {d}
      /\ work'[a].todo = {d} /\ ~work'[a].failed
      /\ \A e \in {d} : /\ work'[a].loaded[e].status = doc[e].status
                        /\ work'[a].loaded[e].text = doc[e].text
  BY <1>1, <1>2, Begun DEF Place
<1>4. DocumentsTyped'
  BY <1>1, <1>2, <1>3 DEF DocumentsTyped
<1>5. ShapeOf(work[a])'
  BY <1>1, <1>3, PlacesAre DEF ShapeOf
<1>6. \A e \in Doc \ excused' : FreshOf(work[a], e)'
  BY <1>1, <1>3 DEF FreshOf
<1>7. OwnOf(work[a])'
  BY <1>3, <1>5, <1>6, Beginning
<1>8. \A e \in Doc : UnsyncedBy(work[a], e) => UnsyncedBy(work[a], e)'
  BY <1>3 DEF UnsyncedBy
<1>9. QED
  BY <1>1, <1>3, <1>4, <1>7, <1>8, DataSame

LEMMA StartPipelineStep ==
  ASSUME DocumentsInv, NEW a \in Actor, StartPipeline(a)
  PROVE  DocumentsInv'
<1>1. UNCHANGED <<doc, manifest, chunk, emb, changes, mishaps, excused, raced, clashed, runId, runs>> /\ (Calm' <=> Calm)
  BY DEF StartPipeline, ids, Calm
<1>2. DocumentsTyped /\ \A e \in Doc : doc[e] \in Row
  BY DEF DocumentsInv, DocumentsTyped
<1>3. ASSUME NEW at \in {"sync", "stage"}, NEW docs \in {Doc, {}},
             Begin(a, "pipeline", at, docs, doc)
      PROVE  DocumentsInv'
  <2>1. docs \in SUBSET Doc /\ at \in Place /\ \A d \in docs : doc[d] \in Row
    BY <1>2 DEF Place
  <2>2. /\ work[a].at = "idle"
        /\ work' \in [Actor -> WorkRow] /\ \A b \in Actor \ {a} : work'[b] = work[b]
        /\ work'[a].name = "pipeline" /\ work'[a].at = at /\ work'[a].docs = docs
        /\ work'[a].todo = docs /\ ~work'[a].failed
        /\ \A e \in docs : /\ work'[a].loaded[e].status = doc[e].status
                           /\ work'[a].loaded[e].text = doc[e].text
    <3>1. Begin(a, "pipeline", at, docs, doc)
      BY <1>3
    <3>2. QED
      BY <1>2, <2>1, <3>1, Begun
  <2>3. DocumentsTyped'
    BY <1>1, <1>2, <2>2 DEF DocumentsTyped
  <2>4. ShapeOf(work[a])'
    BY <2>2, PlacesAre DEF ShapeOf
  <2>5. \A e \in Doc \ excused' : FreshOf(work[a], e)'
    BY <1>1, <2>2 DEF FreshOf
  <2>6. OwnOf(work[a])'
    BY <2>2, <2>4, <2>5, Beginning
  <2>7. \A e \in Doc : UnsyncedBy(work[a], e) => UnsyncedBy(work[a], e)'
    BY <2>2 DEF UnsyncedBy
  <2>8. QED
    BY <1>1, <2>2, <2>3, <2>6, <2>7, DataSame
<1>4. QED
  BY <1>3 DEF StartPipeline

LEMMA StartIndexStep ==
  ASSUME DocumentsInv, NEW a \in Actor, StartIndex(a)
  PROVE  DocumentsInv'
<1> DEFINE n == runId + 1
           w == [NoOp EXCEPT !.name = "index", !.at = "decide", !.run = n]
<1>1. /\ work' = [work EXCEPT ![a] = w] /\ work[a].at = "idle"
      /\ runId < MaxRuns /\ runId' = n
      /\ UNCHANGED <<doc, manifest, chunk, emb, changes, mishaps, excused, raced, clashed, runs>>
      /\ Calm' <=> Calm
  BY DEF StartIndex, Calm
<1>2. DocumentsTyped /\ work \in [Actor -> WorkRow]
  BY DEF DocumentsInv, DocumentsTyped
<1>3. n \in Run \cup {NoRun}
  BY <1>1, <1>2 DEF DocumentsTyped, Run, NoRun
<1> HIDE DEF n
<1>4. /\ w \in WorkRow /\ w.name = "index" /\ w.at = "decide" /\ w.docs = {} /\ w.todo = {} /\ ~w.failed
  <2> DEFINE w1 == [NoOp EXCEPT !.name = "index"]
             w2 == [w1 EXCEPT !.at = "decide"]
  <2>1. w = [w2 EXCEPT !.run = n] /\ w1 \in WorkRow
    BY Blanks, WorkUpdates
  <2>2. w \in WorkRow
    <3> HIDE DEF w1
    <3>1. w2 \in WorkRow
      BY <2>1, WorkUpdates DEF Place
    <3> HIDE DEF w2, w
    <3>2. QED
      BY <1>3, <2>1, <3>1, WorkUpdates
  <2>3. QED
    BY <2>2, Blanks DEF NoOp
<1> HIDE DEF w
<1>5. work' \in [Actor -> WorkRow] /\ work'[a] = w /\ \A b \in Actor \ {a} : work'[b] = work[b]
  BY <1>1, <1>2, <1>4
<1>6. DocumentsTyped'
  BY <1>1, <1>2, <1>3, <1>5 DEF DocumentsTyped
<1>7. ShapeOf(work[a])'
  BY <1>4, <1>5, PlacesAre DEF ShapeOf
<1>8. \A e \in Doc \ excused' : FreshOf(work[a], e)'
  BY <1>4, <1>5 DEF FreshOf
<1>9. OwnOf(work[a])'
  BY <1>4, <1>5, <1>7, <1>8, Beginning
<1>10. \A e \in Doc : UnsyncedBy(work[a], e) => UnsyncedBy(work[a], e)'
  BY <1>1 DEF UnsyncedBy
<1>11. QED
  BY <1>1, <1>5, <1>6, <1>9, <1>10, DataSame

LEMMA RowUpdates ==
  ASSUME NEW r \in Row
  PROVE  /\ \A v \in DocStatus : [r EXCEPT !.status = v] \in Row
         /\ \A v \in Version : [r EXCEPT !.text = v] \in Row
         /\ \A v \in Stamp : [r EXCEPT !.content = v] \in Row
         /\ \A v \in Stamp : [r EXCEPT !.indexed = v] \in Row
         /\ \A v \in Lifecycle : [r EXCEPT !.lifecycle = v] \in Row
BY DEF Row

(* The verdict of an upsert: indexed only for what is indexed. *)
LEMMA Verdict ==
  ASSUME NEW d \in Doc, NEW r \in Row
  PROVE  /\ Judged(d, r) \in Row /\ Judged(d, r).status = r.status /\ Judged(d, r).text = r.text
         /\ Judged(d, r).lifecycle # "failed"
         /\ Judged(d, r).lifecycle = "indexed" => r.lifecycle = "indexed"
<1> DEFINE fresh == [r EXCEPT !.content = r.text]
           l == IF r.indexed = r.text /\ UsableRow(d, fresh) THEN "indexed" ELSE "stale"
<1>1. r.text \in Version /\ r.text \in Stamp /\ r.text # NoVersion
  BY RowFields, Stamps DEF Stamp
<1>2. CASE r.status # "active"
  <2>1. Judged(d, r) = [r EXCEPT !.lifecycle = "disabled"]
    BY <1>2 DEF Judged
  <2>2. "disabled" \in Lifecycle
    BY DEF Lifecycle
  <2>3. QED
    BY <2>1, <2>2, RowUpdates DEF Row
<1>3. CASE r.status = "active"
  <2>1. Judged(d, r) = [fresh EXCEPT !.lifecycle = l]
    BY <1>3 DEF Judged
  <2>2. /\ fresh \in Row /\ fresh.status = r.status /\ fresh.text = r.text
        /\ fresh.content = r.text /\ fresh.lifecycle = r.lifecycle
    BY <1>1, RowUpdates DEF Row
  <2> HIDE DEF fresh
  <2>3. l \in Lifecycle /\ l # "failed"
    BY DEF Lifecycle
  <2>4. l = "indexed" => r.lifecycle = "indexed"
    BY <1>1, <2>2 DEF UsableRow
  <2> HIDE DEF l
  <2>5. /\ [fresh EXCEPT !.lifecycle = l] \in Row /\ [fresh EXCEPT !.lifecycle = l].status = r.status
        /\ [fresh EXCEPT !.lifecycle = l].text = r.text /\ [fresh EXCEPT !.lifecycle = l].lifecycle = l
    BY <2>2, <2>3, RowUpdates DEF Row
  <2>6. QED
    BY <2>1, <2>3, <2>4, <2>5
<1>4. QED
  BY <1>2, <1>3

LEMMA Went ==
  ASSUME DocumentsTyped, NEW a \in Actor, NEW at \in Place, Goes(a, at)
  PROVE  /\ work' \in [Actor -> WorkRow] /\ \A b \in Actor \ {a} : work'[b] = work[b]
         /\ at = "idle" => work'[a] = NoOp
         /\ at # "idle" => /\ work'[a].at = at
                           /\ work'[a].name = work[a].name /\ work'[a].docs = work[a].docs
                           /\ work'[a].loaded = work[a].loaded /\ work'[a].todo = work[a].todo
                           /\ work'[a].staged = work[a].staged
                           /\ work'[a].pending = work[a].pending
                           /\ work'[a].failed = work[a].failed
<1> DEFINE w == work[a]
           u == [w EXCEPT !.at = at]
<1>1. work \in [Actor -> WorkRow] /\ w \in WorkRow
  BY DEF DocumentsTyped
<1>2. work' = [work EXCEPT ![a] = IF at = "idle" THEN NoOp ELSE u]
  BY DEF Goes
<1>3. /\ u \in WorkRow /\ u.at = at
      /\ u.name = w.name /\ u.docs = w.docs /\ u.loaded = w.loaded /\ u.todo = w.todo
      /\ u.staged = w.staged /\ u.pending = w.pending /\ u.failed = w.failed
  BY <1>1, WorkAt
<1> HIDE DEF u
<1>4. QED
  BY <1>1, <1>2, <1>3, Blanks

LEMMA Idle ==
  ASSUME NEW a \in Actor, work'[a] = NoOp
  PROVE  OwnOf(work[a])'
<1>1. ShapeOf(work[a])'
  BY Blanks, PlacesAre DEF ShapeOf
<1>2. QED
  BY <1>1, Blanks DEF OwnOf, FreshOf, BuildOf, ReindexOf, SavedOf

LEMMA JudgeStep ==
  ASSUME DocumentsInv, NEW a \in Actor, Judge(a)
  PROVE  DocumentsInv'
<1> DEFINE w == work[a]
<1>1. /\ w.at = "judge"
      /\ UNCHANGED <<doc, manifest, chunk, emb, changes, mishaps, excused, raced, clashed, runId, runs>>
      /\ Calm' <=> Calm
  BY DEF Judge, ids, Calm
<1>2. DocumentsTyped /\ work \in [Actor -> WorkRow] /\ w \in WorkRow /\ OwnOf(w)
  BY DEF DocumentsInv, DocumentsTyped
<1>3. w.name = "upsert"
  BY <1>1, <1>2, WorkFields, PlacesAre DEF OwnOf, ShapeOf
<1>4. PICK d \in Doc : w.docs = {d}
  BY <1>2, <1>3 DEF OwnOf, ShapeOf
<1> DEFINE j == Judged(d, doc[d])
           l == [w.loaded EXCEPT ![d] = j]
           w1 == [w EXCEPT !.at = "save"]
           u == [w1 EXCEPT !.loaded = l]
<1>5. doc[d] \in Row
  BY <1>2 DEF DocumentsTyped
<1>6. /\ j \in Row /\ j.status = doc[d].status /\ j.text = doc[d].text
      /\ j.lifecycle # "failed" /\ (j.lifecycle = "indexed" => doc[d].lifecycle = "indexed")
  BY <1>5, Verdict
<1>7. work' = [work EXCEPT ![a] = u]
  <2>1. Its(a) = d
    BY <1>4, ItsDocument
  <2>2. QED
    BY <1>2, <2>1 DEF Judge
<1> HIDE DEF j
<1>8. l \in [Doc -> Row] /\ l[d] = j
  BY <1>2, <1>6, WorkFields
<1> HIDE DEF l
<1>9. /\ u \in WorkRow /\ u.name = "upsert" /\ u.at = "save" /\ u.docs = {d} /\ u.loaded = l
      /\ u.todo = w.todo /\ u.failed = w.failed
  <2>1. /\ w1 \in WorkRow /\ w1.name = "upsert" /\ w1.at = "save" /\ w1.docs = {d}
        /\ w1.todo = w.todo /\ w1.failed = w.failed
    <3>1. w \in WorkRow /\ w.name = "upsert" /\ w.docs = {d} /\ "save" \in Place
      BY <1>2, <1>3, <1>4 DEF Place
    <3> HIDE DEF w
    <3>2. QED
      BY <3>1, WorkAt
  <2> HIDE DEF w1
  <2>2. /\ u \in WorkRow /\ u.loaded = l
        /\ u.name = w1.name /\ u.at = w1.at /\ u.docs = w1.docs
        /\ u.todo = w1.todo /\ u.failed = w1.failed
    <3>1. w1 \in WorkRow /\ l \in [Doc -> Row]
      BY <1>8, <2>1
    <3>2. QED
      BY <3>1, WorkLoaded
  <2>3. QED
    BY <2>1, <2>2
<1> HIDE DEF u
<1>10. work' \in [Actor -> WorkRow] /\ work'[a] = u /\ \A b \in Actor \ {a} : work'[b] = work[b]
  BY <1>2, <1>7, <1>9
<1>11. DocumentsTyped'
  BY <1>1, <1>2, <1>10 DEF DocumentsTyped
<1>12. ShapeOf(work[a])'
  BY <1>1, <1>2, <1>3, <1>4, <1>6, <1>8, <1>9, <1>10, PlacesAre DEF OwnOf, ShapeOf
<1>13. d \notin excused /\ doc[d].lifecycle = "indexed" => Indexed(d)
  BY DEF DocumentsInv, IndexOf
<1>14. Indexed(d)' <=> Indexed(d)
  BY <1>1 DEF Indexed, Sound, Whole, Cut, InStep
<1>15. ASSUME NEW e \in Doc \ excused'
       PROVE  (FreshOf(work[a], e) /\ BuildOf(work[a], e) /\ ReindexOf(work[a], e) /\ SavedOf(work[a], e))'
  <2>1. FreshOf(work[a], e)'
    BY <1>1, <1>6, <1>8, <1>9, <1>10 DEF FreshOf
  <2>2. BuildOf(work[a], e)' /\ ReindexOf(work[a], e)'
    BY <1>9, <1>10 DEF BuildOf, ReindexOf
  <2>3. SavedOf(work[a], e)'
    BY <1>1, <1>6, <1>8, <1>9, <1>10, <1>13, <1>14 DEF SavedOf
  <2>4. QED
    BY <2>1, <2>2, <2>3
<1>16. OwnOf(work[a])'
  BY <1>12, <1>15 DEF OwnOf
<1>17. \A e \in Doc : UnsyncedBy(work[a], e) => UnsyncedBy(work[a], e)'
  BY <1>1 DEF UnsyncedBy
<1>18. QED
  BY <1>1, <1>10, <1>11, <1>16, <1>17, DataSame

LEMMA LoadStagedStep ==
  ASSUME DocumentsInv, NEW a \in Actor, LoadStaged(a)
  PROVE  DocumentsInv'
<1> DEFINE w == work[a]
           s == [d \in Doc |-> IF manifest[d].active THEN manifest[d].sha ELSE NoVersion]
           w1 == [w EXCEPT !.at = "chunk"]
           u == [w1 EXCEPT !.staged = s]
<1>1. /\ w.at = "stage"
      /\ UNCHANGED <<doc, manifest, chunk, emb, changes, mishaps, excused, raced, clashed, runId, runs>>
      /\ Calm' <=> Calm
  BY DEF LoadStaged, ids, Calm
<1>2. DocumentsTyped /\ work \in [Actor -> WorkRow] /\ w \in WorkRow /\ OwnOf(w)
  BY DEF DocumentsInv, DocumentsTyped
<1>3. work' = [work EXCEPT ![a] = u]
  BY <1>2 DEF LoadStaged
<1>4. s \in [Doc -> Stamp]
  <2>1. \A d \in Doc : manifest[d].sha \in Stamp
    BY <1>2 DEF DocumentsTyped, Manifest
  <2>2. QED
    BY <2>1 DEF Stamp
<1>5. \A d \in Doc : s[d] = IF manifest[d].active THEN manifest[d].sha ELSE NoVersion
  OBVIOUS
<1> HIDE DEF s
<1>6. /\ u \in WorkRow /\ u.at = "chunk" /\ u.staged = s
      /\ u.name = w.name /\ u.docs = w.docs /\ u.loaded = w.loaded /\ u.todo = w.todo
      /\ u.failed = w.failed
  <2>1. /\ w1 \in WorkRow /\ w1.at = "chunk"
        /\ w1.name = w.name /\ w1.docs = w.docs /\ w1.loaded = w.loaded /\ w1.todo = w.todo
        /\ w1.failed = w.failed
    BY <1>2, WorkAt DEF Place
  <2> HIDE DEF w1
  <2>2. QED
    BY <1>4, <2>1, WorkStaged
<1> HIDE DEF u
<1>7. work' \in [Actor -> WorkRow] /\ work'[a] = u /\ \A b \in Actor \ {a} : work'[b] = work[b]
  BY <1>2, <1>3, <1>6
<1>8. DocumentsTyped'
  BY <1>1, <1>2, <1>7 DEF DocumentsTyped
<1>9. ShapeOf(work[a])'
  BY <1>1, <1>2, <1>6, <1>7, WorkFields, PlacesAre DEF OwnOf, ShapeOf
<1>10. ASSUME NEW d \in Doc \ excused'
       PROVE  (FreshOf(work[a], d) /\ BuildOf(work[a], d) /\ ReindexOf(work[a], d) /\ SavedOf(work[a], d))'
  <2>1. FreshOf(work[a], d)'
    BY <1>1, <1>2, <1>6, <1>7 DEF OwnOf, FreshOf
  <2>2. BuildOf(work[a], d)'
    BY <1>1, <1>5, <1>6, <1>7 DEF BuildOf
  <2>3. ReindexOf(work[a], d)'
    <3>1. w.name = "reindex" /\ d \in w.docs => InStep(d)
      BY <1>1, <1>2 DEF OwnOf, ReindexOf
    <3>2. InStep(d)' <=> InStep(d)
      BY <1>1 DEF InStep
    <3>3. InStep(d) => s[d] = doc[d].text
      BY <1>5 DEF InStep
    <3>4. QED
      BY <1>1, <1>6, <1>7, <3>1, <3>2, <3>3 DEF ReindexOf
  <2>4. SavedOf(work[a], d)'
    BY <1>6, <1>7 DEF SavedOf
  <2>5. QED
    BY <2>1, <2>2, <2>3, <2>4
<1>11. OwnOf(work[a])'
  BY <1>9, <1>10 DEF OwnOf
<1>12. \A d \in Doc : UnsyncedBy(work[a], d) => UnsyncedBy(work[a], d)'
  BY <1>1 DEF UnsyncedBy
<1>13. QED
  BY <1>1, <1>7, <1>8, <1>11, <1>12, DataSame

(* The row of the operation's one document is saved, text and status as     *)
(* they were.                                                               *)
LEMMA RowSaved ==
  ASSUME DocumentsInv, NEW a \in Actor, NEW d \in Doc, NEW row \in Row,
         work[a].at # "sync",
         row.status = doc[d].status, row.text = doc[d].text,
         d \notin excused /\ row.lifecycle = "indexed" => Indexed(d),
         doc' = [doc EXCEPT ![d] = row],
         work' \in [Actor -> WorkRow], \A b \in Actor \ {a} : work'[b] = work[b],
         OwnOf(work[a])',
         mishaps' \in 0..MaxMishaps, Calm' => Calm,
         UNCHANGED <<manifest, chunk, emb, changes, excused, raced, clashed, runId, runs>>
  PROVE  DocumentsInv'
<1>1. DocumentsTyped /\ doc \in [Doc -> Row]
  BY DEF DocumentsInv, DocumentsTyped
<1>2. DocumentsTyped'
  BY <1>1 DEF DocumentsTyped
<1>3. \A e \in Doc : /\ doc'[e].status = doc[e].status /\ doc'[e].text = doc[e].text
                     /\ e # d => doc'[e].lifecycle = doc[e].lifecycle
                     /\ e = d => doc'[e].lifecycle = row.lifecycle
  BY <1>1
<1>4. \A e \in Doc : UnsyncedBy(work[a], e) => UnsyncedBy(work[a], e)'
  BY DEF UnsyncedBy
<1>5. QED
  BY <1>2, <1>3, <1>4, DataSame

LEMMA SaveJudgedStep ==
  ASSUME DocumentsInv, NEW a \in Actor, SaveJudged(a)
  PROVE  DocumentsInv'
<1> DEFINE w == work[a]
<1>1. /\ w.at = "save" /\ Goes(a, "idle")
      /\ UNCHANGED <<manifest, chunk, emb, changes, mishaps, excused, raced, clashed, runId, runs>>
      /\ Calm' <=> Calm
  BY DEF SaveJudged, ids, Calm
<1>2. DocumentsTyped /\ w \in WorkRow /\ OwnOf(w)
  BY DEF DocumentsInv, DocumentsTyped
<1>3. w.name = "upsert"
  BY <1>1, <1>2, WorkFields, PlacesAre DEF OwnOf, ShapeOf
<1>4. PICK d \in Doc : w.docs = {d}
  BY <1>2, <1>3 DEF OwnOf, ShapeOf
<1> DEFINE j == w.loaded[d]
           c == IF j.status = "active" THEN j.content ELSE doc[d].content
           r1 == [doc[d] EXCEPT !.lifecycle = j.lifecycle]
           row == [r1 EXCEPT !.content = c]
<1>5. doc' = [doc EXCEPT ![d] = row]
  <2>1. Its(a) = d
    BY <1>4, ItsDocument
  <2>2. doc \in [Doc -> Row]
    BY <1>2 DEF DocumentsTyped
  <2>3. QED
    BY <2>1, <2>2 DEF SaveJudged, Row
<1>6. doc[d] \in Row /\ j \in Row
  BY <1>2, WorkFields DEF DocumentsTyped
<1>7. c \in Stamp /\ j.lifecycle \in Lifecycle
  BY <1>6, RowFields
<1> HIDE DEF c
<1>8. row \in Row /\ row.status = doc[d].status /\ row.text = doc[d].text /\ row.lifecycle = j.lifecycle
  <2>1. r1 \in Row /\ r1.status = doc[d].status /\ r1.text = doc[d].text /\ r1.lifecycle = j.lifecycle
    BY <1>6, <1>7, RowUpdates DEF Row
  <2> HIDE DEF r1
  <2>2. QED
    BY <1>7, <2>1, RowUpdates DEF Row
<1>9. d \notin excused /\ j.lifecycle = "indexed" => Indexed(d)
  BY <1>1, <1>2, <1>4 DEF OwnOf, SavedOf
<1>10. work' \in [Actor -> WorkRow] /\ work'[a] = NoOp /\ \A b \in Actor \ {a} : work'[b] = work[b]
  BY <1>1, <1>2, Went DEF Place
<1>11. OwnOf(work[a])'
  BY <1>10, Idle
<1> HIDE DEF row, j
<1>m. mishaps' \in 0..MaxMishaps
  BY <1>1 DEF DocumentsInv, DocumentsTyped
<1>12. QED
  BY <1>m, <1>1, <1>5, <1>8, <1>9, <1>10, <1>11, RowSaved

(* What a reindex is about. *)
LEMMA ReindexDocument ==
  ASSUME DocumentsInv, NEW a \in Actor, work[a].at \in {"mark", "verify", "hide"}
  PROVE  /\ work[a].name = "reindex" /\ work[a] \in WorkRow /\ OwnOf(work[a])
         /\ \E d \in Doc : work[a].docs = {d} /\ Its(a) = d /\ doc[d] \in Row
<1>1. DocumentsTyped /\ work[a] \in WorkRow /\ OwnOf(work[a])
  BY DEF DocumentsInv, DocumentsTyped
<1>2. work[a].name = "reindex"
  BY <1>1, WorkFields, PlacesAre DEF OwnOf, ShapeOf
<1>3. PICK d \in Doc : work[a].docs = {d}
  BY <1>1, <1>2 DEF OwnOf, ShapeOf
<1>4. Its(a) = d /\ doc[d] \in Row
  BY <1>1, <1>3, ItsDocument DEF DocumentsTyped
<1>5. QED
  BY <1>1, <1>2, <1>3, <1>4

LEMMA MarkIndexingStep ==
  ASSUME DocumentsInv, NEW a \in Actor, MarkIndexing(a)
  PROVE  DocumentsInv'
<1> DEFINE w == work[a]
<1>1. /\ w.at = "mark" /\ Goes(a, "sync")
      /\ UNCHANGED <<manifest, chunk, emb, changes, mishaps, excused, raced, clashed, runId, runs>>
      /\ Calm' <=> Calm
  BY DEF MarkIndexing, ids, Calm
<1>2. PICK d \in Doc : w.docs = {d} /\ Its(a) = d /\ doc[d] \in Row
  BY <1>1, ReindexDocument
<1>3. DocumentsTyped /\ w.name = "reindex" /\ OwnOf(w)
  BY <1>1, ReindexDocument DEF DocumentsInv
<1> DEFINE row == [doc[d] EXCEPT !.lifecycle = "indexing"]
<1>4. doc' = [doc EXCEPT ![d] = row]
  BY <1>2 DEF MarkIndexing
<1>5. row \in Row /\ row.status = doc[d].status /\ row.text = doc[d].text /\ row.lifecycle = "indexing"
  <2>1. "indexing" \in Lifecycle
    BY DEF Lifecycle
  <2>2. QED
    BY <1>2, <2>1, RowUpdates DEF Row
<1> HIDE DEF row
<1>6. /\ work' \in [Actor -> WorkRow] /\ \A b \in Actor \ {a} : work'[b] = work[b]
      /\ work'[a].at = "sync" /\ work'[a].name = "reindex" /\ work'[a].docs = {d}
      /\ work'[a].loaded = w.loaded /\ work'[a].todo = w.todo /\ work'[a].failed = w.failed
  BY <1>1, <1>2, <1>3, Went DEF Place
<1>7. \A e \in Doc : doc'[e].status = doc[e].status /\ doc'[e].text = doc[e].text
  BY <1>3, <1>4, <1>5 DEF DocumentsTyped
<1>8. ShapeOf(work[a])'
  BY <1>1, <1>2, <1>3, <1>6, PlacesAre DEF OwnOf, ShapeOf
<1>9. \A e \in Doc \ excused' : FreshOf(work[a], e)'
  BY <1>1, <1>2, <1>3, <1>6, <1>7 DEF OwnOf, FreshOf
<1>10. OwnOf(work[a])'
  BY <1>6, <1>8, <1>9, Beginning
<1>m. mishaps' \in 0..MaxMishaps
  BY <1>1 DEF DocumentsInv, DocumentsTyped
<1>11. QED
  BY <1>m, <1>1, <1>4, <1>5, <1>6, <1>10, RowSaved

(* The row a reindex saves when it succeeds. *)
LEMMA FinishedRow ==
  ASSUME DocumentsInv, NEW a \in Actor, work[a].at = "verify", Succeeds(a)
  PROVE  \E d \in Doc : \E row \in Row :
           /\ work[a].docs = {d} /\ Its(a) = d /\ row = IndexedRow(doc[d], work[a].loaded[d])
           /\ row.status = doc[d].status /\ row.text = doc[d].text /\ row.lifecycle = "indexed"
           /\ d \notin excused => Indexed(d)
<1> DEFINE w == work[a]
<1>1. PICK d \in Doc : w.docs = {d} /\ Its(a) = d /\ doc[d] \in Row
  BY ReindexDocument
<1>2. w.name = "reindex" /\ w \in WorkRow /\ OwnOf(w)
  BY ReindexDocument
<1> DEFINE t == w.loaded[d].text
           row == IndexedRow(doc[d], w.loaded[d])
           r1 == [doc[d] EXCEPT !.content = t]
           r2 == [r1 EXCEPT !.indexed = t]
<1>3. t \in Stamp
  BY <1>2, WorkFields, RowFields DEF Stamp
<1>4. row = [r2 EXCEPT !.lifecycle = "indexed"]
  BY DEF IndexedRow
<1> HIDE DEF t
<1>5. /\ row \in Row /\ row.status = doc[d].status /\ row.text = doc[d].text
      /\ row.lifecycle = "indexed"
  <2>1. r1 \in Row /\ r1.status = doc[d].status /\ r1.text = doc[d].text
    BY <1>1, <1>3, RowUpdates DEF Row
  <2> HIDE DEF r1
  <2>2. r2 \in Row /\ r2.status = doc[d].status /\ r2.text = doc[d].text
    BY <1>3, <2>1, RowUpdates DEF Row
  <2> HIDE DEF r2, row
  <2>3. "indexed" \in Lifecycle
    BY DEF Lifecycle
  <2>4. QED
    BY <1>4, <2>2, <2>3, RowUpdates DEF Row
<1>6. d \notin excused => Indexed(d)
  <2>1. ~w.failed
    BY DEF Succeeds
  <2>2. QED
    BY <1>1, <1>2, <2>1 DEF OwnOf, ReindexOf, Indexed
<1> HIDE DEF row
<1>7. QED
  BY <1>1, <1>5, <1>6 DEF row

LEMMA FinishReindexStep ==
  ASSUME DocumentsInv, NEW a \in Actor, FinishReindex(a)
  PROVE  DocumentsInv'
<1>1. /\ work[a].at = "verify" /\ Succeeds(a) /\ Goes(a, "idle")
      /\ UNCHANGED <<manifest, chunk, emb, changes, mishaps, excused, raced, clashed, runId, runs>>
      /\ Calm' <=> Calm
  BY DEF FinishReindex, ids, Calm
<1>2. PICK d \in Doc : \E row \in Row :
           /\ work[a].docs = {d} /\ Its(a) = d /\ row = IndexedRow(doc[d], work[a].loaded[d])
           /\ row.status = doc[d].status /\ row.text = doc[d].text /\ row.lifecycle = "indexed"
           /\ d \notin excused => Indexed(d)
  BY <1>1, FinishedRow
<1>3. PICK row \in Row :
           /\ work[a].docs = {d} /\ Its(a) = d /\ row = IndexedRow(doc[d], work[a].loaded[d])
           /\ row.status = doc[d].status /\ row.text = doc[d].text /\ row.lifecycle = "indexed"
           /\ d \notin excused => Indexed(d)
  BY <1>2
<1>4. doc' = [doc EXCEPT ![d] = row]
  BY <1>3 DEF FinishReindex
<1>5. DocumentsTyped /\ mishaps' \in 0..MaxMishaps
  BY <1>1 DEF DocumentsInv, DocumentsTyped
<1>6. work' \in [Actor -> WorkRow] /\ work'[a] = NoOp /\ \A b \in Actor \ {a} : work'[b] = work[b]
  BY <1>1, <1>5, Went DEF Place
<1>7. OwnOf(work[a])'
  BY <1>6, Idle
<1>8. QED
  BY <1>1, <1>3, <1>4, <1>5, <1>6, <1>7, RowSaved

(* An operation that goes on to verify its failure. *)
LEMMA Doomed ==
  ASSUME DocumentsInv, NEW a \in Actor, work[a].name = "reindex",
         work'[a] \in WorkRow, work'[a].at = "verify", work'[a].name = "reindex",
         work'[a].docs = work[a].docs, work'[a].loaded = work[a].loaded,
         work'[a].todo \subseteq work[a].todo, work'[a].failed, ~Calm',
         excused \subseteq excused',
         \A d \in Doc : doc'[d].status = doc[d].status /\ doc'[d].text = doc[d].text
  PROVE  OwnOf(work[a])'
<1>1. OwnOf(work[a])
  BY DEF DocumentsInv
<1>2. ShapeOf(work[a])'
  BY <1>1, PlacesAre DEF OwnOf, ShapeOf
<1>3. \A d \in Doc \ excused' : FreshOf(work[a], d)'
  BY <1>1 DEF OwnOf, FreshOf
<1>4. \A d \in Doc : BuildOf(work[a], d)' /\ ReindexOf(work[a], d)' /\ SavedOf(work[a], d)'
  BY DEF BuildOf, ReindexOf, SavedOf
<1>5. QED
  BY <1>2, <1>3, <1>4 DEF OwnOf

LEMMA FinishUnrecordedStep ==
  ASSUME DocumentsInv, NEW a \in Actor, FinishUnrecorded(a)
  PROVE  DocumentsInv'
<1> DEFINE w == work[a]
           u == [w EXCEPT !.failed = TRUE]
<1>1. /\ w.at = "verify" /\ Succeeds(a) /\ mishaps < MaxMishaps /\ mishaps' = mishaps + 1
      /\ work' = [work EXCEPT ![a].failed = TRUE]
      /\ UNCHANGED <<manifest, chunk, emb, changes, excused, raced, clashed, runId, runs>>
  BY DEF FinishUnrecorded, ids
<1>2. PICK d \in Doc : \E row \in Row :
           /\ work[a].docs = {d} /\ Its(a) = d /\ row = IndexedRow(doc[d], work[a].loaded[d])
           /\ row.status = doc[d].status /\ row.text = doc[d].text /\ row.lifecycle = "indexed"
           /\ d \notin excused => Indexed(d)
  BY <1>1, FinishedRow
<1>3. PICK row \in Row :
           /\ work[a].docs = {d} /\ Its(a) = d /\ row = IndexedRow(doc[d], work[a].loaded[d])
           /\ row.status = doc[d].status /\ row.text = doc[d].text /\ row.lifecycle = "indexed"
           /\ d \notin excused => Indexed(d)
  BY <1>2
<1>4. doc' = [doc EXCEPT ![d] = row]
  BY <1>3 DEF FinishUnrecorded
<1>5. /\ DocumentsTyped /\ work \in [Actor -> WorkRow] /\ w \in WorkRow /\ w.name = "reindex"
      /\ doc \in [Doc -> Row] /\ mishaps \in Nat
  BY <1>1, ReindexDocument DEF DocumentsInv, DocumentsTyped
<1>6. mishaps' \in 0..MaxMishaps /\ ~Calm'
  BY <1>1, <1>5 DEF Calm
<1>7. /\ u \in WorkRow /\ u.at = w.at /\ u.name = w.name /\ u.docs = w.docs
      /\ u.loaded = w.loaded /\ u.todo = w.todo /\ u.failed
  BY <1>5, WorkFailed
<1>8. work' = [work EXCEPT ![a] = u]
  BY <1>1, <1>5
<1> HIDE DEF u
<1>9. work' \in [Actor -> WorkRow] /\ work'[a] = u /\ \A b \in Actor \ {a} : work'[b] = work[b]
  BY <1>5, <1>7, <1>8
<1>10. \A e \in Doc : doc'[e].status = doc[e].status /\ doc'[e].text = doc[e].text
  BY <1>3, <1>4, <1>5
<1>11. OwnOf(work[a])'
  BY <1>1, <1>5, <1>6, <1>7, <1>9, <1>10, Doomed
<1>12. QED
  BY <1>1, <1>3, <1>4, <1>6, <1>9, <1>11, RowSaved

LEMMA WholeIsComplete ==
  ASSUME NEW d \in Doc, Whole(d), StagedOf(d)
  PROVE  CompleteIndex(d)
BY DEF Whole, Cut, InStep, StagedOf, CompleteIndex

(* A reindex finds its document's index complete, as long as there has been *)
(* neither a mishap nor a clash.                                            *)
LEMMA FailureHasCause ==
  ASSUME DocumentsInv, NEW a \in Actor, NEW d \in Doc, work[a].at = "verify",
         work[a].docs = {d}, ~Succeeds(a)
  PROVE  d \in excused \/ ~Calm
<1>1. /\ work[a].name = "reindex" /\ OwnOf(work[a]) /\ Its(a) = d
  BY ReindexDocument, ItsDocument
<1>2. CASE work[a].failed
  BY <1>1, <1>2 DEF OwnOf, ShapeOf
<1>3. CASE ~work[a].failed /\ d \notin excused /\ Calm
  <2>1. Whole(d)
    BY <1>1, <1>3 DEF OwnOf, ReindexOf
  <2>2. CompleteIndex(d)
    BY <2>1, WholeIsComplete DEF DocumentsInv
  <2>3. QED
    BY <1>1, <1>3, <2>2 DEF Succeeds
<1>4. QED
  BY <1>2, <1>3

LEMMA FailReindexStep ==
  ASSUME DocumentsInv, NEW a \in Actor, FailReindex(a)
  PROVE  DocumentsInv'
<1> DEFINE w == work[a]
<1>1. /\ w.at = "verify" /\ ~Succeeds(a) /\ Goes(a, "hide")
      /\ UNCHANGED <<manifest, chunk, emb, changes, mishaps, excused, raced, clashed, runId, runs>>
      /\ Calm' <=> Calm
  BY DEF FailReindex, ids, Calm
<1>2. PICK d \in Doc : w.docs = {d} /\ Its(a) = d /\ doc[d] \in Row
  BY <1>1, ReindexDocument
<1>3. DocumentsTyped /\ w.name = "reindex" /\ w \in WorkRow /\ OwnOf(w)
  BY <1>1, ReindexDocument DEF DocumentsInv
<1> DEFINE row == [doc[d] EXCEPT !.lifecycle = "failed"]
<1>4. doc' = [doc EXCEPT ![d] = row]
  BY <1>2 DEF FailReindex
<1>5. row \in Row /\ row.status = doc[d].status /\ row.text = doc[d].text /\ row.lifecycle = "failed"
  <2>1. "failed" \in Lifecycle
    BY DEF Lifecycle
  <2>2. QED
    BY <1>2, <2>1, RowUpdates DEF Row
<1> HIDE DEF row
<1>6. /\ work' \in [Actor -> WorkRow] /\ \A b \in Actor \ {a} : work'[b] = work[b]
      /\ work'[a].at = "hide" /\ work'[a].name = "reindex" /\ work'[a].docs = {d}
      /\ work'[a].loaded = w.loaded /\ work'[a].todo = w.todo /\ work'[a].failed = w.failed
  BY <1>1, <1>2, <1>3, Went DEF Place
<1>7. \A e \in Doc : doc'[e].status = doc[e].status /\ doc'[e].text = doc[e].text
  BY <1>3, <1>4, <1>5 DEF DocumentsTyped
<1>8. ShapeOf(work[a])'
  BY <1>1, <1>2, <1>3, <1>6, PlacesAre DEF OwnOf, ShapeOf
<1>9. d \in excused \/ ~Calm
  BY <1>1, <1>2, FailureHasCause
<1>10. ASSUME NEW e \in Doc \ excused'
       PROVE  (FreshOf(work[a], e) /\ BuildOf(work[a], e) /\ ReindexOf(work[a], e) /\ SavedOf(work[a], e))'
  <2>1. FreshOf(work[a], e)'
    BY <1>1, <1>2, <1>3, <1>6, <1>7 DEF OwnOf, FreshOf
  <2>2. BuildOf(work[a], e)' /\ SavedOf(work[a], e)'
    BY <1>6 DEF BuildOf, SavedOf
  <2>3. ReindexOf(work[a], e)'
    BY <1>1, <1>3, <1>6, <1>9 DEF ReindexOf
  <2>4. QED
    BY <2>1, <2>2, <2>3
<1>11. OwnOf(work[a])'
  BY <1>8, <1>10 DEF OwnOf
<1>m. mishaps' \in 0..MaxMishaps
  BY <1>1 DEF DocumentsInv, DocumentsTyped
<1>12. QED
  BY <1>m, <1>1, <1>4, <1>5, <1>6, <1>11, RowSaved

(* A step that changes the chunks and the embeddings. *)
LEMMA IndexMoved ==
  ASSUME DocumentsInv, NEW a \in Actor, DocumentsTyped', OwnOf(work[a])',
         UNCHANGED <<doc, manifest>>,
         excused \subseteq excused', Calm' => Calm,
         \A b \in Actor \ {a} : work'[b] = work[b],
         \A d \in Doc \ excused' : /\ UnsyncedBy(work[a], d) => UnsyncedBy(work[a], d)'
                                   /\ Sound(d) => Sound(d)'
                                   /\ Calm' => (Cut(d) => Cut(d)') /\ (Whole(d) => Whole(d)')
  PROVE  DocumentsInv'
<1>1. ASSUME NEW d \in Doc \ excused' PROVE Keeps(d)
  <2>1. InStep(d)' <=> InStep(d)
    BY DEF InStep
  <2>2. QED
    BY <2>1 DEF Keeps
<1>2. ASSUME NEW d \in Doc \ excused' PROVE ManifestOf(d)'
  <2>1. Unsynced(d) => Unsynced(d)'
    BY DEF Unsynced, UnsyncedBy
  <2>2. ManifestOf(d) /\ (InStep(d)' <=> InStep(d))
    BY DEF DocumentsInv, InStep
  <2>3. QED
    BY <2>1, <2>2 DEF ManifestOf
<1>3. ASSUME NEW d \in Doc \ excused' PROVE IndexOf(d)'
  <2>1. IndexOf(d)
    BY DEF DocumentsInv
  <2>2. QED
    BY <2>1 DEF IndexOf, Indexed
<1>4. ASSUME NEW d \in Doc \ excused', NEW b \in Actor \ {a} PROVE BuildOf(work[b], d)'
  <2>1. BuildOf(work[b], d)
    BY DEF DocumentsInv, OwnOf
  <2>2. QED
    BY <2>1 DEF BuildOf
<1>5. \A d \in Doc : StagedOf(d)'
  BY DEF DocumentsInv, StagedOf
<1>6. Carried(a)
  BY <1>1, <1>2, <1>3, <1>4, <1>5 DEF Carried
<1>7. QED
  BY <1>6, Assembled

(* A process is killed: its documents are excused. *)
LEMMA KilledStep ==
  ASSUME DocumentsInv, NEW a \in Actor, Killed(a)
  PROVE  DocumentsInv'
<1>1. /\ mishaps < MaxMishaps /\ mishaps' = mishaps + 1 /\ Goes(a, "idle")
      /\ excused' = excused \cup work[a].docs /\ raced' = [raced EXCEPT ![a] = {}]
      /\ UNCHANGED <<doc, manifest, chunk, emb, changes, clashed, runId, runs>>
  BY DEF Killed, ids
<1>2. DocumentsTyped /\ work[a] \in WorkRow /\ mishaps \in Nat /\ mishaps \in 0..MaxMishaps
  BY DEF DocumentsInv, DocumentsTyped
<1>3. work' \in [Actor -> WorkRow] /\ work'[a] = NoOp /\ \A b \in Actor \ {a} : work'[b] = work[b]
  BY <1>1, <1>2, Went DEF Place
<1>4. mishaps' \in 0..MaxMishaps /\ ~Calm'
  BY <1>1, <1>2 DEF Calm
<1>5. DocumentsTyped'
  BY <1>1, <1>2, <1>3, <1>4, WorkFields DEF DocumentsTyped
<1>6. OwnOf(work[a])'
  BY <1>3, Idle
<1>7. ASSUME NEW d \in Doc \ excused'
      PROVE  (UnsyncedBy(work[a], d) => UnsyncedBy(work[a], d)') /\ (Sound(d) => Sound(d)')
  <2>1. ~UnsyncedBy(work[a], d)
    BY <1>1 DEF UnsyncedBy
  <2>2. Sound(d) => Sound(d)'
    BY <1>1 DEF Sound, InStep
  <2>3. QED
    BY <2>1, <2>2
<1>8. QED
  BY <1>1, <1>3, <1>4, <1>5, <1>6, <1>7, IndexMoved

(* A failed reindex has had a mishap or a clash: nothing is expected of     *)
(* what it hides.                                                           *)
LEMMA HideChunksStep ==
  ASSUME DocumentsInv, NEW a \in Actor, HideChunks(a)
  PROVE  DocumentsInv'
<1> DEFINE w == work[a]
<1>1. /\ w.at = "hide" /\ Goes(a, "idle")
      /\ UNCHANGED <<doc, manifest, changes, mishaps, excused, raced, clashed, runId, runs>>
      /\ Calm' <=> Calm
  BY DEF HideChunks, ids, Calm
<1>2. PICK d \in Doc : w.docs = {d} /\ Its(a) = d /\ doc[d] \in Row
  BY <1>1, ReindexDocument
<1>3. DocumentsTyped /\ w.name = "reindex" /\ w \in WorkRow /\ OwnOf(w)
  BY <1>1, ReindexDocument DEF DocumentsInv
<1> DEFINE c == Retired(chunk[d])
           m == RetiredOf(emb[d], Current(chunk[d]))
<1>4. chunk' = [chunk EXCEPT ![d] = c] /\ emb' = [emb EXCEPT ![d] = m]
  BY <1>2 DEF HideChunks
<1>5. /\ chunk \in [Doc -> [Version -> Life]] /\ emb \in [Doc -> [Version -> Life]]
      /\ chunk[d] \in [Version -> Life] /\ emb[d] \in [Version -> Life]
  BY <1>3 DEF DocumentsTyped
<1>6. /\ c \in [Version -> Life] /\ m \in [Version -> Life] /\ Current(c) = {}
  BY <1>5, Lives
<1> HIDE DEF c, m
<1>7. /\ chunk' \in [Doc -> [Version -> Life]] /\ emb' \in [Doc -> [Version -> Life]]
      /\ chunk'[d] = c
      /\ \A e \in Doc \ {d} : chunk'[e] = chunk[e] /\ emb'[e] = emb[e]
  BY <1>4, <1>5, <1>6
<1>8. work' \in [Actor -> WorkRow] /\ work'[a] = NoOp /\ \A b \in Actor \ {a} : work'[b] = work[b]
  BY <1>1, <1>3, Went DEF Place
<1>9. DocumentsTyped'
  BY <1>1, <1>3, <1>7, <1>8 DEF DocumentsTyped
<1>10. OwnOf(work[a])'
  BY <1>8, Idle
<1>11. ASSUME NEW e \in Doc \ excused'
       PROVE  /\ UnsyncedBy(work[a], e) => UnsyncedBy(work[a], e)'
              /\ Sound(e) => Sound(e)'
              /\ Calm' => (Cut(e) => Cut(e)') /\ (Whole(e) => Whole(e)')
  <2>1. ~UnsyncedBy(work[a], e)
    BY <1>1 DEF UnsyncedBy
  <2>2. CASE e # d
    BY <1>1, <1>7, <2>1, <2>2 DEF Sound, Cut, Whole, InStep
  <2>3. CASE e = d
    <3>1. ~Calm
      BY <1>1, <1>2, <1>3, <2>3 DEF OwnOf, ReindexOf
    <3>2. Current(chunk[e])' = {}
      BY <1>6, <1>7, <2>3
    <3>3. Sound(e) => Sound(e)'
      BY <1>1, <3>2 DEF Sound, InStep
    <3>4. QED
      BY <1>1, <2>1, <3>1, <3>3
  <2>4. QED
    BY <2>2, <2>3
<1>12. QED
  BY <1>1, <1>8, <1>9, <1>10, <1>11, IndexMoved

LEMMA Verifying ==
  ASSUME DocumentsTyped, NEW a \in Actor, NEW failed \in BOOLEAN, AfterIndex(a, failed)
  PROVE  /\ work' \in [Actor -> WorkRow] /\ \A b \in Actor \ {a} : work'[b] = work[b]
         /\ work[a].name = "index" => work'[a] = NoOp
         /\ work[a].name # "index" => /\ work'[a].at = "verify"
                                      /\ work'[a].name = work[a].name
                                      /\ work'[a].docs = work[a].docs
                                      /\ work'[a].loaded = work[a].loaded
                                      /\ work'[a].todo = work[a].todo
                                      /\ work'[a].failed = (work[a].failed \/ failed)
<1> DEFINE w == work[a]
           f == w.failed \/ failed
           w1 == [w EXCEPT !.at = "verify"]
           w2 == [w1 EXCEPT !.run = NoRun]
           w3 == [w2 EXCEPT !.pending = NoOp.pending]
           u == [w3 EXCEPT !.failed = f]
<1>1. work \in [Actor -> WorkRow] /\ w \in WorkRow /\ f \in BOOLEAN
  BY WorkFields DEF DocumentsTyped
<1>2. work' = [work EXCEPT ![a] = IF w.name = "index" THEN NoOp ELSE u]
  <2>1. [w EXCEPT !.at = "verify", !.run = NoRun, !.pending = NoOp.pending, !.failed = f] = u
    BY <1>1 DEF WorkRow
  <2>2. work' = [work EXCEPT ![a] = IF w.name = "index" THEN NoOp
           ELSE [w EXCEPT !.at = "verify", !.run = NoRun, !.pending = NoOp.pending, !.failed = f]]
    BY <1>1 DEF AfterIndex
  <2>3. QED
    BY <2>1, <2>2
<1> HIDE DEF f
<1>3. /\ w1 \in WorkRow /\ w1.at = "verify" /\ w1.name = w.name /\ w1.docs = w.docs
      /\ w1.loaded = w.loaded /\ w1.todo = w.todo
  BY <1>1, WorkAt DEF Place
<1> HIDE DEF w1
<1>4. /\ w2 \in WorkRow /\ w2.at = "verify" /\ w2.name = w.name /\ w2.docs = w.docs
      /\ w2.loaded = w.loaded /\ w2.todo = w.todo
  BY <1>3, Blanks, WorkRun
<1> HIDE DEF w2
<1>p. /\ w3 \in WorkRow /\ w3.at = "verify" /\ w3.name = w.name /\ w3.docs = w.docs
      /\ w3.loaded = w.loaded /\ w3.todo = w.todo
  BY <1>4, Blanks, WorkPending
<1> HIDE DEF w3
<1>5. /\ u \in WorkRow /\ u.at = "verify" /\ u.name = w.name /\ u.docs = w.docs
      /\ u.loaded = w.loaded /\ u.todo = w.todo /\ u.failed = f
  BY <1>1, <1>p, WorkFailed
<1> HIDE DEF u
<1>6. QED
  BY <1>1, <1>2, <1>5, Blanks DEF f

(* Where a chunk build and an index run can be part of. *)
LEMMA Runs ==
  ASSUME DocumentsInv, NEW a \in Actor
  PROVE  /\ DocumentsTyped /\ work[a] \in WorkRow /\ OwnOf(work[a])
         /\ work[a].at = "chunk" => work[a].name \in {"reindex", "pipeline"}
         /\ work[a].at \in {"decide", "embed"} => work[a].name \in {"reindex", "index"}
         /\ work[a].name = "reindex" => \E d \in Doc : work[a].docs = {d} /\ Its(a) = d
<1>1. DocumentsTyped /\ work[a] \in WorkRow /\ OwnOf(work[a])
  BY DEF DocumentsInv, DocumentsTyped
<1>2. /\ work[a].at = "chunk" => work[a].name \in {"reindex", "pipeline"}
      /\ work[a].at \in {"decide", "embed"} => work[a].name \in {"reindex", "index"}
  BY <1>1, WorkFields, PlacesAre DEF OwnOf, ShapeOf
<1>3. ASSUME work[a].name = "reindex"
      PROVE  \E d \in Doc : work[a].docs = {d} /\ Its(a) = d
  <2>1. PICK d \in Doc : work[a].docs = {d}
    BY <1>1, <1>3 DEF OwnOf, ShapeOf
  <2>2. QED
    BY <2>1, ItsDocument
<1>4. QED
  BY <1>1, <1>2, <1>3

LEMMA BreaksStep ==
  ASSUME DocumentsInv, NEW a \in Actor, Breaks(a)
  PROVE  DocumentsInv'
<1> DEFINE w == work[a]
           w1 == [w EXCEPT !.at = "verify"]
           w2 == [w1 EXCEPT !.todo = {}]
           w3 == [w2 EXCEPT !.staged = NoOp.staged]
           w4 == [w3 EXCEPT !.run = NoRun]
           w5 == [w4 EXCEPT !.pending = NoOp.pending]
           u == [w5 EXCEPT !.failed = TRUE]
<1>1. /\ w.name \in {"reindex", "index"} /\ mishaps < MaxMishaps /\ mishaps' = mishaps + 1
      /\ raced' = [raced EXCEPT ![a] = {}]
      /\ UNCHANGED <<doc, manifest, chunk, emb, changes, excused, clashed, runId, runs>>
  BY DEF Breaks, ids
<1>2. DocumentsTyped /\ w \in WorkRow /\ work \in [Actor -> WorkRow] /\ mishaps \in Nat
  BY DEF DocumentsInv, DocumentsTyped
<1>3. work' = [work EXCEPT ![a] = IF w.name = "index" THEN NoOp ELSE u]
  <2>1. [w EXCEPT !.at = "verify", !.todo = {}, !.staged = NoOp.staged, !.run = NoRun,
                  !.pending = NoOp.pending, !.failed = TRUE] = u
    BY <1>2 DEF WorkRow
  <2>2. QED
    BY <1>2, <2>1 DEF Breaks
<1>4. /\ u \in WorkRow /\ u.at = "verify" /\ u.name = w.name /\ u.docs = w.docs
      /\ u.loaded = w.loaded /\ u.todo = {} /\ u.failed
  <2>1. /\ w1 \in WorkRow /\ w1.at = "verify" /\ w1.name = w.name /\ w1.docs = w.docs
        /\ w1.loaded = w.loaded
    BY <1>2, WorkAt DEF Place
  <2> HIDE DEF w1
  <2>2. /\ w2 \in WorkRow /\ w2.at = "verify" /\ w2.name = w.name /\ w2.docs = w.docs
        /\ w2.loaded = w.loaded /\ w2.todo = {}
    BY <2>1, WorkTodo
  <2> HIDE DEF w2
  <2>3. /\ w3 \in WorkRow /\ w3.at = "verify" /\ w3.name = w.name /\ w3.docs = w.docs
        /\ w3.loaded = w.loaded /\ w3.todo = {}
    BY <2>2, Blanks, WorkStaged
  <2> HIDE DEF w3
  <2>4. /\ w4 \in WorkRow /\ w4.at = "verify" /\ w4.name = w.name /\ w4.docs = w.docs
        /\ w4.loaded = w.loaded /\ w4.todo = {}
    BY <2>3, Blanks, WorkRun
  <2> HIDE DEF w4
  <2>5. /\ w5 \in WorkRow /\ w5.at = "verify" /\ w5.name = w.name /\ w5.docs = w.docs
        /\ w5.loaded = w.loaded /\ w5.todo = {}
    BY <2>4, Blanks, WorkPending
  <2> HIDE DEF w5
  <2>6. QED
    BY <2>5, WorkFailed
<1> HIDE DEF u
<1>5. /\ work' \in [Actor -> WorkRow] /\ \A b \in Actor \ {a} : work'[b] = work[b]
      /\ w.name = "index" => work'[a] = NoOp
      /\ w.name = "reindex" => work'[a] = u
  BY <1>2, <1>3, <1>4, Blanks
<1>6. mishaps' \in 0..MaxMishaps /\ ~Calm'
  BY <1>1, <1>2 DEF Calm
<1>7. DocumentsTyped'
  BY <1>1, <1>2, <1>5, <1>6 DEF DocumentsTyped
<1>8. OwnOf(work[a])'
  <2>1. CASE w.name = "index"
    BY <1>5, <2>1, Idle
  <2>2. CASE w.name = "reindex"
    BY <1>1, <1>4, <1>5, <1>6, <2>2, Doomed
  <2>3. QED
    BY <1>1, <2>1, <2>2
<1>9. ASSUME NEW d \in Doc \ excused'
      PROVE  (UnsyncedBy(work[a], d) => UnsyncedBy(work[a], d)') /\ (Sound(d) => Sound(d)')
  BY <1>1 DEF UnsyncedBy, Sound, InStep
<1>10. QED
  BY <1>1, <1>5, <1>6, <1>7, <1>8, <1>9, IndexMoved

(* A reindex that finds its run's id recorded has clashed. *)
LEMMA RunTakenStep ==
  ASSUME DocumentsInv, NEW a \in Actor, RunTaken(a)
  PROVE  DocumentsInv'
<1> DEFINE w == work[a]
<1>1. /\ w.at = "decide" /\ AfterIndex(a, TRUE) /\ clashed' = clashed \cup w.docs
      /\ UNCHANGED <<doc, manifest, chunk, emb, changes, mishaps, excused, raced, runId, runs>>
  BY DEF RunTaken, ids
<1>2. DocumentsTyped /\ w \in WorkRow /\ OwnOf(w) /\ w.name \in {"reindex", "index"}
  BY <1>1, Runs
<1>3. /\ work' \in [Actor -> WorkRow] /\ \A b \in Actor \ {a} : work'[b] = work[b]
      /\ w.name = "index" => work'[a] = NoOp
      /\ w.name # "index" => /\ work'[a].at = "verify" /\ work'[a].name = w.name
                             /\ work'[a].docs = w.docs /\ work'[a].loaded = w.loaded
                             /\ work'[a].todo = w.todo /\ work'[a].failed
  BY <1>1, <1>2, Verifying
<1>4. DocumentsTyped'
  BY <1>1, <1>2, <1>3, WorkFields DEF DocumentsTyped
<1>5. Calm' => Calm
  BY <1>1 DEF Calm
<1>6. OwnOf(work[a])'
  <2>1. CASE w.name = "index"
    BY <1>3, <2>1, Idle
  <2>2. CASE w.name = "reindex"
    <3>1. w.docs # {}
      BY <2>2, Runs
    <3>2. ~Calm'
      BY <1>1, <3>1 DEF Calm
    <3>3. work'[a] \in WorkRow
      BY <1>3
    <3>4. QED
      BY <1>1, <1>3, <2>2, <3>2, <3>3, Doomed
  <2>3. QED
    BY <1>2, <2>1, <2>2
<1>7. ASSUME NEW d \in Doc \ excused'
      PROVE  /\ UnsyncedBy(work[a], d) => UnsyncedBy(work[a], d)'
             /\ Sound(d)' <=> Sound(d)
             /\ Cut(d)' <=> Cut(d)
             /\ Whole(d)' <=> Whole(d)
  BY <1>1 DEF UnsyncedBy, Sound, Cut, Whole, InStep
<1>8. QED
  BY <1>1, <1>3, <1>4, <1>5, <1>6, <1>7, IndexMoved

LEMMA EmbedStep ==
  ASSUME DocumentsInv, NEW a \in Actor, Embed(a)
  PROVE  DocumentsInv'
<1> DEFINE w == work[a]
<1>1. /\ w.at = "embed" /\ AfterIndex(a, FALSE)
      /\ emb' = [d \in Doc |-> [v \in Version |-> IF v \in w.pending[d] THEN "active" ELSE emb[d][v]]]
      /\ UNCHANGED <<doc, manifest, chunk, changes, mishaps, excused, raced, clashed, runId, runs>>
      /\ Calm' <=> Calm
  BY DEF Embed, ids, Calm
<1>2. DocumentsTyped /\ w \in WorkRow /\ OwnOf(w) /\ w.name \in {"reindex", "index"}
  BY <1>1, Runs
<1>3. /\ work' \in [Actor -> WorkRow] /\ \A b \in Actor \ {a} : work'[b] = work[b]
      /\ w.name = "index" => work'[a] = NoOp
      /\ w.name # "index" => /\ work'[a].at = "verify" /\ work'[a].name = w.name
                             /\ work'[a].docs = w.docs /\ work'[a].loaded = w.loaded
                             /\ work'[a].todo = w.todo /\ work'[a].failed = w.failed
  <2>1. w.failed \in BOOLEAN
    BY <1>2, WorkFields
  <2>2. (w.failed \/ FALSE) = w.failed
    BY <2>1
  <2>3. QED
    BY <1>1, <1>2, <2>2, Verifying
<1>4. emb' \in [Doc -> [Version -> Life]]
  <2>1. \A d \in Doc : emb[d] \in [Version -> Life]
    BY <1>2 DEF DocumentsTyped
  <2>2. QED
    BY <1>1, <2>1 DEF Life
<1>5. \A d \in Doc : Current(emb[d])' = Current(emb[d]) \cup (Version \cap w.pending[d])
  BY <1>1 DEF Current
<1>6. DocumentsTyped'
  BY <1>1, <1>2, <1>3, <1>4 DEF DocumentsTyped
<1>7. ASSUME NEW d \in Doc
      PROVE  (Sound(d)' <=> Sound(d)) /\ (Cut(d)' <=> Cut(d)) /\ (Whole(d) => Whole(d)')
  BY <1>1, <1>5 DEF Sound, Cut, Whole, InStep
<1>8. OwnOf(work[a])'
  <2>1. CASE w.name = "index"
    BY <1>3, <2>1, Idle
  <2>2. CASE w.name = "reindex"
    <3>1. ShapeOf(work[a])'
      BY <1>1, <1>2, <1>3, <2>2, PlacesAre DEF OwnOf, ShapeOf
    <3>2. \A d \in Doc \ excused' : FreshOf(work[a], d)'
      BY <1>1, <1>2, <1>3, <2>2 DEF OwnOf, FreshOf
    <3>3. ASSUME NEW d \in Doc \ excused' PROVE ReindexOf(work[a], d)'
      <4>1. ReindexOf(w, d)
        BY <1>1, <1>2 DEF OwnOf
      <4>2. Cut(d) /\ doc[d].text \in Current(emb[d]) \cup w.pending[d] => Whole(d)'
        <5>1. doc[d].text \in Version
          BY <1>2, RowFields DEF DocumentsTyped
        <5>2. QED
          BY <1>1, <1>5, <1>7, <5>1 DEF Whole
      <4>3. QED
        BY <1>1, <1>3, <1>7, <2>2, <4>1, <4>2 DEF ReindexOf
    <3>4. \A d \in Doc : BuildOf(work[a], d)' /\ SavedOf(work[a], d)'
      BY <1>3, <2>2 DEF BuildOf, SavedOf
    <3>5. QED
      BY <3>1, <3>2, <3>3, <3>4 DEF OwnOf
  <2>3. QED
    BY <1>2, <2>1, <2>2
<1>9. \A d \in Doc : UnsyncedBy(work[a], d) => UnsyncedBy(work[a], d)'
  BY <1>1 DEF UnsyncedBy
<1>10. QED
  BY <1>1, <1>3, <1>6, <1>7, <1>8, <1>9, IndexMoved

LEMMA DecideStep ==
  ASSUME DocumentsInv, NEW a \in Actor, Decide(a)
  PROVE  DocumentsInv'
<1> DEFINE w == work[a]
           p == [d \in Doc |-> IF w.name = "reindex" /\ d # Its(a) THEN {}
                               ELSE Current(chunk[d]) \ Current(emb[d])]
           w1 == [w EXCEPT !.at = "embed"]
           w2 == [w1 EXCEPT !.run = NoRun]
           u == [w2 EXCEPT !.pending = p]
<1>1. /\ w.at = "decide"
      /\ emb' = [d \in Doc |-> RetiredOf(emb[d], Version \ Current(chunk[d]))]
      /\ runs' = runs \cup ({w.run} \ {NoRun})
      /\ UNCHANGED <<doc, manifest, chunk, changes, mishaps, excused, raced, clashed, runId>>
      /\ Calm' <=> Calm
  BY DEF Decide, Calm
<1>2. /\ DocumentsTyped /\ w \in WorkRow /\ OwnOf(w) /\ w.name \in {"reindex", "index"}
      /\ work \in [Actor -> WorkRow]
  BY <1>1, Runs DEF DocumentsTyped
<1>3. work' = [work EXCEPT ![a] = u]
  <2>1. [w EXCEPT !.at = "embed", !.run = NoRun, !.pending = p] = u
    BY <1>2 DEF WorkRow
  <2>2. work' = [work EXCEPT ![a] = [w EXCEPT !.at = "embed", !.run = NoRun, !.pending = p]]
    BY <1>2 DEF Decide
  <2>3. QED
    BY <2>1, <2>2
<1>4. p \in [Doc -> SUBSET Version]
  BY DEF Current
<1>5. \A d \in Doc : w.name = "reindex" /\ d = Its(a) => p[d] = Current(chunk[d]) \ Current(emb[d])
  OBVIOUS
<1> HIDE DEF p
<1>6. /\ u \in WorkRow /\ u.at = "embed" /\ u.pending = p
      /\ u.name = w.name /\ u.docs = w.docs /\ u.loaded = w.loaded /\ u.todo = w.todo
      /\ u.failed = w.failed
  <2>1. /\ w1 \in WorkRow /\ w1.at = "embed"
        /\ w1.name = w.name /\ w1.docs = w.docs /\ w1.loaded = w.loaded /\ w1.todo = w.todo
        /\ w1.failed = w.failed
    BY <1>2, WorkAt DEF Place
  <2> HIDE DEF w1
  <2>2. /\ w2 \in WorkRow /\ w2.at = "embed"
        /\ w2.name = w.name /\ w2.docs = w.docs /\ w2.loaded = w.loaded /\ w2.todo = w.todo
        /\ w2.failed = w.failed
    BY <2>1, Blanks, WorkRun
  <2> HIDE DEF w2
  <2>3. QED
    BY <1>4, <2>2, WorkPending
<1> HIDE DEF u
<1>7. work' \in [Actor -> WorkRow] /\ work'[a] = u /\ \A b \in Actor \ {a} : work'[b] = work[b]
  BY <1>2, <1>3, <1>6
<1>8. ASSUME NEW d \in Doc
      PROVE  /\ emb'[d] \in [Version -> Life]
             /\ Current(emb[d])' = Current(emb[d]) \ (Version \ Current(chunk[d]))
  <2>1. emb[d] \in [Version -> Life]
    BY <1>2 DEF DocumentsTyped
  <2>2. emb'[d] = RetiredOf(emb[d], Version \ Current(chunk[d]))
    BY <1>1
  <2>3. QED
    BY <2>1, <2>2, Lives
<1>9. emb' \in [Doc -> [Version -> Life]]
  BY <1>1, <1>8
<1>r. runs' \subseteq Run
  <2>1. w.run \in Run \cup {NoRun} /\ runs \subseteq Run
    BY <1>2, WorkFields DEF DocumentsTyped
  <2>2. QED
    BY <1>1, <2>1
<1>10. DocumentsTyped'
  BY <1>1, <1>2, <1>7, <1>9, <1>r DEF DocumentsTyped
<1>11. ASSUME NEW d \in Doc
       PROVE  (Sound(d)' <=> Sound(d)) /\ (Cut(d)' <=> Cut(d)) /\ (Whole(d) => Whole(d)')
  <2>1. InStep(d)' <=> InStep(d)
    BY <1>1 DEF InStep
  <2>2. QED
    BY <1>1, <1>8, <2>1 DEF Sound, Cut, Whole
<1>12. ShapeOf(work[a])'
  BY <1>1, <1>2, <1>6, <1>7, PlacesAre DEF OwnOf, ShapeOf
<1>13. ASSUME NEW d \in Doc \ excused'
       PROVE  (FreshOf(work[a], d) /\ BuildOf(work[a], d) /\ ReindexOf(work[a], d) /\ SavedOf(work[a], d))'
  <2>1. FreshOf(work[a], d)'
    BY <1>1, <1>2, <1>6, <1>7 DEF OwnOf, FreshOf
  <2>2. BuildOf(work[a], d)' /\ SavedOf(work[a], d)'
    BY <1>6, <1>7 DEF BuildOf, SavedOf
  <2>3. ReindexOf(work[a], d)'
    <3>1. ReindexOf(w, d)
      BY <1>1, <1>2 DEF OwnOf
    <3>2. ASSUME w.name = "reindex", d \in w.docs, Cut(d)
          PROVE  doc'[d].text \in Current(emb[d])' \cup u.pending[d]
      <4>1. d = Its(a)
        BY <3>2, Runs
      <4>2. Current(chunk[d]) = {doc[d].text}
        BY <3>2 DEF Cut
      <4>3. QED
        BY <1>1, <1>5, <1>6, <1>8, <3>2, <4>1, <4>2 DEF Current
    <3>3. QED
      BY <1>1, <1>6, <1>7, <1>11, <3>1, <3>2 DEF ReindexOf
  <2>4. QED
    BY <2>1, <2>2, <2>3
<1>14. OwnOf(work[a])'
  BY <1>12, <1>13 DEF OwnOf
<1>15. \A d \in Doc : UnsyncedBy(work[a], d) => UnsyncedBy(work[a], d)'
  BY <1>1 DEF UnsyncedBy
<1>16. QED
  BY <1>1, <1>7, <1>10, <1>11, <1>14, <1>15, IndexMoved

(* A build leaves a document in step with the chunks of its text.           *)
LEMMA BuildChunksStep ==
  ASSUME DocumentsInv, NEW a \in Actor, NEW failing \in SUBSET Doc, BuildChunks(a, failing)
  PROVE  DocumentsInv'
<1> DEFINE w == work[a]
           failed == failing # {}
           built(d) == IF d \in failing THEN chunk[d] ELSE Chunked(chunk[d], w.staged[d])
           w1 == [w EXCEPT !.at = "decide"]
           w2 == [w1 EXCEPT !.staged = NoOp.staged]
           u == [w2 EXCEPT !.failed = failed]
<1>1. /\ w.at = "chunk"
      /\ failing \subseteq raced[a] \/ mishaps < MaxMishaps
      /\ mishaps' = IF failing \subseteq raced[a] THEN mishaps ELSE mishaps + 1
      /\ clashed' = clashed \cup (failing \cap raced[a])
      /\ raced' = [b \in Actor |->
           IF b = a \/ work[b].at # "chunk" THEN {}
           ELSE raced[b] \cup {d \in Doc : Activates(d, work[b].staged[d])}]
      /\ chunk' = [d \in Doc |-> IF manifest[d].active THEN built(d) ELSE Retired(built(d))]
      /\ UNCHANGED <<doc, manifest, emb, changes, excused, runId, runs>>
  BY DEF BuildChunks, ids
<1>2. /\ DocumentsTyped /\ w \in WorkRow /\ OwnOf(w) /\ w.name \in {"reindex", "pipeline"}
      /\ work \in [Actor -> WorkRow]
  BY <1>1, Runs DEF DocumentsTyped
<1>3. work' = [work EXCEPT ![a] = IF w.name = "pipeline" THEN NoOp ELSE u]
  <2>1. [w EXCEPT !.at = "decide", !.staged = NoOp.staged, !.failed = failed] = u
    BY <1>2 DEF WorkRow
  <2>2. QED
    BY <1>2, <2>1 DEF BuildChunks
<1>4. failed \in BOOLEAN
  OBVIOUS
<1>5. /\ u \in WorkRow /\ u.at = "decide" /\ u.name = w.name /\ u.docs = w.docs
      /\ u.loaded = w.loaded /\ u.todo = w.todo /\ u.failed = failed
  <2> HIDE DEF failed
  <2>1. /\ w1 \in WorkRow /\ w1.at = "decide" /\ w1.name = w.name /\ w1.docs = w.docs
        /\ w1.loaded = w.loaded /\ w1.todo = w.todo
    BY <1>2, WorkAt DEF Place
  <2> HIDE DEF w1
  <2>2. /\ w2 \in WorkRow /\ w2.at = "decide" /\ w2.name = w.name /\ w2.docs = w.docs
        /\ w2.loaded = w.loaded /\ w2.todo = w.todo
    BY <2>1, Blanks, WorkStaged
  <2> HIDE DEF w2
  <2>3. QED
    BY <1>4, <2>2, WorkFailed
<1> HIDE DEF u
<1>6. /\ work' \in [Actor -> WorkRow] /\ \A b \in Actor \ {a} : work'[b] = work[b]
      /\ w.name = "pipeline" => work'[a] = NoOp
      /\ w.name # "pipeline" => work'[a] = u
  BY <1>2, <1>3, <1>5, Blanks
<1>7. /\ mishaps' \in 0..MaxMishaps /\ clashed' \subseteq Doc
      /\ raced' \in [Actor -> SUBSET Doc]
      /\ Calm' => Calm /\ failing = {}
  <2>1. /\ mishaps \in Nat /\ mishaps \in 0..MaxMishaps /\ clashed \subseteq Doc
        /\ raced \in [Actor -> SUBSET Doc]
    BY <1>2 DEF DocumentsTyped
  <2>2. mishaps' \in 0..MaxMishaps /\ clashed' \subseteq Doc
    BY <1>1, <2>1
  <2>3. raced' \in [Actor -> SUBSET Doc]
    <3> DEFINE now(b) == IF b = a \/ work[b].at # "chunk" THEN {}
                         ELSE raced[b] \cup {d \in Doc : Activates(d, work[b].staged[d])}
    <3>1. \A b \in Actor : now(b) \in SUBSET Doc
      BY <2>1
    <3>2. raced' = [b \in Actor |-> now(b)]
      BY <1>1
    <3> HIDE DEF now
    <3>3. QED
      BY <3>1, <3>2
  <2>4. ASSUME Calm' PROVE Calm /\ failing = {}
    <3>1. mishaps' = 0 /\ clashed' = {}
      BY <2>4 DEF Calm
    <3>2. failing \subseteq raced[a]
      BY <1>1, <2>1, <3>1
    <3>3. QED
      BY <1>1, <3>1, <3>2 DEF Calm
  <2>5. QED
    BY <2>2, <2>3, <2>4
<1>8. ASSUME NEW d \in Doc
      PROVE  /\ built(d) \in [Version -> Life] /\ chunk'[d] \in [Version -> Life]
             /\ w.staged[d] \in Stamp
             /\ manifest[d].active =>
                  /\ w.staged[d] = NoVersion \/ d \in failing => Current(chunk[d])' = Current(chunk[d])
                  /\ w.staged[d] # NoVersion /\ d \notin failing =>
                       Current(chunk[d])' = {w.staged[d]}
  <2>1. chunk[d] \in [Version -> Life] /\ w.staged[d] \in Stamp
    BY <1>2, WorkFields DEF DocumentsTyped
  <2> DEFINE c == Chunked(chunk[d], w.staged[d])
  <2>2. /\ c \in [Version -> Life]
        /\ w.staged[d] = NoVersion => c = chunk[d]
        /\ w.staged[d] # NoVersion => Current(c) = {w.staged[d]}
    BY <2>1, Lives
  <2> HIDE DEF c
  <2>3. built(d) = IF d \in failing THEN chunk[d] ELSE c
    BY DEF c
  <2> DEFINE e == built(d)
  <2>4. e \in [Version -> Life] /\ Retired(e) \in [Version -> Life]
    BY <2>1, <2>2, <2>3, Lives
  <2>5. chunk'[d] = IF manifest[d].active THEN e ELSE Retired(e)
    BY <1>1
  <2> HIDE DEF e, built
  <2>6. built(d) = e
    BY DEF e
  <2>7. QED
    BY <2>1, <2>2, <2>3, <2>4, <2>5, <2>6
<1> HIDE DEF built
<1>9. chunk' \in [Doc -> [Version -> Life]]
  BY <1>1, <1>8
<1>10. DocumentsTyped'
  BY <1>1, <1>2, <1>6, <1>7, <1>9 DEF DocumentsTyped
<1>11. ASSUME NEW d \in Doc \ excused'
       PROVE  /\ InStep(d)' <=> InStep(d)
              /\ Sound(d) => Sound(d)'
              /\ Cut(d) => Cut(d)'
              /\ Whole(d) => Whole(d)'
  <2>1. InStep(d)' <=> InStep(d)
    BY <1>1 DEF InStep
  <2>2. InStep(d) => Current(chunk[d])' \in {Current(chunk[d]), {doc[d].text}}
    <3>1. BuildOf(w, d)
      BY <1>1, <1>2 DEF OwnOf
    <3>2. QED
      BY <1>1, <1>8, <3>1 DEF BuildOf, InStep
  <2>3. QED
    BY <1>1, <2>1, <2>2 DEF Sound, Cut, Whole
<1>12. OwnOf(work[a])'
  <2>1. CASE w.name = "pipeline"
    BY <1>6, <2>1, Idle
  <2>2. CASE w.name = "reindex"
    <3>1. work'[a] = u
      BY <1>6, <2>2
    <3>2. ShapeOf(work[a])'
      <4>1. /\ u.at = "decide" /\ u.name = "reindex" /\ u.docs = w.docs /\ u.todo = w.todo
            /\ u.loaded = w.loaded /\ (u.failed => ~Calm')
        BY <1>5, <1>7, <2>2
      <4>2. ShapeOf(w)
        BY <1>2 DEF OwnOf
      <4>3. QED
        BY <2>2, <3>1, <4>1, <4>2, PlacesAre DEF ShapeOf
    <3>3. \A d \in Doc \ excused' : FreshOf(work[a], d)'
      BY <1>1, <1>2, <1>5, <3>1 DEF OwnOf, FreshOf
    <3>4. \A d \in Doc : BuildOf(work[a], d)' /\ SavedOf(work[a], d)'
      BY <1>5, <3>1 DEF BuildOf, SavedOf
    <3>5. ASSUME NEW d \in Doc \ excused' PROVE ReindexOf(work[a], d)'
      <4>1. ASSUME d \in w.docs, failing = {} PROVE Cut(d)'
        <5>1. InStep(d) /\ w.staged[d] = doc[d].text
          BY <1>1, <1>2, <2>2, <4>1 DEF OwnOf, ReindexOf
        <5>2. w.staged[d] # NoVersion
          BY <1>2, <5>1, Stamps, RowFields DEF DocumentsTyped
        <5>3. Current(chunk[d])' = {doc[d].text}
          BY <1>8, <4>1, <5>1, <5>2 DEF InStep
        <5>4. QED
          BY <1>1, <1>11, <5>1, <5>3 DEF Cut
      <4>2. Cut(d)' => Sound(d)'
        BY DEF Cut, Sound
      <4>3. QED
        BY <1>5, <1>7, <3>1, <4>1, <4>2 DEF ReindexOf
    <3>6. QED
      BY <3>2, <3>3, <3>4, <3>5 DEF OwnOf
  <2>3. QED
    BY <1>2, <2>1, <2>2
<1>13. \A d \in Doc : UnsyncedBy(work[a], d) => UnsyncedBy(work[a], d)'
  BY <1>1 DEF UnsyncedBy
<1>14. QED
  BY <1>1, <1>6, <1>7, <1>10, <1>11, <1>12, <1>13, IndexMoved

(* The manifests a synchronisation writes. *)
LEMMA Manifests ==
  ASSUME NEW m \in Manifest, NEW t \in Version
  PROVE  /\ Staged(m, t) \in Manifest /\ Staged(m, t).active /\ Staged(m, t).sha = t
         /\ Staged(m, t).status \notin {"none", "removed"}
         /\ Removed(m) \in Manifest
         /\ (m.active => m.status # "none") => ~Removed(m).active
<1> DEFINE st == IF m.sha = NoVersion THEN "exported" ELSE IF m.sha = t THEN "unchanged" ELSE "updated"
<1>1. st \in ManifestStatus /\ st \notin {"none", "removed"}
  BY DEF ManifestStatus
<1>2. Staged(m, t) = [active |-> TRUE, sha |-> t, status |-> st]
  BY DEF Staged
<1> HIDE DEF st
<1>3. /\ Staged(m, t) \in Manifest /\ Staged(m, t).active /\ Staged(m, t).sha = t
      /\ Staged(m, t).status = st
  BY <1>1, <1>2 DEF Manifest, Stamp
<1>4. Removed(m) \in Manifest /\ ((m.active => m.status # "none") => ~Removed(m).active)
  BY DEF Removed, Manifest, ManifestStatus
<1>5. QED
  BY <1>1, <1>3, <1>4

(* Where an operation is once it has synchronised one more document. *)
LEMMA Synced ==
  ASSUME DocumentsInv, NEW a \in Actor, NEW d \in Doc, SyncManual(a, d)
  PROVE  /\ work' \in [Actor -> WorkRow] /\ \A b \in Actor \ {a} : work'[b] = work[b]
         /\ work'[a].name = work[a].name /\ work'[a].docs = work[a].docs
         /\ work'[a].loaded = work[a].loaded /\ work'[a].failed = work[a].failed
         /\ work'[a].todo \subseteq work[a].docs
         /\ work[a].at = "sync" /\ d \in work[a].docs
         /\ work[a].name \in {"upsert", "reindex", "pipeline"}
         /\ \/ work'[a].at = "sync"
            \/ work[a].name = "upsert" /\ work'[a].at = "judge"
            \/ work[a].name \in {"reindex", "pipeline"} /\ work'[a].at = "stage"
<1> DEFINE w == work[a]
           left == w.todo \ {d}
           next == AfterSync[w.name]
           u1 == [w EXCEPT !.todo = left]
           u2 == [w EXCEPT !.todo = {}]
           u3 == [u2 EXCEPT !.at = next]
<1>1. w.at = "sync" /\ d \in w.todo
  BY DEF SyncManual
<1>2. /\ DocumentsTyped /\ w \in WorkRow /\ OwnOf(w) /\ work \in [Actor -> WorkRow]
      /\ w.todo \subseteq w.docs
  BY DEF DocumentsInv, DocumentsTyped, OwnOf, ShapeOf
<1>3. w.name \in {"upsert", "reindex", "pipeline"}
  BY <1>1, <1>2, WorkFields, PlacesAre DEF OwnOf, ShapeOf
<1>4. work' = [work EXCEPT ![a] = IF w.todo # {d} THEN u1 ELSE u3]
  <2>1. [w EXCEPT !.todo = {}, !.at = next] = u3
    BY <1>2 DEF WorkRow
  <2>2. QED
    BY <1>2, <2>1 DEF SyncManual
<1>5. /\ next \in Place
      /\ \/ w.name = "upsert" /\ next = "judge"
         \/ w.name \in {"reindex", "pipeline"} /\ next = "stage"
  BY <1>3 DEF AfterSync, Place
<1> HIDE DEF next
<1>6. left \in SUBSET Doc /\ left \subseteq w.docs
  BY <1>2, WorkFields
<1> HIDE DEF left
<1>7. /\ u1 \in WorkRow /\ u1.name = w.name /\ u1.at = "sync" /\ u1.docs = w.docs
      /\ u1.loaded = w.loaded /\ u1.failed = w.failed /\ u1.todo \subseteq w.docs
  BY <1>1, <1>2, <1>6, WorkTodo
<1>8. /\ u3 \in WorkRow /\ u3.name = w.name /\ u3.at = next /\ u3.docs = w.docs
      /\ u3.loaded = w.loaded /\ u3.failed = w.failed /\ u3.todo \subseteq w.docs
  <2>1. /\ u2 \in WorkRow /\ u2.name = w.name /\ u2.docs = w.docs
        /\ u2.loaded = w.loaded /\ u2.failed = w.failed /\ u2.todo = {}
    BY <1>2, WorkTodo
  <2> HIDE DEF u2
  <2>2. QED
    BY <1>5, <2>1, WorkAt
<1> HIDE DEF u1, u3
<1>9. CASE w.todo # {d}
  <2>1. work' = [work EXCEPT ![a] = u1]
    BY <1>4, <1>9
  <2>2. QED
    BY <1>1, <1>2, <1>3, <1>7, <2>1
<1>10. CASE w.todo = {d}
  <2>1. work' = [work EXCEPT ![a] = u3]
    BY <1>4, <1>10
  <2>2. QED
    BY <1>1, <1>2, <1>3, <1>5, <1>8, <2>1
<1>11. QED
  BY <1>9, <1>10

(* What an operation that synchronises has made sure of is that the         *)
(* documents it has synchronised are in step.                               *)
LEMMA SyncedOwn ==
  ASSUME DocumentsInv, NEW a \in Actor, NEW d \in Doc, SyncManual(a, d),
         d \notin excused' => (work[a].loaded[d].status = "active" => InStep(d)'),
         UNCHANGED doc, Calm' <=> Calm, excused \subseteq excused'
  PROVE  OwnOf(work[a])'
<1> DEFINE w == work[a]
<1>1. /\ work'[a].name = w.name /\ work'[a].docs = w.docs
      /\ work'[a].loaded = w.loaded /\ work'[a].failed = w.failed
      /\ work'[a].todo \subseteq w.docs
      /\ w.at = "sync" /\ d \in w.docs
      /\ w.name \in {"upsert", "reindex", "pipeline"}
      /\ \/ work'[a].at = "sync"
         \/ w.name = "upsert" /\ work'[a].at = "judge"
         \/ w.name \in {"reindex", "pipeline"} /\ work'[a].at = "stage"
  BY Synced
<1>2. OwnOf(w)
  BY DEF DocumentsInv
<1>3. ShapeOf(work[a])'
  BY <1>1, <1>2, PlacesAre DEF OwnOf, ShapeOf
<1>4. ASSUME NEW e \in Doc \ excused'
      PROVE  (FreshOf(work[a], e) /\ BuildOf(work[a], e) /\ ReindexOf(work[a], e) /\ SavedOf(work[a], e))'
  <2>1. FreshOf(work[a], e)'
    BY <1>1, <1>2 DEF OwnOf, FreshOf
  <2>2. BuildOf(work[a], e)' /\ SavedOf(work[a], e)'
    BY <1>1 DEF BuildOf, SavedOf
  <2>3. ASSUME w.name = "reindex", e \in w.docs PROVE InStep(e)'
    <3>1. e = d /\ w.loaded[d].status = "active"
      BY <1>1, <1>2, <2>3 DEF OwnOf, ShapeOf
    <3>2. QED
      BY <3>1
  <2>4. ReindexOf(work[a], e)'
    BY <1>1, <2>3 DEF ReindexOf
  <2>5. QED
    BY <2>1, <2>2, <2>4
<1>5. QED
  BY <1>3, <1>4 DEF OwnOf

LEMMA SyncManualStep ==
  ASSUME DocumentsInv, NEW a \in Actor, NEW d \in Doc, SyncManual(a, d)
  PROVE  DocumentsInv'
<1> DEFINE w == work[a]
           row == w.loaded[d]
           m == manifest[d]
<1>1. /\ work' \in [Actor -> WorkRow] /\ \A b \in Actor \ {a} : work'[b] = work[b]
      /\ work'[a].docs = w.docs /\ w.at = "sync" /\ d \in w.docs
      /\ w.name \in {"upsert", "reindex", "pipeline"}
  BY Synced
<1>2. /\ UNCHANGED <<doc, changes, mishaps, raced, clashed, runId, runs>>
      /\ Calm' <=> Calm
      /\ \/ /\ row.status = "active"
            /\ manifest' = [manifest EXCEPT ![d] = Staged(m, row.text)]
            /\ Excuse(d, OtherStaged(a, d, row.text))
            /\ UNCHANGED <<chunk, emb>>
         \/ /\ row.status # "active"
            /\ manifest' = [manifest EXCEPT ![d] = Removed(m)]
            /\ UNCHANGED excused
            /\ chunk' = [chunk EXCEPT ![d] = Retired(chunk[d])]
            /\ emb' = [emb EXCEPT ![d] = RetiredOf(emb[d], Current(chunk[d]))]
  BY DEF SyncManual, ids, Calm
<1>3. /\ DocumentsTyped /\ w \in WorkRow /\ OwnOf(w)
      /\ manifest \in [Doc -> Manifest] /\ m \in Manifest /\ row \in Row
      /\ row.text \in Version
      /\ chunk[d] \in [Version -> Life] /\ emb[d] \in [Version -> Life]
  BY WorkFields, RowFields DEF DocumentsInv, DocumentsTyped
<1>4. StagedOf(d)
  BY DEF DocumentsInv
<1>5. excused \subseteq excused' /\ excused' \subseteq Doc
  BY <1>2, <1>3 DEF Excuse, DocumentsTyped
<1>6. d \notin excused' => row.status = doc[d].status /\ row.text = doc[d].text
  BY <1>1, <1>3, <1>5 DEF OwnOf, FreshOf
<1>7. ASSUME NEW n \in Manifest, manifest' = [manifest EXCEPT ![d] = n],
             n.active => n.status \notin {"none", "removed"},
             n.active <=> row.status = "active", n.active => n.sha = row.text,
             chunk' \in [Doc -> [Version -> Life]], emb' \in [Doc -> [Version -> Life]],
             \A e \in Doc \ {d} : chunk'[e] = chunk[e] /\ emb'[e] = emb[e],
             n.active => chunk' = chunk /\ emb' = emb,
             d \notin excused' /\ n.active => ~OtherStaged(a, d, row.text)
      PROVE  DocumentsInv'
  <2>1. manifest'[d] = n /\ manifest' \in [Doc -> Manifest] /\ \A e \in Doc \ {d} : manifest'[e] = manifest[e]
    BY <1>3, <1>7
  <2>2. DocumentsTyped'
    BY <1>1, <1>2, <1>3, <1>5, <1>7, <2>1 DEF DocumentsTyped
  <2>3. d \notin excused' => (row.status = "active" => InStep(d)')
    BY <1>2, <1>6, <1>7, <2>1 DEF InStep
  <2>4. OwnOf(work[a])'
    BY <1>2, <1>5, <2>3, SyncedOwn
  <2>5. \A e \in Doc : StagedOf(e)'
    BY <1>7, <2>1 DEF DocumentsInv, StagedOf
  <2>6. ASSUME NEW e \in Doc \ excused', e # d
        PROVE  Keeps(e) /\ ManifestOf(e)' /\ IndexOf(e)' /\ \A b \in Actor \ {a} : BuildOf(work[b], e)'
    <3>1. /\ InStep(e)' <=> InStep(e)
          /\ Sound(e)' <=> Sound(e)
          /\ Cut(e)' <=> Cut(e)
          /\ Whole(e)' <=> Whole(e)
          /\ Indexed(e)' <=> Indexed(e)
      BY <1>2, <1>7, <2>1, <2>6 DEF InStep, Sound, Cut, Whole, Indexed
    <3>2. Keeps(e)
      BY <1>2, <3>1 DEF Keeps
    <3>3. ~UnsyncedBy(w, e)
      <4>1. w.name = "upsert" => w.docs = {d}
        BY <1>1, <1>3 DEF OwnOf, ShapeOf
      <4>2. QED
        BY <2>6, <4>1 DEF UnsyncedBy
    <3>4. Unsynced(e) => Unsynced(e)'
      BY <1>1, <3>3 DEF Unsynced, UnsyncedBy
    <3>5. ManifestOf(e) /\ IndexOf(e)
      BY <1>5 DEF DocumentsInv
    <3>6. ManifestOf(e)'
      BY <2>1, <2>6, <3>1, <3>4, <3>5 DEF ManifestOf
    <3>7. IndexOf(e)'
      BY <1>2, <3>1, <3>5 DEF IndexOf
    <3>8. ASSUME NEW b \in Actor \ {a} PROVE BuildOf(work[b], e)'
      <4>1. BuildOf(work[b], e)
        BY <1>5 DEF DocumentsInv, OwnOf
      <4>2. QED
        BY <1>1, <2>1, <2>6, <4>1 DEF BuildOf
    <3>9. QED
      BY <3>2, <3>6, <3>7, <3>8
  <2>7. ASSUME d \notin excused'
        PROVE  Keeps(d) /\ ManifestOf(d)' /\ IndexOf(d)' /\ \A b \in Actor \ {a} : BuildOf(work[b], d)'
    <3>1. IndexOf(d)
      BY <1>5, <2>7 DEF DocumentsInv
    <3>2. CASE n.active
      <4>1. InStep(d)'
        BY <1>7, <2>3, <2>7, <3>2
      <4>2. /\ Sound(d) => Sound(d)'
            /\ Cut(d) => Cut(d)'
            /\ Whole(d) => Whole(d)'
        BY <1>2, <1>7, <3>2, <4>1 DEF Sound, Cut, Whole
      <4>3. Keeps(d)
        BY <1>2, <4>1, <4>2 DEF Keeps
      <4>4. ManifestOf(d)' /\ IndexOf(d)'
        BY <1>2, <3>1, <4>1, <4>2 DEF ManifestOf, IndexOf, Indexed
      <4>5. ASSUME NEW b \in Actor \ {a} PROVE BuildOf(work[b], d)'
        BY <1>1, <1>7, <2>1, <2>7, <3>2 DEF OtherStaged, BuildOf
      <4>6. QED
        BY <4>3, <4>4, <4>5
    <3>3. CASE ~n.active
      <4>1. doc[d].status # "active" /\ doc'[d] = doc[d]
        BY <1>2, <1>6, <1>7, <2>7, <3>3
      <4>2. ~InStep(d) /\ ~manifest'[d].active
        BY <2>1, <3>3, <4>1 DEF InStep
      <4>3. Keeps(d)
        BY <4>1, <4>2 DEF Keeps, Sound, Cut, Whole
      <4>4. ManifestOf(d)' /\ IndexOf(d)'
        BY <3>1, <4>1, <4>2 DEF ManifestOf, IndexOf, Indexed, Sound
      <4>5. \A b \in Actor \ {a} : BuildOf(work[b], d)'
        BY <4>2 DEF BuildOf
      <4>6. QED
        BY <4>3, <4>4, <4>5
    <3>4. QED
      BY <3>2, <3>3
  <2>8. Carried(a)
    BY <1>1, <1>2, <1>5, <2>2, <2>4, <2>5, <2>6, <2>7 DEF Carried
  <2>9. QED
    BY <2>8, Assembled
<1>8. CASE row.status = "active"
  <2> DEFINE n == Staged(m, row.text)
  <2>1. n \in Manifest /\ n.active /\ n.sha = row.text /\ n.status \notin {"none", "removed"}
    BY <1>3, Manifests
  <2>2. manifest' = [manifest EXCEPT ![d] = n] /\ chunk' = chunk /\ emb' = emb
    BY <1>2, <1>8
  <2> HIDE DEF n
  <2>3. d \notin excused' => ~OtherStaged(a, d, row.text)
    BY <1>2, <1>8 DEF Excuse
  <2>4. chunk' \in [Doc -> [Version -> Life]] /\ emb' \in [Doc -> [Version -> Life]]
    BY <1>3, <2>2 DEF DocumentsTyped
  <2>5. QED
    BY <1>7, <1>8, <2>1, <2>2, <2>3, <2>4
<1>9. CASE row.status # "active"
  <2> DEFINE n == Removed(m)
             c == Retired(chunk[d])
             g == RetiredOf(emb[d], Current(chunk[d]))
  <2>1. n \in Manifest /\ ~n.active
    BY <1>3, <1>4, Manifests DEF StagedOf
  <2>2. /\ manifest' = [manifest EXCEPT ![d] = n]
        /\ chunk' = [chunk EXCEPT ![d] = c] /\ emb' = [emb EXCEPT ![d] = g]
    BY <1>2, <1>9
  <2>3. c \in [Version -> Life] /\ g \in [Version -> Life]
    BY <1>3, Lives
  <2> HIDE DEF n, c, g
  <2>4. /\ chunk' \in [Doc -> [Version -> Life]] /\ emb' \in [Doc -> [Version -> Life]]
        /\ \A e \in Doc \ {d} : chunk'[e] = chunk[e] /\ emb'[e] = emb[e]
    BY <1>3, <2>2, <2>3 DEF DocumentsTyped
  <2>5. QED
    BY <1>7, <1>9, <2>1, <2>2, <2>4
<1>10. QED
  BY <1>8, <1>9

(* The row of d is written, by an upsert that begins and has still to       *)
(* synchronise it, or alone: then d is excused.                             *)
LEMMA Rewritten ==
  ASSUME DocumentsInv, NEW d \in Doc, NEW row \in Row, doc' = [doc EXCEPT ![d] = row],
         DocumentsTyped', UNCHANGED <<manifest, chunk, emb>>, Calm' <=> Calm,
         excused \subseteq excused', excused' \subseteq excused \cup {d},
         \A b \in Actor : work'[b] = work[b] \/ (OwnOf(work[b])' /\ work[b].at = "idle"),
         d \notin excused' =>
           /\ row.lifecycle # "indexed" /\ \E a \in Actor : UnsyncedBy(work[a], d)'
           /\ \A b \in Actor : work'[b] = work[b] => d \notin work[b].docs
  PROVE  DocumentsInv'
<1>1. doc \in [Doc -> Row]
  BY DEF DocumentsInv, DocumentsTyped
<1>2. doc'[d] = row /\ \A e \in Doc \ {d} : doc'[e] = doc[e]
  BY <1>1
<1>3. ASSUME NEW e \in Doc, e # d
      PROVE  /\ InStep(e)' <=> InStep(e)
             /\ Sound(e)' <=> Sound(e)
             /\ Cut(e)' <=> Cut(e)
             /\ Whole(e)' <=> Whole(e)
             /\ Indexed(e)' <=> Indexed(e)
             /\ doc'[e] = doc[e]
  BY <1>2, <1>3 DEF InStep, Sound, Cut, Whole, Indexed
<1>4. ASSUME NEW b \in Actor, work'[b] = work[b] PROVE OwnOf(work[b])'
  <2>1. OwnOf(work[b])
    BY DEF DocumentsInv
  <2>2. ShapeOf(work[b])'
    BY <1>1, <1>4, <2>1 DEF OwnOf, ShapeOf
  <2>3. ASSUME NEW e \in Doc \ excused'
        PROVE  (FreshOf(work[b], e) /\ BuildOf(work[b], e) /\ ReindexOf(work[b], e) /\ SavedOf(work[b], e))'
    <3>1. /\ FreshOf(work[b], e) /\ BuildOf(work[b], e) /\ ReindexOf(work[b], e)
          /\ SavedOf(work[b], e)
      BY <2>1 DEF OwnOf
    <3>2. BuildOf(work[b], e)'
      BY <1>4, <3>1 DEF BuildOf
    <3>3. CASE e = d
      <4>1. e \notin work'[b].docs
        BY <1>4, <3>3
      <4>2. QED
        BY <3>2, <4>1 DEF FreshOf, ReindexOf, SavedOf
    <3>4. CASE e # d
      <4>1. FreshOf(work[b], e)'
        BY <1>3, <1>4, <3>1, <3>4 DEF FreshOf
      <4>2. ReindexOf(work[b], e)'
        BY <1>1, <1>3, <1>4, <3>1, <3>4 DEF ReindexOf
      <4>3. SavedOf(work[b], e)'
        BY <1>3, <1>4, <3>1, <3>4 DEF SavedOf
      <4>4. QED
        BY <3>2, <4>1, <4>2, <4>3
    <3>5. QED
      BY <3>3, <3>4
  <2>4. QED
    BY <2>2, <2>3 DEF OwnOf
<1>5. \A e \in Doc : StagedOf(e)'
  BY DEF DocumentsInv, StagedOf
<1>6. ASSUME NEW e \in Doc \ excused' PROVE ManifestOf(e)' /\ IndexOf(e)'
  <2>1. CASE e = d
    <3>1. Unsynced(d)'
      BY <2>1 DEF Unsynced
    <3>2. QED
      BY <1>2, <2>1, <3>1 DEF ManifestOf, IndexOf
  <2>2. CASE e # d
    <3>1. ManifestOf(e) /\ IndexOf(e)
      BY DEF DocumentsInv
    <3>2. Unsynced(e) => Unsynced(e)'
      BY DEF Unsynced, UnsyncedBy
    <3>3. ManifestOf(e)'
      BY <1>3, <2>2, <3>1, <3>2 DEF ManifestOf
    <3>4. IndexOf(e)'
      BY <1>3, <2>2, <3>1 DEF IndexOf
    <3>5. QED
      BY <3>3, <3>4
  <2>3. QED
    BY <2>1, <2>2
<1>7. QED
  BY <1>4, <1>5, <1>6 DEF DocumentsInv

LEMMA UpsertedRow ==
  ASSUME NEW r \in Row, NEW text \in Version, NEW status \in DocStatus
  PROVE  /\ Upserted(r, text, status) \in Row
         /\ Upserted(r, text, status).status = status /\ Upserted(r, text, status).text = text
         /\ Upserted(r, text, status).lifecycle \in {"stale", "disabled"}
<1> DEFINE l == IF r.indexed \notin {NoVersion, text} \/ status = "active" THEN "stale" ELSE "disabled"
           r1 == [r EXCEPT !.status = status]
           r2 == [r1 EXCEPT !.text = text]
           r3 == [r2 EXCEPT !.content = text]
           u == [r3 EXCEPT !.lifecycle = l]
<1>1. Upserted(r, text, status) = u
  BY DEF Upserted
<1>2. l \in Lifecycle /\ l \in {"stale", "disabled"} /\ text \in Stamp
  BY DEF Lifecycle, Stamp
<1> HIDE DEF l
<1>3. r1 \in Row /\ r1.status = status
  BY RowUpdates DEF Row
<1> HIDE DEF r1
<1>4. r2 \in Row /\ r2.status = status /\ r2.text = text
  BY <1>3, RowUpdates DEF Row
<1> HIDE DEF r2
<1>5. r3 \in Row /\ r3.status = status /\ r3.text = text
  BY <1>2, <1>4, RowUpdates DEF Row
<1> HIDE DEF r3
<1>6. u \in Row /\ u.status = status /\ u.text = text /\ u.lifecycle = l
  BY <1>2, <1>5, RowUpdates DEF Row
<1> HIDE DEF u
<1>7. QED
  BY <1>1, <1>2, <1>6

LEMMA UpsertStep ==
  ASSUME DocumentsInv, NEW a \in Actor, NEW d \in Doc, NEW text \in Version,
         NEW status \in DocStatus, Upsert(a, d, text, status)
  PROVE  DocumentsInv'
<1> DEFINE row == Upserted(doc[d], text, status)
<1>1. /\ Begin(a, "upsert", "sync", {d}, doc') /\ doc' = [doc EXCEPT ![d] = row]
      /\ changes < MaxChanges /\ changes' = changes + 1
      /\ excused' = IF Held(a, d) THEN excused \cup {d} ELSE excused
      /\ UNCHANGED <<manifest, chunk, emb, mishaps, raced, clashed, runId, runs>>
      /\ Calm' <=> Calm
  BY DEF Upsert, Change, Excuse, ids, Calm
<1>2. DocumentsTyped /\ doc \in [Doc -> Row] /\ doc[d] \in Row
  BY DEF DocumentsInv, DocumentsTyped
<1>3. row \in Row /\ row.lifecycle \in {"stale", "disabled"}
  BY <1>2, UpsertedRow
<1> HIDE DEF row
<1>4. doc' \in [Doc -> Row] /\ doc'[d] = row
  BY <1>1, <1>2, <1>3
<1> DEFINE found == doc'
<1>5. \A e \in {d} : found[e] \in Row
  BY <1>4
<1>6. Begin(a, "upsert", "sync", {d}, found)
  BY <1>1
<1> HIDE DEF found
<1>7. /\ work[a].at = "idle"
      /\ work' \in [Actor -> WorkRow] /\ \A b \in Actor \ {a} : work'[b] = work[b]
      /\ work'[a].name = "upsert" /\ work'[a].at = "sync" /\ work'[a].docs = {d}
      /\ work'[a].todo = {d} /\ ~work'[a].failed
      /\ work'[a].loaded[d].status = found[d].status
      /\ work'[a].loaded[d].text = found[d].text
  BY <1>2, <1>5, <1>6, Begun DEF Place
<1>8. DocumentsTyped'
  BY <1>1, <1>2, <1>4, <1>7 DEF DocumentsTyped
<1>9. ShapeOf(work[a])'
  BY <1>7, PlacesAre DEF ShapeOf
<1>10. \A e \in Doc \ excused' : FreshOf(work[a], e)'
  BY <1>7 DEF FreshOf, found
<1>11. OwnOf(work[a])'
  BY <1>7, <1>9, <1>10, Beginning
<1>12. UnsyncedBy(work[a], d)'
  BY <1>7 DEF UnsyncedBy
<1>13. ASSUME d \notin excused', NEW b \in Actor, work'[b] = work[b]
       PROVE  d \notin work[b].docs
  <2>1. ~Held(a, d)
    BY <1>1, <1>13
  <2>2. b # a
    BY <1>7, <1>13
  <2>3. QED
    BY <2>1, <2>2 DEF Held
<1>14. QED
  BY <1>1, <1>3, <1>7, <1>8, <1>11, <1>12, <1>13, Rewritten

LEMMA SetAloneStep ==
  ASSUME DocumentsInv, NEW d \in Doc, NEW text \in Version, NEW status \in DocStatus,
         SetAlone(d, text, status)
  PROVE  DocumentsInv'
<1> DEFINE r1 == [doc[d] EXCEPT !.text = text]
           row == [r1 EXCEPT !.status = status]
<1>1. /\ doc' = [doc EXCEPT ![d] = row] /\ excused' = excused \cup {d}
      /\ changes < MaxChanges /\ changes' = changes + 1
      /\ UNCHANGED <<manifest, chunk, emb, work, mishaps, raced, clashed, runId, runs>>
      /\ Calm' <=> Calm
  BY DEF SetAlone, Change, Excuse, ids, Calm
<1>2. DocumentsTyped /\ doc \in [Doc -> Row] /\ doc[d] \in Row
  BY DEF DocumentsInv, DocumentsTyped
<1>3. row \in Row
  <2>1. r1 \in Row
    BY <1>2, RowUpdates
  <2> HIDE DEF r1
  <2>2. QED
    BY <2>1, RowUpdates
<1> HIDE DEF row
<1>4. DocumentsTyped'
  BY <1>1, <1>2, <1>3 DEF DocumentsTyped
<1>5. QED
  BY <1>1, <1>3, <1>4, Rewritten

LEMMA DocumentsBegin == DocumentsInit => DocumentsInv
<1> SUFFICES ASSUME DocumentsInit PROVE DocumentsInv
  OBVIOUS
<1>1. /\ doc \in [Doc -> {Blank, Imported}]
      /\ manifest = [d \in Doc |-> IF doc[d] = Imported
                                   THEN [active |-> TRUE, sha |-> 1, status |-> "exported"]
                                   ELSE [active |-> FALSE, sha |-> NoVersion, status |-> "none"]]
      /\ chunk = [d \in Doc |-> [v \in Version |-> "none"]]
      /\ emb = [d \in Doc |-> [v \in Version |-> "none"]]
      /\ work = [a \in Actor |-> NoOp]
      /\ runId = NoRun /\ runs = {} /\ raced = [a \in Actor |-> {}]
      /\ changes = 0 /\ mishaps = 0 /\ excused = {} /\ clashed = {}
  BY DEF DocumentsInit
<1>2. /\ Imported \in Row /\ Imported.status = "active" /\ Imported.text = 1
      /\ Imported.lifecycle = "stale" /\ Blank.lifecycle = "new"
  BY Blanks, Stamps DEF Imported, Blank, Row, Lifecycle, Stamp
<1>3. ASSUME NEW d \in Doc
      PROVE  /\ doc[d] \in Row /\ manifest[d] \in Manifest /\ doc[d].lifecycle # "indexed"
             /\ manifest[d].active => InStep(d) /\ manifest[d].status = "exported"
  <2>1. CASE doc[d] = Imported
    <3>1. manifest[d] = [active |-> TRUE, sha |-> 1, status |-> "exported"]
      BY <1>1, <2>1
    <3>2. QED
      BY <1>2, <2>1, <3>1, Stamps DEF InStep, Manifest, Stamp, ManifestStatus
  <2>2. CASE doc[d] # Imported
    <3>1. doc[d] = Blank
      BY <1>1, <2>2
    <3>2. manifest[d] = [active |-> FALSE, sha |-> NoVersion, status |-> "none"]
      BY <1>1, <2>2
    <3>3. QED
      BY <1>2, <3>1, <3>2, Blanks DEF Manifest, Stamp, ManifestStatus
  <2>3. QED
    BY <2>1, <2>2
<1>4. DocumentsTyped
  <2>1. doc \in [Doc -> Row] /\ manifest \in [Doc -> Manifest]
    BY <1>1, <1>3
  <2>2. chunk \in [Doc -> [Version -> Life]] /\ emb \in [Doc -> [Version -> Life]]
    BY <1>1 DEF Life
  <2>3. work \in [Actor -> WorkRow]
    BY <1>1, Blanks
  <2>4. /\ changes \in 0..MaxChanges /\ mishaps \in 0..MaxMishaps
        /\ runId \in Run \cup {NoRun} /\ runs \subseteq Run
        /\ raced \in [Actor -> SUBSET Doc] /\ excused \subseteq Doc /\ clashed \subseteq Doc
    BY <1>1
  <2>5. QED
    BY <2>1, <2>2, <2>3, <2>4 DEF DocumentsTyped
<1>5. ASSUME NEW a \in Actor PROVE OwnOf(work[a])
  <2>1. work[a] = NoOp
    BY <1>1
  <2>2. QED
    BY <2>1, Blanks, PlacesAre DEF OwnOf, ShapeOf, FreshOf, BuildOf, ReindexOf, SavedOf
<1>6. ASSUME NEW d \in Doc PROVE StagedOf(d) /\ ManifestOf(d) /\ IndexOf(d)
  BY <1>3 DEF StagedOf, ManifestOf, IndexOf
<1>7. QED
  BY <1>4, <1>5, <1>6 DEF DocumentsInv

LEMMA DocumentsStep == DocumentsInv /\ [DocumentsNext]_documentVars => DocumentsInv'
<1> SUFFICES ASSUME DocumentsInv, [DocumentsNext]_documentVars PROVE DocumentsInv'
  OBVIOUS
<1>1. CASE UNCHANGED documentVars
  BY <1>1 DEF documentVars, DocumentsInv, DocumentsTyped, OwnOf, ShapeOf, FreshOf, BuildOf,
              ReindexOf, SavedOf, StagedOf, ManifestOf, IndexOf, Indexed, Calm, Whole, Cut,
              Sound, InStep, Unsynced, UnsyncedBy
<1>2. CASE DocumentsNext
  <2>1. CASE \E d \in Doc, text \in Version, status \in DocStatus : SetAlone(d, text, status)
    BY <2>1, SetAloneStep
  <2>2. ASSUME NEW a \in Actor, Step(a) PROVE DocumentsInv'
    <3>1. CASE \E d \in Doc, text \in Version, status \in DocStatus : Upsert(a, d, text, status)
      BY <3>1, UpsertStep
    <3>2. CASE \E d \in Doc : BeginReindex(a, d)
      BY <3>2, BeginReindexStep
    <3>3. CASE StartPipeline(a)
      BY <3>3, StartPipelineStep
    <3>4. CASE StartIndex(a)
      BY <3>4, StartIndexStep
    <3>5. CASE \E d \in Doc : SyncManual(a, d)
      BY <3>5, SyncManualStep
    <3>6. CASE Judge(a)
      BY <3>6, JudgeStep
    <3>7. CASE SaveJudged(a)
      BY <3>7, SaveJudgedStep
    <3>8. CASE MarkIndexing(a)
      BY <3>8, MarkIndexingStep
    <3>9. CASE LoadStaged(a)
      BY <3>9, LoadStagedStep
    <3>10. CASE \E failing \in SUBSET Doc : BuildChunks(a, failing)
      BY <3>10, BuildChunksStep
    <3>11. CASE Decide(a)
      BY <3>11, DecideStep
    <3>12. CASE Embed(a)
      BY <3>12, EmbedStep
    <3>13. CASE Breaks(a)
      BY <3>13, BreaksStep
    <3>14. CASE FinishReindex(a)
      BY <3>14, FinishReindexStep
    <3>15. CASE FailReindex(a)
      BY <3>15, FailReindexStep
    <3>16. CASE HideChunks(a)
      BY <3>16, HideChunksStep
    <3>17. CASE Killed(a)
      BY <3>17, KilledStep
    <3>18. CASE RunTaken(a)
      BY <3>18, RunTakenStep
    <3>19. CASE FinishUnrecorded(a)
      BY <3>19, FinishUnrecordedStep
    <3>20. QED
      BY <2>2, <3>1, <3>2, <3>3, <3>4, <3>5, <3>6, <3>7, <3>8, <3>9, <3>10, <3>11, <3>12,
         <3>13, <3>14, <3>15, <3>16, <3>17, <3>18, <3>19 DEF Step
  <2>3. QED
    BY <1>2, <2>1, <2>2 DEF DocumentsNext
<1>3. QED
  BY <1>1, <1>2

LEMMA DocumentsHold == DocumentsSpec => []DocumentsInv
BY DocumentsBegin, DocumentsStep, PTL DEF DocumentsSpec

(* Every row, manifest, chunk, embedding and operation keeps its type       *)
(* (KnowledgeTypeOK), whoever runs what.                                    *)
THEOREM DocumentsTypeCorrect == DocumentsSpec => []KnowledgeTypeOK
<1>1. ASSUME DocumentsInv PROVE KnowledgeTypeOK
  <2>1. DocumentsTyped
    BY <1>1 DEF DocumentsInv
  <2>2. ASSUME NEW a \in Actor
        PROVE  /\ work[a].at \in Place /\ work[a].loaded \in [Doc -> Row]
               /\ work[a].todo \subseteq work[a].docs /\ work[a].docs \subseteq Doc
               /\ work[a].staged \in [Doc -> Stamp] /\ work[a].pending \in [Doc -> SUBSET Version]
               /\ work[a].run \in Run \cup {NoRun}
    <3>1. work[a] \in WorkRow /\ OwnOf(work[a])
      BY <1>1, <2>1 DEF DocumentsInv, DocumentsTyped
    <3>2. QED
      BY <3>1, WorkFields DEF OwnOf, ShapeOf
  <2>3. QED
    BY <2>1, <2>2 DEF KnowledgeTypeOK, DocumentsTyped, Place
<1>2. QED
  BY <1>1, DocumentsHold, PTL

(* A document that was archived, and that no operation works on, is not     *)
(* found by the vector search (ArchivedIsSilent): a manifest is active only *)
(* for a document in step with it, or while the upsert that withdraws it    *)
(* has not got to it.                                                       *)
THEOREM ArchivedStaysSilent == DocumentsSpec => []ArchivedIsSilent
<1>1. ASSUME DocumentsInv PROVE ArchivedIsSilent
  <2>1. ASSUME NEW d \in Doc, doc[d].status = "archived", AtRest(d), d \notin excused
        PROVE  Searchable(d) = {}
    <3>1. ~Unsynced(d)
      BY <2>1 DEF AtRest, Unsynced, UnsyncedBy
    <3>2. ManifestOf(d)
      BY <1>1, <2>1 DEF DocumentsInv
    <3>3. ~manifest[d].active
      BY <2>1, <3>1, <3>2 DEF ManifestOf, InStep
    <3>4. QED
      BY <3>3 DEF Searchable
  <2>2. QED
    BY <2>1 DEF ArchivedIsSilent
<1>2. QED
  BY <1>1, DocumentsHold, PTL

(* A document the keyword search takes as indexed is found by the vector    *)
(* search with the text of its row, and with no other (UsableIsCurrent).    *)
THEOREM IndexIsCurrent == DocumentsSpec => []UsableIsCurrent
<1>1. ASSUME DocumentsInv PROVE UsableIsCurrent
  <2>1. ASSUME NEW d \in Doc, doc[d].lifecycle = "indexed", d \notin excused
        PROVE  Searchable(d) \subseteq {doc[d].text} /\ (Searchable(d) = {} => mishaps > 0 \/ clashed # {})
    <3>1. Indexed(d) /\ StagedOf(d) /\ mishaps \in Nat
      BY <1>1, <2>1 DEF DocumentsInv, DocumentsTyped, IndexOf
    <3>2. Searchable(d) \subseteq {doc[d].text}
      BY <3>1 DEF Indexed, Sound, Searchable
    <3>3. ASSUME Calm PROVE Searchable(d) # {}
      <4>1. Whole(d)
        BY <3>1, <3>3 DEF Indexed
      <4>2. Searchable(d) = {doc[d].text} \cap Current(emb[d])
        BY <3>1, <4>1 DEF Whole, Cut, InStep, StagedOf, Searchable
      <4>3. QED
        BY <4>1, <4>2 DEF Whole
    <3>4. QED
      BY <3>1, <3>2, <3>3 DEF Calm
  <2>2. QED
    BY <2>1 DEF UsableIsCurrent
<1>2. QED
  BY <1>1, DocumentsHold, PTL

(* The step that marks a document failed is that of a reindex which found   *)
(* the index of its document incomplete.                                    *)
LEMMA FailedForCause ==
  ASSUME DocumentsInv, DocumentsNext, NEW d \in Doc,
         doc'[d].lifecycle = "failed", doc[d].lifecycle # "failed"
  PROVE  d \in excused \/ ~Calm
<1>1. doc \in [Doc -> Row] /\ doc'[d] # doc[d]
  BY DEF DocumentsInv, DocumentsTyped
<1>2. CASE \E e \in Doc, text \in Version, status \in DocStatus : SetAlone(e, text, status)
  <2>1. PICK e \in Doc, text \in Version, status \in DocStatus :
          doc' = [doc EXCEPT ![e] = [doc[e] EXCEPT !.text = text, !.status = status]]
    BY <1>2 DEF SetAlone, Change
  <2>2. doc'[d].lifecycle = doc[d].lifecycle
    BY <1>1, <2>1 DEF Row
  <2>3. QED
    BY <2>2
<1>3. ASSUME NEW a \in Actor, Step(a) PROVE d \in excused \/ ~Calm
  <2>1. CASE \E e \in Doc, text \in Version, status \in DocStatus : Upsert(a, e, text, status)
    <3>1. PICK e \in Doc, text \in Version, status \in DocStatus :
            doc' = [doc EXCEPT ![e] = Upserted(doc[e], text, status)]
      BY <2>1 DEF Upsert, Change
    <3>2. Upserted(doc[e], text, status).lifecycle # "failed"
      BY <1>1, UpsertedRow
    <3>3. QED
      BY <1>1, <3>1, <3>2
  <2>2. CASE SaveJudged(a)
    <3>1. PICK e \in Doc : work[a].docs = {e} /\ Its(a) = e /\ work[a].loaded[e].lifecycle # "failed"
      <4>1. DocumentsTyped /\ work[a] \in WorkRow /\ OwnOf(work[a]) /\ work[a].at = "save"
        BY <2>2 DEF DocumentsInv, DocumentsTyped, SaveJudged
      <4>2. work[a].name = "upsert"
        BY <4>1, WorkFields, PlacesAre DEF OwnOf, ShapeOf
      <4>3. PICK e \in Doc : work[a].docs = {e}
        BY <4>1, <4>2 DEF OwnOf, ShapeOf
      <4>4. QED
        BY <4>1, <4>3, ItsDocument DEF OwnOf, ShapeOf
    <3>2. doc'[d].lifecycle \in {doc[d].lifecycle, work[a].loaded[e].lifecycle}
      BY <1>1, <2>2, <3>1 DEF SaveJudged, Row
    <3>3. QED
      BY <3>1, <3>2
  <2>3. CASE MarkIndexing(a)
    BY <1>1, <2>3 DEF MarkIndexing, Row
  <2>4. CASE FinishReindex(a)
    BY <1>1, <2>4 DEF FinishReindex, IndexedRow, Row
  <2>5. CASE FailReindex(a)
    <3>1. work[a].at = "verify" /\ ~Succeeds(a)
      BY <2>5 DEF FailReindex
    <3>2. PICK e \in Doc : work[a].docs = {e} /\ Its(a) = e
      BY <3>1, ReindexDocument
    <3>3. d = e
      BY <1>1, <2>5, <3>2 DEF FailReindex
    <3>4. QED
      BY <3>1, <3>2, <3>3, FailureHasCause
  <2>6. CASE FinishUnrecorded(a)
    BY <1>1, <2>6 DEF FinishUnrecorded, IndexedRow, Row
  <2>7. CASE doc' = doc
    BY <1>1, <2>7
  <2>8. QED
    BY <1>3, <2>1, <2>2, <2>3, <2>4, <2>5, <2>6, <2>7
    DEF Step, BeginReindex, StartPipeline, StartIndex, SyncManual, Judge, LoadStaged,
        BuildChunks, Decide, RunTaken, Embed, Breaks, HideChunks, Killed
<1>4. QED
  BY <1>2, <1>3 DEF DocumentsNext

(* A reindex marks its document failed only when a statement, a text or a   *)
(* provider has failed, a process was killed, the row was changed under it, *)
(* a build lost the race of inserting its chunks, or its index run took the *)
(* id of an earlier one (FailsForCause): nothing else that crosses it       *)
(* undoes what it has made sure of.                                         *)
THEOREM FailuresHaveCause == DocumentsSpec => FailsForCause
<1>1. ASSUME DocumentsInv, DocumentsNext
      PROVE  \A d \in Doc : doc'[d].lifecycle = "failed" /\ doc[d].lifecycle # "failed" =>
               d \in excused \/ mishaps > 0 \/ clashed # {}
  <2>1. mishaps \in Nat
    BY <1>1 DEF DocumentsInv, DocumentsTyped
  <2>2. QED
    BY <1>1, <2>1, FailedForCause DEF Calm
<1>2. ASSUME DocumentsInv, [DocumentsNext]_documentVars
      PROVE  [\A d \in Doc : doc'[d].lifecycle = "failed" /\ doc[d].lifecycle # "failed" =>
                d \in excused \/ mishaps > 0 \/ clashed # {}]_documentVars
  BY <1>1, <1>2
<1>3. QED
  BY <1>2, DocumentsHold, PTL DEF DocumentsSpec, FailsForCause
==============================================================================
