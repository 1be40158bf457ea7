--------------------------- MODULE RagOperations ---------------------------
(***************************************************************************)
(* One tenant's RAG operations: the requests an operator makes at the      *)
(* portal, the workers that execute them (rag/operations.py), the commands *)
(* sync_tenant_rag and index_tenant_rag, and the manual reindex of a       *)
(* document (services/lifecycle.py).  All of them end in one of two        *)
(* pipelines, sync (rag/sync.py) and index (rag/indexing.py), and each     *)
(* pipeline's lock is a status of the tenant's configuration row:          *)
(* "running", until somebody saves another status or its timeout passes.   *)
(*                                                                         *)
(* What the pipelines do to manifests, chunks and embeddings is left out,  *)
(* and so are TenantRagIndexRun rows: an exception of the index stands for *)
(* one that finds its run_id taken.                                        *)
(* Leases and lock timeouts are separate settings: each passes by itself.  *)
(***************************************************************************)
EXTENDS Naturals, FiniteSets

CONSTANTS
  Request,      (* requests of the tenant                                  *)
  Worker,       (* processes of process_tenant_rag_operations              *)
  Command,      (* other processes: the two commands, the manual reindex   *)
  NoOne,
  Operations,   (* the operations asked for                                *)
  DryRun,       (* values of LIVIA_RAG_OPERATIONS_DRY_RUN considered       *)
  MaxAttempts,  (* LIVIA_RAG_OPERATIONS_MAX_ATTEMPTS                       *)
  MaxCommands,  (* bound: runs of commands and of the manual reindex       *)
  MaxOutlived,  (* bound: leases and locks that expire under a live process *)
  MaxCrashes    (* bound: processes that die                               *)

Process == Worker \cup Command

(* SYNC_OPERATION_MODES; the first two read the tenant's Drive folder. *)
DriveModes == {"inventory", "sync_export"}
SyncModes == DriveModes \cup {"build_chunks"}
Operation == SyncModes \cup {"index_embeddings", "full_reindex"}

ASSUME RagAssumption ==
  /\ Worker \cap Command = {}
  /\ NoOne \notin Request \cup Process
  /\ Operations \subseteq Operation
  /\ DryRun \subseteq BOOLEAN
  /\ MaxAttempts \in Nat \ {0}
  /\ {MaxCommands, MaxOutlived, MaxCrashes} \subseteq Nat

VARIABLES
  request,    (* TenantRagOperationRequest rows                            *)
  lock,       (* TenantRagConfiguration: last_inventory_status and _index_ *)
              (* status, and whether the start of each is recent           *)
  pc,
  job,        (* the request each worker executes                          *)
  stale,      (* the expired requests each worker's recovery has listed    *)
  result,     (* the outcome of a worker's pipelines so far                *)
  commands, outlived, crashes,
  (* History, read by properties only: *)
  holder,     (* who is in each pipeline with its lock                     *)
  exposed,    (* processes in a pipeline whose lock timed out, or was      *)
              (* overwritten by somebody else                              *)
  recovered,  (* requests that were recovered as stale                     *)
  reported,   (* requests whose worker has saved its result                *)
  unaudited,  (* requests whose worker could not audit the result it saved *)
  did         (* the outcomes of each request's pipelines                  *)

rows == <<request, lock>>
local == <<pc, job, stale, result>>
bounds == <<commands, outlived, crashes>>
history == <<holder, exposed, recovered, reported, unaudited, did>>
vars == <<rows, local, bounds, history>>

Pipeline == {"sync", "index"}
Outcome == {"success", "partial", "failed"}
Active == {"pending", "running"}
Terminal == {"succeeded", "partial", "failed"}

NewRequest(op, dry, st) ==
  [op |-> op, dry |-> dry, status |-> st, lease |-> "none", attempts |-> 0]

(* The pc of a process inside pipeline s, and about to mark it as failed. *)
Inside(s) == IF s = "sync" THEN "syncing" ELSE "indexing"
Marking(s) == IF s = "sync" THEN "mark_sync" ELSE "mark_index"

Live(s) == {p \in Process : pc[p] = Inside(s)}

(* Mutations, one plausible slip each: the lock ignored, the recovery's    *)
(* filter on the wrong status, no second look in the recovery, no status   *)
(* check in a claim, the last pipeline's outcome alone.                    *)
BusyNever(s) == FALSE
ExpiredPending(r) == request[r].status = "pending" /\ request[r].lease = "expired"
StillStaleAsListed(r) == TRUE
ClaimableUnchecked(r) == request[r].status \in {"pending", "running"}
CombineLast(a, b) == b

(* The check at the head of acquire_tenant_sync_lock and _index_lock. *)
Busy(s) == lock[s].status = "running" /\ lock[s].fresh

(* _assert_no_pipeline_lock *)
PipelineLocked == \E s \in Pipeline : Busy(s)

(* The filter of recover_stale_operation_requests, and the second look     *)
(* under the row's lock.                                                   *)
Expired(r) == request[r].status = "running" /\ request[r].lease = "expired"
StillStale(r) == Expired(r)

(* execute_operation_request starts a pending request only. *)
Claimable(r) == request[r].status = "pending"

(* The statuses of two pipelines as one. *)
Combine(a, b) ==
  CASE "partial" \in {a, b} -> "partial"
    [] "failed" \in {a, b} -> "failed"
    [] OTHER -> "success"

StatusOf(outcome) == IF outcome = "success" THEN "succeeded" ELSE outcome

FirstStage(r) ==
  LET op == request[r].op
  IN CASE op = "index_embeddings" -> "index"
       [] op = "full_reindex" /\ request[r].dry -> "renew"
       [] op \in SyncModes /\ request[r].dry -> "finish"
       [] OTHER -> "sync"

StageAfter(r, s) == IF s = "sync" /\ request[r].op = "full_reindex" THEN "renew" ELSE "finish"

Goto(p, where) == pc' = [pc EXCEPT ![p] = where]

Rest(p) ==
  /\ Goto(p, "idle")
  /\ job' = [job EXCEPT ![p] = NoOne]
  /\ stale' = [stale EXCEPT ![p] = {}]
  /\ result' = [result EXCEPT ![p] = "success"]

(* Process p leaves the pipeline it is in. *)
Leave(p) ==
  /\ holder' = [s \in Pipeline |-> IF holder[s] = p THEN NoOne ELSE holder[s]]
  /\ exposed' = exposed \ {p}

(* Process p saves a status over lock s, whoever holds it, and is done     *)
(* with the pipeline.                                                      *)
Overwrite(p, s, outcome) ==
  /\ lock' = [lock EXCEPT ![s].status = outcome]
  /\ holder' = [holder EXCEPT ![s] = NoOne]
  /\ exposed' = (exposed \cup ({holder[s]} \ {NoOne})) \ {p}

-----------------------------------------------------------------------------
Init ==
  /\ request = [r \in Request |-> NewRequest("build_chunks", FALSE, "absent")]
  /\ lock = [s \in Pipeline |-> [status |-> "never_run", fresh |-> FALSE]]
  /\ pc = [p \in Process |-> "idle"]
  /\ job = [p \in Process |-> NoOne]
  /\ stale = [p \in Process |-> {}]
  /\ result = [p \in Process |-> "success"]
  /\ commands = 0
  /\ outlived = 0
  /\ crashes = 0
  /\ holder = [s \in Pipeline |-> NoOne]
  /\ exposed = {}
  /\ recovered = {}
  /\ reported = {}
  /\ unaudited = {}
  /\ did = [r \in Request |-> {}]

(* create_operation_request, one transaction under the configuration's     *)
(* lock.                                                                   *)
CreateRequest(r, op, dry) ==
  /\ request[r].status = "absent"
  /\ \A q \in Request : request[q].status \notin Active
  /\ ~PipelineLocked
  /\ request' = [request EXCEPT ![r] = NewRequest(op, dry, "pending")]
  /\ UNCHANGED <<lock, local, bounds, history>>

-----------------------------------------------------------------------------
(* recover_stale_operation_requests: the list, read without a lock ...     *)
ListStale(w) ==
  /\ pc[w] \in {"idle", "picked"}
  /\ stale' = [stale EXCEPT ![w] = {r \in Request : Expired(r)}]
  /\ Goto(w, "recovering")
  /\ UNCHANGED <<rows, job, result, bounds, history>>

(* ... then each row under its lock, if it is still expired. *)
RecoverRow(w, r) ==
  /\ pc[w] = "recovering"
  /\ r \in stale[w]
  /\ stale' = [stale EXCEPT ![w] = @ \ {r}]
  /\ IF StillStale(r)
     THEN /\ request' = [request EXCEPT ![r].status = "failed"]
          /\ recovered' = recovered \cup {r}
     ELSE UNCHANGED <<request, recovered>>
  /\ UNCHANGED <<lock, pc, job, result, bounds, holder, exposed, reported, unaudited, did>>

Recovered(w) == pc[w] = "recovering" /\ stale[w] = {}

(* --recover-stale-only, or nothing to do. *)
Stop(w) ==
  /\ Recovered(w)
  /\ job[w] = NoOne
  /\ Rest(w)
  /\ UNCHANGED <<rows, bounds, history>>

(* process_pending_operation_requests takes a pending request from its     *)
(* list; execute_operation_request recovers once more ...                  *)
PickPending(w, r) ==
  /\ Recovered(w)
  /\ job[w] = NoOne
  /\ request[r].status = "pending"
  /\ job' = [job EXCEPT ![w] = r]
  /\ Goto(w, "picked")
  /\ UNCHANGED <<rows, stale, result, bounds, history>>

(* ... and claims it, unless it is no longer pending.  No code makes a     *)
(* request pending again, so the limit of attempts is never met.           *)
ClaimRequest(w, r) ==
  /\ Recovered(w)
  /\ job[w] = r
  /\ IF ~Claimable(r)
     THEN Rest(w) /\ UNCHANGED request
     ELSE LET n == request[r].attempts + 1
          IN IF n > MaxAttempts
             THEN request' = [request EXCEPT ![r].status = "failed"] /\ Rest(w)
             ELSE /\ request' = [request EXCEPT ![r].status = "running",
                                                ![r].attempts = n,
                                                ![r].lease = "fresh"]
                  /\ Goto(w, FirstStage(r))
                  /\ UNCHANGED <<job, stale, result>>
  /\ UNCHANGED <<lock, bounds, history>>

(* _renew_operation_lease, between the two pipelines of a full reindex: no *)
(* look at whether the lease is still ours.                                *)
RenewLease(w, r) ==
  /\ pc[w] = "renew"
  /\ job[w] = r
  /\ request' = [request EXCEPT ![r].lease = "fresh"]
  /\ Goto(w, "index")
  /\ UNCHANGED <<lock, job, stale, result, bounds, history>>

(* _finalize_request: whatever the row has become.  A result is audited    *)
(* next, a failure ends the execution.                                     *)
Report(w, r) ==
  /\ job[w] = r
  /\ \/ /\ pc[w] = "finish"
        /\ request' = [request EXCEPT ![r].status = StatusOf(result[w])]
        /\ Goto(w, "audit")
        /\ result' = [result EXCEPT ![w] = "success"]
        /\ UNCHANGED <<job, stale>>
     \/ /\ pc[w] \in {"fail", "retract"}
        /\ request' = [request EXCEPT ![r].status = "failed"]
        /\ Rest(w)
  /\ reported' = reported \cup {r}
  /\ UNCHANGED <<lock, bounds, holder, exposed, recovered, unaudited, did>>

Audited(w) ==
  /\ pc[w] = "audit"
  /\ Rest(w)
  /\ UNCHANGED <<rows, bounds, history>>

(* An exception after the pipelines fails the request all the same: of the *)
(* preview a dry run makes, of the audit of the index or of the save; and  *)
(* of the audit of a result that is saved already.                         *)
Stumble(w, r) ==
  /\ job[w] = r
  /\ \/ pc[w] = "finish" /\ Goto(w, "fail") /\ UNCHANGED unaudited
     \/ pc[w] = "audit" /\ Goto(w, "retract") /\ unaudited' = unaudited \cup {r}
  /\ UNCHANGED <<rows, job, stale, result, bounds, holder, exposed, recovered, reported, did>>

-----------------------------------------------------------------------------
(* acquire_tenant_sync_lock, acquire_tenant_index_lock. *)
Acquire(p, s) ==
  /\ pc[p] = s
  /\ ~Busy(s)
  /\ lock' = [lock EXCEPT ![s] = [status |-> "running", fresh |-> TRUE]]
  /\ holder' = [holder EXCEPT ![s] = p]
  /\ Goto(p, Inside(s))
  /\ UNCHANGED <<request, job, stale, result, bounds, exposed, recovered, reported, unaudited, did>>

(* A lock refused to a command ends it; refused to a worker, it is an      *)
(* error like any other of the pipeline's and marks the configuration as   *)
(* failed.  So does a Drive source disabled since the request was made,    *)
(* while an index that is disabled, or an embedding configuration that     *)
(* cannot be loaded, fails the request alone.                              *)
Refused(p, s) ==
  /\ pc[p] = s
  /\ \/ /\ \/ Busy(s)
           \/ s = "sync" /\ (p \in Worker => request[job[p]].op \in DriveModes)
        /\ Goto(p, IF p \in Worker THEN Marking(s) ELSE "idle")
     \/ /\ s = "index"
        /\ p \in Worker
        /\ Goto(p, "fail")
  /\ UNCHANGED <<rows, job, stale, result, bounds, history>>

(* The end of run_sync_for_inventory, run_chunk_build_for_tenant or        *)
(* run_index_for_tenant: their own copy of the configuration is saved.     *)
Complete(p, s, outcome) ==
  /\ pc[p] = Inside(s)
  /\ p \in Worker /\ request[job[p]].dry => outcome = "success"
  /\ Overwrite(p, s, outcome)
  /\ IF p \in Worker
     THEN /\ result' = [result EXCEPT ![p] = Combine(@, outcome)]
          /\ did' = [did EXCEPT ![job[p]] = @ \cup {<<s, outcome>>}]
          /\ Goto(p, StageAfter(job[p], s))
     ELSE Goto(p, "idle") /\ UNCHANGED <<result, did>>
  /\ UNCHANGED <<request, job, stale, bounds, recovered, reported, unaudited>>

(* An exception inside the pipeline.  A command marks the configuration    *)
(* for every one, a worker for the pipeline's own alone: any other leaves  *)
(* the lock running until its timeout.                                     *)
Break(p, s, own) ==
  /\ pc[p] = Inside(s)
  /\ own \/ p \in Worker
  /\ Goto(p, IF own THEN Marking(s) ELSE "fail")
  /\ Leave(p)
  /\ UNCHANGED <<rows, job, stale, result, bounds, recovered, reported, unaudited, did>>

(* mark_configuration_failed, mark_index_failed: no look at who holds the  *)
(* lock.                                                                   *)
MarkFailed(p, s) ==
  /\ pc[p] = Marking(s)
  /\ Overwrite(p, s, "failed")
  /\ Goto(p, IF p \in Worker THEN "fail" ELSE "idle")
  /\ UNCHANGED <<request, job, stale, result, bounds, recovered, reported, unaudited, did>>

-----------------------------------------------------------------------------
(* sync_tenant_rag, index_tenant_rag *)
StartCommand(c, s) ==
  /\ pc[c] = "idle"
  /\ commands < MaxCommands
  /\ commands' = commands + 1
  /\ Goto(c, s)
  /\ UNCHANGED <<rows, job, stale, result, outlived, crashes, history>>

(* reindex_document: both pipelines without their locks ... *)
StartReindex(c) ==
  /\ pc[c] = "idle"
  /\ commands < MaxCommands
  /\ commands' = commands + 1
  /\ Goto(c, "rebuild")
  /\ UNCHANGED <<rows, job, stale, result, outlived, crashes, history>>

(* ... each of which saves its status all the same, ... *)
ReindexStep(c, outcome) ==
  /\ \/ /\ pc[c] = "rebuild"
        /\ outcome # "failed"
        /\ Overwrite(c, "sync", outcome)
        /\ Goto(c, "reembed")
     \/ /\ pc[c] = "reembed"
        /\ Overwrite(c, "index", outcome)
        /\ Goto(c, "idle")
  /\ UNCHANGED <<request, job, stale, result, bounds, recovered, reported, unaudited, did>>

(* ... or an error, which the document alone remembers. *)
ReindexFails(c) ==
  /\ pc[c] \in {"rebuild", "reembed"}
  /\ Goto(c, "idle")
  /\ UNCHANGED <<rows, job, stale, result, bounds, history>>

-----------------------------------------------------------------------------
(* Time: what nobody works on any more always expires in the end, what a   *)
(* live process holds at most MaxOutlived times.                           *)
Outlives(alive) ==
  /\ alive => outlived < MaxOutlived
  /\ outlived' = outlived + (IF alive THEN 1 ELSE 0)

(* From the claim to the first save of a result. *)
Executing(w) == job[w] # NoOne /\ pc[w] \notin {"picked", "recovering", "audit", "retract"}

LeaseExpires(r) ==
  /\ request[r].status = "running"
  /\ request[r].lease = "fresh"
  /\ Outlives(\E w \in Worker : job[w] = r /\ Executing(w))
  /\ request' = [request EXCEPT ![r].lease = "expired"]
  /\ UNCHANGED <<lock, local, commands, crashes, history>>

LockTimesOut(s) ==
  /\ Busy(s)
  /\ Outlives(holder[s] # NoOne)
  /\ lock' = [lock EXCEPT ![s].fresh = FALSE]
  /\ holder' = [holder EXCEPT ![s] = NoOne]
  /\ exposed' = exposed \cup ({holder[s]} \ {NoOne})
  /\ UNCHANGED <<request, local, commands, crashes, recovered, reported, unaudited, did>>

Crash(p) ==
  /\ pc[p] # "idle"
  /\ crashes < MaxCrashes
  /\ crashes' = crashes + 1
  /\ Rest(p)
  /\ Leave(p)
  /\ UNCHANGED <<rows, commands, outlived, recovered, reported, unaudited, did>>

-----------------------------------------------------------------------------
PipelineStep(p) ==
  \E s \in Pipeline :
    \/ Acquire(p, s)
    \/ Refused(p, s)
    \/ \E outcome \in Outcome :
         (s = "sync" => outcome # "failed") /\ Complete(p, s, outcome)
    \/ \E own \in BOOLEAN : Break(p, s, own)
    \/ MarkFailed(p, s)

WorkerStep(w) ==
  \/ ListStale(w)
  \/ Stop(w)
  \/ \E r \in Request :
       \/ RecoverRow(w, r)
       \/ PickPending(w, r)
       \/ ClaimRequest(w, r)
       \/ RenewLease(w, r)
       \/ Report(w, r)
       \/ Stumble(w, r)
  \/ Audited(w)
  \/ PipelineStep(w)

CommandStep(c) ==
  \/ \E s \in Pipeline : StartCommand(c, s)
  \/ StartReindex(c)
  \/ \E outcome \in Outcome : ReindexStep(c, outcome)
  \/ ReindexFails(c)
  \/ PipelineStep(c)

Next ==
  \/ \E r \in Request, op \in Operations, dry \in DryRun : CreateRequest(r, op, dry)
  \/ \E w \in Worker : WorkerStep(w)
  \/ \E c \in Command : CommandStep(c)
  \/ \E r \in Request : LeaseExpires(r)
  \/ \E s \in Pipeline : LockTimesOut(s)
  \/ \E p \in Process : Crash(p)

Spec == Init /\ [][Next]_vars

(* Time passes, a worker that runs goes on, the timer starts workers again *)
(* and again, and not all of them with --recover-stale-only.               *)
Fairness ==
  /\ \A w \in Worker : WF_vars(WorkerStep(w))
  /\ SF_vars(\E w \in Worker, r \in Request : PickPending(w, r))
  /\ \A r \in Request : WF_vars(LeaseExpires(r))

FairSpec == Spec /\ Fairness

-----------------------------------------------------------------------------
RequestRow ==
  [op : Operation, dry : BOOLEAN, status : {"absent"} \cup Active \cup Terminal,
   lease : {"none", "fresh", "expired"}, attempts : 0..MaxAttempts]

RagTypeOK ==
  /\ request \in [Request -> RequestRow]
  /\ lock \in [Pipeline -> [status : {"never_run", "running"} \cup Outcome, fresh : BOOLEAN]]
  /\ pc \in [Process -> {"idle", "recovering", "picked", "sync", "syncing", "mark_sync",
                         "renew", "index", "indexing", "mark_index", "finish", "fail",
                         "audit", "retract", "rebuild", "reembed"}]
  /\ job \in [Process -> Request \cup {NoOne}]
  /\ stale \in [Process -> SUBSET Request]
  /\ result \in [Process -> Outcome]
  /\ commands \in 0..MaxCommands
  /\ outlived \in 0..MaxOutlived
  /\ crashes \in 0..MaxCrashes
  /\ holder \in [Pipeline -> Process \cup {NoOne}]
  /\ exposed \subseteq Process
  /\ recovered \subseteq Request
  /\ reported \subseteq Request
  /\ unaudited \subseteq Request
  /\ did \in [Request -> SUBSET (Pipeline \X Outcome)]

(* Two processes are in one pipeline at a time, both with its lock, only   *)
(* if one of them outlived the timeout or had its lock overwritten by an   *)
(* operation that was refused, by a manual reindex or by an earlier run    *)
(* (acquire_tenant_sync_lock, acquire_tenant_index_lock).                  *)
PipelinesExclude ==
  \A s \in Pipeline : \A p, q \in Live(s) : p # q => {p, q} \cap exposed # {}

(* Two requests are executed at a time only after one of them was          *)
(* recovered as stale, and no request is ever executed twice: not by two   *)
(* workers that picked it together, and not after its worker died.         *)
OneExecution ==
  /\ \A v, w \in Worker : v # w /\ Executing(v) /\ Executing(w) =>
       job[v] # job[w] /\ {job[v], job[w]} \cap recovered # {}
  /\ \A r \in Request : request[r].attempts < 2

(* A request is made only while nobody works in a pipeline under a lock    *)
(* that still protects it, whether for a request recovered as stale, a     *)
(* full reindex between its pipelines or a command (create_operation_      *)
(* request).                                                               *)
NewRequestAlone ==
  [][\A r \in Request : request[r].status = "absent" /\ request'[r].status = "pending" =>
       \A s \in Pipeline : Live(s) \subseteq exposed]_vars

(* A finished request changes for two causes only: its worker, late,       *)
(* reports for the first time over the failure that a recovery wrote; or   *)
(* the worker could not audit the result it had saved, and makes a failure *)
(* of it (recover_stale_operation_requests, execute_operation_request).    *)
FinishedForCause ==
  [][\A r \in Request :
       request[r].status \in Terminal /\ request'[r].status # request[r].status =>
         \/ r \in recovered /\ r \notin reported /\ r \in reported'
         \/ request'[r].status = "failed" /\ r \in reported \cap unaudited]_vars

(* A real operation that shows succeeded went through every pipeline it    *)
(* stands for, and each of them ended without a partial failure.           *)
Needed(op) ==
  CASE op \in SyncModes -> {"sync"}
    [] op = "index_embeddings" -> {"index"}
    [] OTHER -> Pipeline

SucceededIsWhole ==
  \A r \in Request : request[r].status = "succeeded" /\ ~request[r].dry =>
    did[r] = Needed(request[r].op) \X {"success"}

(* Every request ends, whatever crashes: executed, refused or recovered    *)
(* (process_tenant_rag_operations under its timer).                        *)
RequestsSettle ==
  \A r \in Request : request[r].status = "pending" ~> request[r].status \in Terminal
=============================================================================
