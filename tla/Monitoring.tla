----------------------------- MODULE Monitoring -----------------------------
(***************************************************************************)
(* Operational monitoring (knowledge_base/rag/operational_monitoring.py):  *)
(* processes started by a timer, an operator's command or the portal       *)
(* recover the batches whose lease expired, take PostgreSQL's advisory     *)
(* lock, open a batch and work through the tenants, one run row for each.  *)
(* The advisory lock belongs to the database session: it outlives an       *)
(* exception and is gone when the connection is.                           *)
(*                                                                         *)
(* What a tenant's run does (the alerts and their queue) is the module     *)
(* OperationalAlerts; gates, limits and batches that are skipped at once   *)
(* leave a row behind that nothing reads, and are left out.                *)
(***************************************************************************)
EXTENDS Naturals, FiniteSets

CONSTANTS
  Process,      (* runs of process_operational_monitoring and its sessions  *)
  Batch,        (* OperationalMonitoringBatchRun rows there can be          *)
  Tenant,       (* the eligible tenants                                     *)
  None,
  FailFast,     (* values of --fail-fast considered                         *)
  MaxOutlived,  (* bound: leases that expire under a live process           *)
  MaxCrashes,   (* bound: processes that die                                *)
  MaxFailures   (* bound: exceptions outside the try around a tenant        *)

ASSUME MonitoringAssumption ==
  /\ None \notin Process \cup Batch
  /\ FailFast \subseteq BOOLEAN
  /\ {MaxOutlived, MaxCrashes, MaxFailures} \subseteq Nat

VARIABLES
  batch,     (* status of each row, and whether its lease is in the future   *)
  run,       (* TenantOperationalMonitoringRun: the row a tenant's run        *)
             (* starts with, and whether a failure added a row of its own     *)
  advisory,  (* the session that holds the advisory lock                      *)
  kept,      (* sessions that were left with the lock by an exception         *)
  pc,
  mine,      (* the batch each process has opened                             *)
  todo,      (* tenants it has yet to process                                 *)
  now,       (* the tenant it is processing                                   *)
  tally,     (* whether any of its tenants succeeded, and failed              *)
  stale,     (* batches its recovery has listed, and those saved as failed    *)
             (* whose runs it has still to close                              *)
  outlived, crashes, failures,
  (* History, read by properties only: *)
  late,      (* batches whose lease expired under their live process          *)
  torn       (* ended batches a process died with, in the recovery of which   *)
             (* or as the one that had opened them                            *)

rows == <<batch, run>>
session == <<advisory, kept>>
local == <<pc, mine, todo, now, tally, stale>>
bounds == <<outlived, crashes, failures>>
history == <<late, torn>>
vars == <<rows, session, local, bounds, history>>

Ended == {"succeeded", "partial", "failed"}
PcState == {"idle", "recovering", "locked", "opened", "tenant"}

(* Mutations: the lock kept by a process that skips or ends, a recovery of *)
(* every running batch, one that finds nothing, a verdict of one tenant's. *)
UnlockNever(p) == UNCHANGED session
ExpiredRunning(b) == batch[b].status = "running"
ExpiredNever(b) == FALSE
SummaryOptimistic(t) == IF t.ok THEN "succeeded" ELSE "failed"

(* pg_try_advisory_lock: a session that has the lock gets it once more. *)
Free(p) == advisory \in {None, p}

(* pg_advisory_unlock: one level of the lock, which is all of it unless an *)
(* exception left the session with another.                                *)
Unlock(p) ==
  /\ advisory' = IF p \in kept THEN advisory ELSE None
  /\ UNCHANGED kept

(* The filter of recover_stale_monitoring_batches. *)
Expired(b) == batch[b].status = "running" /\ ~batch[b].fresh

CloseRuns(b) ==
  run' = [run EXCEPT ![b] = [t \in Tenant |->
    [run[b][t] EXCEPT !.own = IF @ = "running" THEN "failed" ELSE @]]]

Summary(t) ==
  CASE t.failed /\ ~t.ok -> "failed"
    [] t.failed /\ t.ok  -> "partial"
    [] OTHER             -> "succeeded"

Unused == {b \in Batch : batch[b].status = "none"}

Goto(p, where) == pc' = [pc EXCEPT ![p] = where]

Reset(p) ==
  /\ Goto(p, "idle")
  /\ mine' = [mine EXCEPT ![p] = None]
  /\ todo' = [todo EXCEPT ![p] = {}]
  /\ now' = [now EXCEPT ![p] = None]
  /\ tally' = [tally EXCEPT ![p] = [ok |-> FALSE, failed |-> FALSE]]
  /\ stale' = [stale EXCEPT ![p] = [listed |-> {}, saved |-> {}]]

-----------------------------------------------------------------------------
Init ==
  /\ batch = [b \in Batch |-> [status |-> "none", fresh |-> FALSE]]
  /\ run = [b \in Batch |-> [t \in Tenant |-> [own |-> "none", extra |-> FALSE]]]
  /\ advisory = None /\ kept = {}
  /\ pc = [p \in Process |-> "idle"]
  /\ mine = [p \in Process |-> None]
  /\ todo = [p \in Process |-> {}]
  /\ now = [p \in Process |-> None]
  /\ tally = [p \in Process |-> [ok |-> FALSE, failed |-> FALSE]]
  /\ stale = [p \in Process |-> [listed |-> {}, saved |-> {}]]
  /\ outlived = 0 /\ crashes = 0 /\ failures = 0
  /\ late = {} /\ torn = {}

(* The query of recover_stale_monitoring_batches, at the start of a run    *)
(* and of --recover-stale-only.                                            *)
Start(p) ==
  /\ pc[p] = "idle"
  /\ Goto(p, "recovering")
  /\ stale' = [stale EXCEPT ![p].listed = {b \in Batch : Expired(b)}]
  /\ UNCHANGED <<rows, session, mine, todo, now, tally, bounds, history>>

(* It saves a batch it has read as failed, whatever the row says by now. *)
RecoverBatch(p, b) ==
  /\ pc[p] = "recovering" /\ b \in stale[p].listed /\ stale[p].saved = {}
  /\ batch' = [batch EXCEPT ![b].status = "failed"]
  /\ stale' = [stale EXCEPT ![p] = [listed |-> @.listed \ {b}, saved |-> {b}]]
  /\ UNCHANGED <<run, session, pc, mine, todo, now, tally, bounds, history>>

(* Then it updates the batch's running rows. *)
RecoverRuns(p, b) ==
  /\ pc[p] = "recovering" /\ b \in stale[p].saved
  /\ CloseRuns(b)
  /\ stale' = [stale EXCEPT ![p].saved = {}]
  /\ UNCHANGED <<batch, session, pc, mine, todo, now, tally, bounds, history>>

Recovered(p) == pc[p] = "recovering" /\ stale[p] = [listed |-> {}, saved |-> {}]

(* --recover-stale-only, no eligible tenant, or no advisory lock. *)
Leave(p) ==
  /\ Recovered(p)
  /\ Goto(p, "idle")
  /\ UNCHANGED <<rows, session, mine, todo, now, tally, stale, bounds, history>>

TryLock(p) ==
  /\ Recovered(p) /\ Free(p)
  /\ advisory' = p
  /\ Goto(p, "locked")
  /\ UNCHANGED <<rows, kept, mine, todo, now, tally, stale, bounds, history>>

(* A running batch whose lease has not expired: its process died with the  *)
(* lock, or never had it.                                                  *)
SkipActive(p) ==
  /\ pc[p] = "locked"
  /\ \E b \in Batch : batch[b].status = "running" /\ batch[b].fresh
  /\ Unlock(p)
  /\ Goto(p, "idle")
  /\ UNCHANGED <<rows, mine, todo, now, tally, stale, bounds, history>>

OpenBatch(p) ==
  /\ pc[p] = "locked"
  /\ ~\E c \in Batch : batch[c].status = "running" /\ batch[c].fresh
  /\ Unused # {}
  /\ LET b == CHOOSE b \in Unused : TRUE
     IN /\ batch' = [batch EXCEPT ![b] = [status |-> "running", fresh |-> TRUE]]
        /\ mine' = [mine EXCEPT ![p] = b]
  /\ todo' = [todo EXCEPT ![p] = Tenant]
  /\ Goto(p, "opened")
  /\ UNCHANGED <<run, session, now, tally, stale, bounds, history>>

(* The bound on batches is reached: the rows there are have been pruned in *)
(* reality, and the model's process gives the lock back.                   *)
NoRowLeft(p) ==
  /\ pc[p] = "locked" /\ Unused = {}
  /\ ~\E b \in Batch : batch[b].status = "running" /\ batch[b].fresh
  /\ Unlock(p)
  /\ Goto(p, "idle")
  /\ UNCHANGED <<rows, mine, todo, now, tally, stale, bounds, history>>

(* An exception after the lock was taken and before the try whose finally  *)
(* releases it: the query, the batch's insert or its audit row failed.     *)
FailUnguarded(p) ==
  /\ failures < MaxFailures
  /\ \/ pc[p] = "locked"
     \/ pc[p] = "opened" /\ todo[p] = Tenant
  /\ failures' = failures + 1
  /\ kept' = kept \cup {p}
  /\ Reset(p)
  /\ UNCHANGED <<rows, advisory, outlived, crashes, history>>

(* An exception inside that try but outside a tenant's own, in a heartbeat *)
(* or the final save: the lock is given back, the batch stays running.     *)
FailGuarded(p) ==
  /\ failures < MaxFailures
  /\ pc[p] = "opened"
  /\ failures' = failures + 1
  /\ Unlock(p)
  /\ Reset(p)
  /\ UNCHANGED <<rows, outlived, crashes, history>>

(* The next tenant, in the order of their slugs.  The heartbeat renews the *)
(* lease without a look at the status, and the tenant's run row is created. *)
BeginTenant(p) ==
  /\ pc[p] = "opened" /\ todo[p] # {}
  /\ batch' = [batch EXCEPT ![mine[p]].fresh = TRUE]
  /\ LET t == CHOOSE t \in todo[p] : TRUE
     IN /\ run' = [run EXCEPT ![mine[p]][t].own = "running"]
        /\ now' = [now EXCEPT ![p] = t]
  /\ Goto(p, "tenant")
  /\ UNCHANGED <<session, mine, todo, tally, stale, bounds, history>>

(* tenant_run.save(): every column, whatever a recovery made of the row. *)
TenantDone(p) ==
  /\ pc[p] = "tenant"
  /\ run' = [run EXCEPT ![mine[p]][now[p]].own = "succeeded"]
  /\ tally' = [tally EXCEPT ![p].ok = TRUE]
  /\ todo' = [todo EXCEPT ![p] = @ \ {now[p]}]
  /\ now' = [now EXCEPT ![p] = None]
  /\ Goto(p, "opened")
  /\ UNCHANGED <<batch, session, mine, stale, bounds, history>>

(* The failure gets a row of its own, and the first row is left running. *)
TenantFails(p, failFast) ==
  /\ pc[p] = "tenant"
  /\ run' = [run EXCEPT ![mine[p]][now[p]].extra = TRUE]
  /\ tally' = [tally EXCEPT ![p].failed = TRUE]
  /\ todo' = [todo EXCEPT ![p] = IF failFast THEN {} ELSE @ \ {now[p]}]
  /\ now' = [now EXCEPT ![p] = None]
  /\ Goto(p, "opened")
  /\ UNCHANGED <<batch, session, mine, stale, bounds, history>>

(* batch.save(): every column, whatever a recovery made of the row. *)
CloseBatch(p) ==
  /\ pc[p] = "opened" /\ todo[p] = {}
  /\ batch' = [batch EXCEPT ![mine[p]].status = Summary(tally[p])]
  /\ Unlock(p)
  /\ Reset(p)
  /\ UNCHANGED <<run, bounds, history>>

(* The session ends: the process is done, or the connection grew too old. *)
Disconnect(p) ==
  /\ pc[p] = "idle" /\ advisory = p
  /\ advisory' = None
  /\ kept' = kept \ {p}
  /\ UNCHANGED <<rows, local, bounds, history>>

Owner(b) == {p \in Process : mine[p] = b}

LeaseExpires(b) ==
  /\ batch[b].status = "running" /\ batch[b].fresh
  /\ Owner(b) # {} => outlived < MaxOutlived
  /\ outlived' = IF Owner(b) # {} THEN outlived + 1 ELSE outlived
  /\ late' = IF Owner(b) # {} THEN late \cup {b} ELSE late
  /\ batch' = [batch EXCEPT ![b].fresh = FALSE]
  /\ UNCHANGED <<run, session, local, crashes, failures, torn>>

Crash(p) ==
  /\ pc[p] # "idle" /\ crashes < MaxCrashes
  /\ crashes' = crashes + 1
  /\ advisory' = IF advisory = p THEN None ELSE advisory
  /\ kept' = kept \ {p}
  /\ Reset(p)
  /\ torn' = torn \cup stale[p].saved \cup {b \in Batch : b = mine[p] /\ batch[b].status \in Ended}
  /\ UNCHANGED <<rows, outlived, failures, late>>

RecoverStep(p) == Leave(p) \/ \E b \in Batch : RecoverBatch(p, b) \/ RecoverRuns(p, b)

WorkStep(p) ==
  \/ SkipActive(p) \/ NoRowLeft(p) \/ OpenBatch(p)
  \/ BeginTenant(p) \/ TenantDone(p) \/ CloseBatch(p)
  \/ \E failFast \in FailFast : TenantFails(p, failFast)

Next ==
  \/ \E p \in Process :
       \/ Start(p) \/ TryLock(p) \/ RecoverStep(p) \/ WorkStep(p)
       \/ FailUnguarded(p) \/ FailGuarded(p) \/ Disconnect(p) \/ Crash(p)
  \/ \E b \in Batch : LeaseExpires(b)

Spec == Init /\ [][Next]_vars

(* A timer starts a run every quarter of an hour, a process that has begun *)
(* goes on, and a lease that nobody renews expires.                        *)
FairSpec ==
  /\ Spec
  /\ \A p \in Process :
       /\ WF_vars(Start(p))
       /\ WF_vars(TryLock(p) \/ RecoverStep(p))
       /\ WF_vars(WorkStep(p))
  /\ \A b \in Batch : WF_vars(LeaseExpires(b))

-----------------------------------------------------------------------------
MonitorTypeOK ==
  /\ batch \in [Batch -> [status : {"none", "running"} \cup Ended, fresh : BOOLEAN]]
  /\ run \in [Batch -> [Tenant -> [own : {"none", "running", "succeeded", "failed"},
                                   extra : BOOLEAN]]]
  /\ advisory \in Process \cup {None} /\ kept \subseteq Process
  /\ pc \in [Process -> PcState]
  /\ mine \in [Process -> Batch \cup {None}]
  /\ todo \in [Process -> SUBSET Tenant]
  /\ now \in [Process -> Tenant \cup {None}]
  /\ tally \in [Process -> [ok : BOOLEAN, failed : BOOLEAN]]
  /\ stale \in [Process -> [listed : SUBSET Batch, saved : SUBSET Batch]]
  /\ outlived \in 0..MaxOutlived /\ crashes \in 0..MaxCrashes /\ failures \in 0..MaxFailures
  /\ late \subseteq Batch /\ torn \subseteq Batch

Working(p) == pc[p] \in {"locked", "opened", "tenant"}

(* Two processes never work at the same time, not even when the lease of   *)
(* one expired and its batch was recovered (process_operational_monitoring *)
(* relies on the advisory lock for it, the lease serves the dead).         *)
BatchesExclude == \A p, q \in Process : Working(p) /\ Working(q) => p = q

(* The advisory lock is in the hands of a session that does not work only  *)
(* after an exception in the lines before the try (254 to 292).            *)
LockIdleByFailure ==
  \A p \in Process : advisory = p /\ ~Working(p) => p \in kept

(* A batch that has ended leaves a run "running" only for a tenant that    *)
(* failed, whose failure has a second row, or by the death of its recovery *)
(* between the two writes or of the process it was taken from, or while    *)
(* one of them goes on.                                                    *)
RunLeftRunning ==
  \A b \in Batch, t \in Tenant :
    batch[b].status \in Ended /\ run[b][t].own = "running" =>
      \/ run[b][t].extra
      \/ b \in torn
      \/ \E p \in Process : mine[p] = b \/ b \in stale[p].saved

(* What a batch ended with changes only if its lease had expired under its *)
(* live process: a recovery that saves failed over it, or that process,    *)
(* saving its own verdict over the recovery's.                             *)
RewrittenForCause ==
  [][\A b \in Batch :
       batch[b].status \in Ended /\ batch'[b].status # batch[b].status => b \in late]_vars

(* A batch that reports success has processed every tenant, each with a    *)
(* run of its own that succeeded.                                          *)
SuccessIsEveryTenant ==
  \A b \in Batch : batch[b].status = "succeeded" =>
    \A t \in Tenant : run[b][t] = [own |-> "succeeded", extra |-> FALSE]

(* Every batch that was opened ends, though its process dies, its lease    *)
(* expires, or the advisory lock is never given back.                      *)
BatchesEnd == \A b \in Batch : batch[b].status = "running" ~> batch[b].status \in Ended
=============================================================================
