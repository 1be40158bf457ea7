-------------------------- MODULE MonitoringProofs --------------------------
(***************************************************************************)
(* Theorems about Monitoring, for any processes, batches and tenants, and  *)
(* about OperationalAlerts, the alerts such a batch opens and escalates.   *)
(*                                                                         *)
(* In Monitoring everything rests on Alone: a process that works has the   *)
(* advisory lock, so a batch has one owner.  With it, a batch's verdict    *)
(* stands for what its owner did (Verdicts), a run is left running only by *)
(* its owner (Runs), and what ended changes only because the lease ran out *)
(* under the owner, which is when a recovery can list what is not dead     *)
(* (Leases).  In OperationalAlerts it is enough to keep, of every level,   *)
(* whether it was told or is still to be (Announced).                      *)
(***************************************************************************)
EXTENDS Monitoring, OperationalAlerts, TLAPS

USE MonitoringAssumption

NoStale == [listed |-> {}, saved |-> {}]

Alone == \A p \in Process : Working(p) => advisory = p

(* What a process has at hand is what its place in the program says. *)
Hands ==
  \A p \in Process :
    /\ mine[p] # None <=> pc[p] \in {"opened", "tenant"}
    /\ pc[p] = "tenant" => now[p] \in todo[p]
    /\ pc[p] # "recovering" => stale[p] = NoStale
    /\ \A b, c \in stale[p].saved : b = c

(* A row that was not opened yet is in nobody's hands. *)
Fresh ==
  \A b \in Batch : batch[b].status = "none" =>
    /\ \A t \in Tenant : run[b][t] = [own |-> "none", extra |-> FALSE]
    /\ \A p \in Process : mine[p] # b /\ b \notin stale[p].listed \cup stale[p].saved

(* An owner that has seen no failure has a success for every tenant done. *)
Verdicts ==
  \A p \in Process : mine[p] # None /\ ~tally[p].failed =>
    \A t \in Tenant :
      /\ ~run[mine[p]][t].extra
      /\ t \notin todo[p] => run[mine[p]][t].own = "succeeded"

(* The owner's own run alone is running, but for those of failed tenants. *)
Runs ==
  \A p \in Process : mine[p] # None =>
    \A t \in Tenant : run[mine[p]][t].own = "running" =>
      run[mine[p]][t].extra \/ (pc[p] = "tenant" /\ now[p] = t)

(* A batch in an owner's hands was taken from it only if its lease ran out *)
(* under it, and so for one that a recovery has listed.                    *)
Leases ==
  /\ \A p \in Process : mine[p] # None =>
       /\ batch[mine[p]].status \in {"running", "failed"}
       /\ ~batch[mine[p]].fresh \/ batch[mine[p]].status = "failed" => mine[p] \in late
  /\ \A p \in Process : \A b \in stale[p].listed :
       /\ batch[b].status \in {"running", "failed"} \/ b \in late
       /\ (\E q \in Process : mine[q] = b) => b \in late

Sound == Alone /\ LockIdleByFailure /\ Hands /\ Fresh /\ Verdicts /\ Runs /\ Leases
           /\ SuccessIsEveryTenant /\ RunLeftRunning

-----------------------------------------------------------------------------
BatchRow == [status : {"none", "running"} \cup Ended, fresh : BOOLEAN]
RunRow == [own : {"none", "running", "succeeded", "failed"}, extra : BOOLEAN]
Tally == [ok : BOOLEAN, failed : BOOLEAN]
StaleLists == [listed : SUBSET Batch, saved : SUBSET Batch]

LEMMA RowTypes ==
  /\ \A r \in BatchRow : /\ r.status \in {"none", "running"} \cup Ended /\ r.fresh \in BOOLEAN
                         /\ \A s \in {"none", "running"} \cup Ended : [r EXCEPT !.status = s] \in BatchRow
                         /\ \A f \in BOOLEAN : [r EXCEPT !.fresh = f] \in BatchRow
  /\ \A r \in RunRow : /\ r.own \in {"none", "running", "succeeded", "failed"} /\ r.extra \in BOOLEAN
                       /\ \A s \in {"running", "succeeded", "failed"} : [r EXCEPT !.own = s] \in RunRow
                       /\ [r EXCEPT !.extra = TRUE] \in RunRow
  /\ NoStale \in StaleLists /\ [ok |-> FALSE, failed |-> FALSE] \in Tally
BY DEF BatchRow, RunRow, Tally, StaleLists, NoStale, Ended

(* One tenant's run is updated. *)
LEMMA RunUpdate ==
  ASSUME run \in [Batch -> [Tenant -> RunRow]], NEW b \in Batch, NEW t \in Tenant, NEW r \in RunRow,
         run' = [run EXCEPT ![b] = [run[b] EXCEPT ![t] = r]]
  PROVE  /\ run' \in [Batch -> [Tenant -> RunRow]]
         /\ run'[b][t] = r
         /\ \A c \in Batch, u \in Tenant : c # b \/ u # t => run'[c][u] = run[c][u]
<1>1. [run[b] EXCEPT ![t] = r] \in [Tenant -> RunRow]
  OBVIOUS
<1>2. QED
  BY <1>1

LEMMA SummaryType ==
  ASSUME NEW t
  PROVE  Summary(t) \in Ended
BY DEF Summary, Ended


(* MonitorTypeOK, with names for the kinds of row. *)
Typed ==
  /\ batch \in [Batch -> BatchRow] /\ run \in [Batch -> [Tenant -> RunRow]]
  /\ advisory \in Process \cup {None} /\ kept \subseteq Process
  /\ pc \in [Process -> PcState]
  /\ mine \in [Process -> Batch \cup {None}]
  /\ todo \in [Process -> SUBSET Tenant]
  /\ now \in [Process -> Tenant \cup {None}]
  /\ tally \in [Process -> Tally]
  /\ stale \in [Process -> StaleLists]
  /\ outlived \in 0..MaxOutlived /\ crashes \in 0..MaxCrashes /\ failures \in 0..MaxFailures
  /\ late \subseteq Batch /\ torn \subseteq Batch

LEMMA TypedIsTypeOK == Typed <=> MonitorTypeOK
BY DEF Typed, MonitorTypeOK, BatchRow, RunRow, Tally, StaleLists

(* A process that works has the batch and the tenant its step is about. *)
LEMMA AtHand ==
  ASSUME Typed, Hands, NEW p \in Process
  PROVE  /\ pc[p] \in {"opened", "tenant"} => mine[p] \in Batch
         /\ pc[p] = "tenant" => now[p] \in Tenant
BY DEF Typed, Hands

LEMMA TypedInit == Init => Typed
<1>1. Init => MonitorTypeOK
  BY DEF Init, MonitorTypeOK, PcState
<1>2. QED
  BY <1>1, TypedIsTypeOK

LEMMA TypedStep == Typed /\ Hands /\ [Next]_vars => Typed'
<1> SUFFICES ASSUME Typed, Hands, [Next]_vars
             PROVE  Typed'
  OBVIOUS
<1>a. /\ batch \in [Batch -> BatchRow] /\ run \in [Batch -> [Tenant -> RunRow]]
      /\ advisory \in Process \cup {None} /\ kept \subseteq Process
      /\ pc \in [Process -> PcState]
      /\ mine \in [Process -> Batch \cup {None}]
      /\ todo \in [Process -> SUBSET Tenant]
      /\ now \in [Process -> Tenant \cup {None}]
      /\ tally \in [Process -> Tally]
      /\ stale \in [Process -> StaleLists]
      /\ outlived \in 0..MaxOutlived /\ crashes \in 0..MaxCrashes /\ failures \in 0..MaxFailures
      /\ late \subseteq Batch /\ torn \subseteq Batch
  BY DEF Typed
<1>b. PcState = {"idle", "recovering", "locked", "opened", "tenant"}
  BY DEF PcState
<1>c. ASSUME NEW p \in Process, Unlock(p) \/ UNCHANGED session
      PROVE  advisory' \in Process \cup {None} /\ kept' \subseteq Process
  BY <1>a, <1>c DEF Unlock, session
<1>d. ASSUME NEW p \in Process, Reset(p)
      PROVE  /\ pc' \in [Process -> PcState] /\ mine' \in [Process -> Batch \cup {None}]
             /\ todo' \in [Process -> SUBSET Tenant] /\ now' \in [Process -> Tenant \cup {None}]
             /\ tally' \in [Process -> Tally] /\ stale' \in [Process -> StaleLists]
  BY <1>a, <1>b, <1>d, RowTypes DEF Reset, Goto, NoStale
<1>1. ASSUME NEW p \in Process, Start(p)
      PROVE  Typed'
  <2>1. stale' = [stale EXCEPT ![p] = [stale[p] EXCEPT !.listed = {b \in Batch : Expired(b)}]]
    BY <1>1 DEF Start
  <2>2. [stale[p] EXCEPT !.listed = {b \in Batch : Expired(b)}] \in StaleLists
    BY <1>a DEF StaleLists
  <2>3. stale' \in [Process -> StaleLists]
    BY <1>a, <2>1, <2>2
  <2>4. QED
    BY <1>1, <1>a, <1>b, <2>3 DEF Typed, Start, Goto, rows, session, bounds, history
<1>2. ASSUME NEW p \in Process, NEW b \in Batch, RecoverBatch(p, b)
      PROVE  Typed'
  <2>1. batch' = [batch EXCEPT ![b] = [batch[b] EXCEPT !.status = "failed"]]
    BY <1>2 DEF RecoverBatch
  <2>2. batch' \in [Batch -> BatchRow]
    BY <1>a, <2>1, RowTypes DEF Ended
  <2>3. [listed |-> stale[p].listed \ {b}, saved |-> {b}] \in StaleLists
    BY <1>a DEF StaleLists
  <2>4. stale' \in [Process -> StaleLists]
    BY <1>a, <1>2, <2>3 DEF RecoverBatch
  <2>5. QED
    BY <1>2, <1>a, <2>2, <2>4 DEF Typed, RecoverBatch, session, bounds, history
<1>3. ASSUME NEW p \in Process, NEW b \in Batch, RecoverRuns(p, b)
      PROVE  Typed'
  <2>1. \A t \in Tenant : [run[b][t] EXCEPT !.own = IF @ = "running" THEN "failed" ELSE @] \in RunRow
    BY <1>a DEF RunRow
  <2>2. run' \in [Batch -> [Tenant -> RunRow]]
    BY <1>a, <1>3, <2>1 DEF RecoverRuns, CloseRuns
  <2>3. [stale[p] EXCEPT !.saved = {}] \in StaleLists
    BY <1>a DEF StaleLists
  <2>4. stale' \in [Process -> StaleLists]
    BY <1>a, <1>3, <2>3 DEF RecoverRuns
  <2>5. QED
    BY <1>3, <1>a, <2>2, <2>4 DEF Typed, RecoverRuns, session, bounds, history
<1>4. ASSUME NEW p \in Process, Leave(p) \/ TryLock(p) \/ SkipActive(p) \/ NoRowLeft(p)
      PROVE  Typed'
  <2>1. pc' \in [Process -> PcState]
    BY <1>4, <1>a, <1>b DEF Leave, TryLock, SkipActive, NoRowLeft, Goto
  <2>2. advisory' \in Process \cup {None} /\ kept' \subseteq Process
    BY <1>4, <1>a, <1>c DEF Leave, TryLock, SkipActive, NoRowLeft
  <2>3. UNCHANGED <<batch, run, mine, todo, now, tally, stale, bounds, history>>
    BY <1>4 DEF Leave, TryLock, SkipActive, NoRowLeft, rows
  <2>4. QED
    BY <1>a, <2>1, <2>2, <2>3 DEF Typed, bounds, history
<1>5. ASSUME NEW p \in Process, OpenBatch(p)
      PROVE  Typed'
  <2> DEFINE b == CHOOSE b \in Unused : TRUE
  <2>1. b \in Batch
    BY <1>5 DEF OpenBatch, Unused
  <2>2. /\ batch' = [batch EXCEPT ![b] = [status |-> "running", fresh |-> TRUE]]
        /\ mine' = [mine EXCEPT ![p] = b]
    BY <1>5 DEF OpenBatch
  <2> HIDE DEF b
  <2>3. batch' \in [Batch -> BatchRow] /\ mine' \in [Process -> Batch \cup {None}]
    BY <1>a, <2>1, <2>2 DEF BatchRow
  <2>4. QED
    BY <1>5, <1>a, <1>b, <2>3 DEF Typed, OpenBatch, Goto, session, bounds, history
<1>6. ASSUME NEW p \in Process, FailUnguarded(p) \/ FailGuarded(p)
      PROVE  Typed'
  <2>1. Reset(p) /\ UNCHANGED <<batch, run, outlived, crashes, history>>
    BY <1>6 DEF FailUnguarded, FailGuarded, rows
  <2>2. advisory' \in Process \cup {None} /\ kept' \subseteq Process
    BY <1>6, <1>a, <1>c DEF FailUnguarded, FailGuarded
  <2>3. failures' \in 0..MaxFailures
    BY <1>6, <1>a DEF FailUnguarded, FailGuarded
  <2>4. QED
    BY <1>a, <1>d, <2>1, <2>2, <2>3 DEF Typed, history
<1>7. ASSUME NEW p \in Process, BeginTenant(p)
      PROVE  Typed'
  <2> DEFINE t == CHOOSE t \in todo[p] : TRUE
             b == mine[p]
  <2>1. t \in Tenant /\ b \in Batch
    BY <1>7, <1>a, AtHand DEF BeginTenant
  <2>2. /\ batch' = [batch EXCEPT ![b] = [batch[b] EXCEPT !.fresh = TRUE]]
        /\ run' = [run EXCEPT ![b] = [run[b] EXCEPT ![t] = [run[b][t] EXCEPT !.own = "running"]]]
        /\ now' = [now EXCEPT ![p] = t]
    BY <1>7 DEF BeginTenant
  <2>3. UNCHANGED <<session, mine, todo, tally, stale, bounds, history>> /\ Goto(p, "tenant")
    BY <1>7 DEF BeginTenant
  <2> HIDE DEF t, b
  <2>4. [run[b][t] EXCEPT !.own = "running"] \in RunRow
    <3>1. run[b][t] \in RunRow
      BY <1>a, <2>1
    <3>2. QED
      BY <3>1, RowTypes
  <2>5. run' \in [Batch -> [Tenant -> RunRow]]
    BY <1>a, <2>1, <2>2, <2>4, RunUpdate
  <2>6. batch' \in [Batch -> BatchRow] /\ now' \in [Process -> Tenant \cup {None}]
    BY <1>a, <2>1, <2>2, RowTypes
  <2>7. QED
    BY <1>a, <1>b, <2>3, <2>5, <2>6 DEF Typed, Goto, session, bounds, history
<1>8. ASSUME NEW p \in Process, TenantDone(p) \/ \E failFast \in FailFast : TenantFails(p, failFast)
      PROVE  Typed'
  <2> DEFINE t == now[p]
             b == mine[p]
  <2>1. t \in Tenant /\ b \in Batch
    BY <1>8, AtHand DEF TenantDone, TenantFails
  <2>2. \/ run' = [run EXCEPT ![b] = [run[b] EXCEPT ![t] = [run[b][t] EXCEPT !.own = "succeeded"]]]
        \/ run' = [run EXCEPT ![b] = [run[b] EXCEPT ![t] = [run[b][t] EXCEPT !.extra = TRUE]]]
    BY <1>8 DEF TenantDone, TenantFails
  <2>3. /\ [run[b][t] EXCEPT !.own = "succeeded"] \in RunRow
        /\ [run[b][t] EXCEPT !.extra = TRUE] \in RunRow
    <3>1. run[b][t] \in RunRow
      BY <1>a, <2>1
    <3>2. QED
      BY <3>1, RowTypes
  <2>4. run' \in [Batch -> [Tenant -> RunRow]]
    BY <1>a, <2>1, <2>2, <2>3, RunUpdate
  <2>5. tally' \in [Process -> Tally]
    <3>1. /\ [tally[p] EXCEPT !.ok = TRUE] \in Tally /\ [tally[p] EXCEPT !.failed = TRUE] \in Tally
      <4>1. tally[p] \in Tally
        BY <1>a
      <4>2. QED
        BY <4>1 DEF Tally
    <3>2. \/ tally' = [tally EXCEPT ![p] = [tally[p] EXCEPT !.ok = TRUE]]
          \/ tally' = [tally EXCEPT ![p] = [tally[p] EXCEPT !.failed = TRUE]]
      BY <1>8 DEF TenantDone, TenantFails
    <3>3. QED
      BY <1>a, <3>1, <3>2
  <2>6. /\ todo' \in [Process -> SUBSET Tenant] /\ now' \in [Process -> Tenant \cup {None}]
        /\ pc' \in [Process -> PcState]
    BY <1>8, <1>a, <1>b DEF TenantDone, TenantFails, Goto
  <2>7. UNCHANGED <<batch, session, mine, stale, bounds, history>>
    BY <1>8 DEF TenantDone, TenantFails
  <2>8. QED
    BY <1>a, <2>4, <2>5, <2>6, <2>7 DEF Typed, session, bounds, history
<1>9. ASSUME NEW p \in Process, CloseBatch(p)
      PROVE  Typed'
  <2>1. /\ batch' = [batch EXCEPT ![mine[p]] = [batch[mine[p]] EXCEPT !.status = Summary(tally[p])]]
        /\ Reset(p) /\ Unlock(p) /\ UNCHANGED <<run, bounds, history>>
    BY <1>9 DEF CloseBatch
  <2>2. mine[p] \in Batch
    BY <1>9, AtHand DEF CloseBatch
  <2>3. batch' \in [Batch -> BatchRow]
    BY <1>a, <2>1, <2>2, RowTypes, SummaryType
  <2>4. QED
    BY <1>a, <1>c, <1>d, <2>1, <2>3 DEF Typed, bounds, history
<1>10. ASSUME NEW p \in Process, Disconnect(p)
       PROVE  Typed'
  BY <1>10, <1>a DEF Typed, Disconnect, rows, local, bounds, history
<1>11. ASSUME NEW p \in Process, Crash(p)
       PROVE  Typed'
  <2>1. Reset(p) /\ UNCHANGED <<batch, run, outlived, failures, late>>
    BY <1>11 DEF Crash, rows
  <2>2. /\ advisory' \in Process \cup {None} /\ kept' \subseteq Process
        /\ crashes' \in 0..MaxCrashes
    BY <1>11, <1>a DEF Crash
  <2>3. torn' \subseteq Batch
    BY <1>11, <1>a DEF Crash, StaleLists
  <2>4. QED
    BY <1>a, <1>d, <2>1, <2>2, <2>3 DEF Typed
<1>12. ASSUME NEW b \in Batch, LeaseExpires(b)
       PROVE  Typed'
  <2>1. batch' = [batch EXCEPT ![b] = [batch[b] EXCEPT !.fresh = FALSE]]
    BY <1>12 DEF LeaseExpires
  <2>2. batch' \in [Batch -> BatchRow]
    BY <1>a, <2>1, RowTypes
  <2>3. outlived' \in 0..MaxOutlived /\ late' \subseteq Batch
    BY <1>12, <1>a DEF LeaseExpires
  <2>4. QED
    BY <1>12, <1>a, <2>2, <2>3 DEF Typed, LeaseExpires, session, local
<1>13. CASE UNCHANGED vars
  BY <1>13, <1>a DEF Typed, vars, rows, session, local, bounds, history
<1>14. QED
  BY <1>1, <1>2, <1>3, <1>4, <1>5, <1>6, <1>7, <1>8, <1>9, <1>10, <1>11, <1>12, <1>13
     DEF Next, RecoverStep, WorkStep

-----------------------------------------------------------------------------
(* Who changes a tenant's run, and how. *)
LEMMA RunSteps ==
  ASSUME Typed, Hands, [Next]_vars, NEW b \in Batch, NEW t \in Tenant
  PROVE  \/ run'[b][t] = run[b][t]
         \/ /\ \E p \in Process : RecoverRuns(p, b)
            /\ run[b][t].own = "running" /\ run'[b][t].own = "failed"
            /\ run'[b][t].extra = run[b][t].extra
         \/ \E p \in Process :
              /\ mine[p] = b /\ t \in todo[p]
              /\ \/ /\ BeginTenant(p) /\ now'[p] = t
                    /\ run'[b][t].own = "running" /\ run'[b][t].extra = run[b][t].extra
                 \/ /\ TenantDone(p) /\ now[p] = t
                    /\ run'[b][t].own = "succeeded" /\ run'[b][t].extra = run[b][t].extra
                 \/ /\ \E failFast \in FailFast : TenantFails(p, failFast)
                    /\ now[p] = t
                    /\ run'[b][t].own = run[b][t].own /\ run'[b][t].extra
<1>a. run \in [Batch -> [Tenant -> RunRow]] /\ run[b][t] \in RunRow /\ now \in [Process -> Tenant \cup {None}]
  BY DEF Typed
<1>1. CASE UNCHANGED run
  BY <1>1
<1>2. ASSUME NEW p \in Process, NEW c \in Batch, RecoverRuns(p, c)
      PROVE  \/ run'[b][t] = run[b][t]
             \/ /\ c = b
                /\ run[b][t].own = "running" /\ run'[b][t].own = "failed"
                /\ run'[b][t].extra = run[b][t].extra
  <2>1. run' = [run EXCEPT ![c] = [u \in Tenant |->
                  [run[c][u] EXCEPT !.own = IF run[c][u].own = "running" THEN "failed" ELSE run[c][u].own]]]
    BY <1>2 DEF RecoverRuns, CloseRuns
  <2>2. c = b => run'[b][t] = [run[b][t] EXCEPT !.own =
                                 IF run[b][t].own = "running" THEN "failed" ELSE run[b][t].own]
    BY <1>a, <2>1
  <2>3. c # b => run'[b][t] = run[b][t]
    BY <1>a, <2>1
  <2>4. QED
    BY <1>a, <2>2, <2>3 DEF RunRow
<1>3. ASSUME NEW p \in Process, BeginTenant(p)
      PROVE  \/ run'[b][t] = run[b][t]
             \/ /\ mine[p] = b /\ t \in todo[p] /\ now'[p] = t
                /\ run'[b][t].own = "running" /\ run'[b][t].extra = run[b][t].extra
  <2> DEFINE u == CHOOSE u \in todo[p] : TRUE
             c == mine[p]
  <2>1. u \in Tenant /\ c \in Batch /\ u \in todo[p]
    BY <1>3, AtHand DEF BeginTenant, Typed
  <2>2. /\ run' = [run EXCEPT ![c] = [run[c] EXCEPT ![u] = [run[c][u] EXCEPT !.own = "running"]]]
        /\ now' = [now EXCEPT ![p] = u]
    BY <1>3 DEF BeginTenant
  <2> HIDE DEF u, c
  <2>3. [run[c][u] EXCEPT !.own = "running"] \in RunRow
    <3>1. run[c][u] \in RunRow
      BY <1>a, <2>1
    <3>2. QED
      BY <3>1, RowTypes
  <2>4. /\ run'[c][u] = [run[c][u] EXCEPT !.own = "running"]
        /\ b # c \/ t # u => run'[b][t] = run[b][t]
    BY <1>a, <2>1, <2>2, <2>3, RunUpdate
  <2>5. now'[p] = u
    BY <1>a, <2>2
  <2>6. QED
    BY <1>a, <2>1, <2>4, <2>5 DEF RunRow, c
<1>4. ASSUME NEW p \in Process, TenantDone(p)
      PROVE  \/ run'[b][t] = run[b][t]
             \/ /\ mine[p] = b /\ now[p] = t /\ t \in todo[p]
                /\ run'[b][t].own = "succeeded" /\ run'[b][t].extra = run[b][t].extra
  <2> DEFINE u == now[p]
             c == mine[p]
  <2>1. u \in Tenant /\ c \in Batch /\ u \in todo[p]
    BY <1>4, AtHand DEF TenantDone, Hands
  <2>2. run' = [run EXCEPT ![c] = [run[c] EXCEPT ![u] = [run[c][u] EXCEPT !.own = "succeeded"]]]
    BY <1>4 DEF TenantDone
  <2> HIDE DEF u, c
  <2>3. [run[c][u] EXCEPT !.own = "succeeded"] \in RunRow
    <3>1. run[c][u] \in RunRow
      BY <1>a, <2>1
    <3>2. QED
      BY <3>1, RowTypes
  <2>4. /\ run'[c][u] = [run[c][u] EXCEPT !.own = "succeeded"]
        /\ b # c \/ t # u => run'[b][t] = run[b][t]
    BY <1>a, <2>1, <2>2, <2>3, RunUpdate
  <2>5. QED
    BY <1>a, <2>1, <2>4 DEF RunRow, u, c
<1>5. ASSUME NEW p \in Process, NEW failFast \in FailFast, TenantFails(p, failFast)
      PROVE  \/ run'[b][t] = run[b][t]
             \/ /\ mine[p] = b /\ now[p] = t /\ t \in todo[p]
                /\ run'[b][t].own = run[b][t].own /\ run'[b][t].extra
  <2> DEFINE u == now[p]
             c == mine[p]
  <2>1. u \in Tenant /\ c \in Batch /\ u \in todo[p]
    BY <1>5, AtHand DEF TenantFails, Hands
  <2>2. run' = [run EXCEPT ![c] = [run[c] EXCEPT ![u] = [run[c][u] EXCEPT !.extra = TRUE]]]
    BY <1>5 DEF TenantFails
  <2> HIDE DEF u, c
  <2>3. [run[c][u] EXCEPT !.extra = TRUE] \in RunRow
    <3>1. run[c][u] \in RunRow
      BY <1>a, <2>1
    <3>2. QED
      BY <3>1, RowTypes
  <2> DEFINE r == [run[c][u] EXCEPT !.extra = TRUE]
  <2>r. r \in RunRow /\ run' = [run EXCEPT ![c] = [run[c] EXCEPT ![u] = r]]
    BY <2>2, <2>3
  <2> HIDE DEF r
  <2>s. /\ run'[c][u] = r
        /\ b # c \/ t # u => run'[b][t] = run[b][t]
    BY <1>a, <2>1, <2>r, RunUpdate
  <2>4. /\ run'[c][u] = [run[c][u] EXCEPT !.extra = TRUE]
        /\ b # c \/ t # u => run'[b][t] = run[b][t]
    BY <2>s DEF r
  <2>5. QED
    BY <1>a, <2>1, <2>4 DEF RunRow, u, c
<1>6. ASSUME NEW p \in Process,
             \/ Start(p) \/ TryLock(p) \/ Leave(p) \/ SkipActive(p) \/ NoRowLeft(p) \/ OpenBatch(p)
             \/ CloseBatch(p) \/ FailUnguarded(p) \/ FailGuarded(p) \/ Disconnect(p) \/ Crash(p)
             \/ \E c \in Batch : RecoverBatch(p, c)
      PROVE  UNCHANGED run
  BY <1>6 DEF Start, TryLock, Leave, SkipActive, NoRowLeft, OpenBatch, CloseBatch, FailUnguarded,
     FailGuarded, Disconnect, Crash, RecoverBatch, rows
<1>7. (\E c \in Batch : LeaseExpires(c)) \/ UNCHANGED vars => UNCHANGED run
  BY DEF LeaseExpires, vars, rows
<1>8. ASSUME NEW p \in Process, Start(p) \/ TryLock(p) \/ RecoverStep(p) \/ WorkStep(p)
               \/ FailUnguarded(p) \/ FailGuarded(p) \/ Disconnect(p) \/ Crash(p)
      PROVE  \/ UNCHANGED run
             \/ \E c \in Batch : RecoverRuns(p, c)
             \/ BeginTenant(p) \/ TenantDone(p)
             \/ \E failFast \in FailFast : TenantFails(p, failFast)
  BY <1>6, <1>8 DEF RecoverStep, WorkStep
<1>9. CASE \E p \in Process, c \in Batch : RecoverRuns(p, c)
  BY <1>2, <1>9
<1>10. CASE \E p \in Process : BeginTenant(p)
  BY <1>3, <1>10
<1>11. CASE \E p \in Process : TenantDone(p)
  BY <1>4, <1>11
<1>12. CASE \E p \in Process, failFast \in FailFast : TenantFails(p, failFast)
  BY <1>5, <1>12
<1>13. QED
  BY <1>1, <1>7, <1>8, <1>9, <1>10, <1>11, <1>12 DEF Next

(* Who changes a batch's row, and how. *)
LEMMA BatchSteps ==
  ASSUME Typed, Hands, [Next]_vars, NEW b \in Batch
  PROVE  \/ batch'[b] = batch[b]
         \/ /\ \E p \in Process : RecoverBatch(p, b)
            /\ batch'[b].status = "failed" /\ batch'[b].fresh = batch[b].fresh
         \/ /\ \E p \in Process : OpenBatch(p) /\ mine'[p] = b
            /\ batch[b].status = "none" /\ batch'[b].status = "running" /\ batch'[b].fresh
         \/ /\ \E p \in Process : BeginTenant(p) /\ mine[p] = b
            /\ batch'[b].status = batch[b].status /\ batch'[b].fresh
         \/ /\ \E p \in Process : /\ CloseBatch(p) /\ mine[p] = b
                                  /\ batch'[b].status = Summary(tally[p])
            /\ batch'[b].fresh = batch[b].fresh
         \/ /\ LeaseExpires(b) /\ batch[b].status = "running"
            /\ batch'[b].status = "running" /\ ~batch'[b].fresh
<1>a. batch \in [Batch -> BatchRow] /\ batch[b] \in BatchRow /\ mine \in [Process -> Batch \cup {None}]
  BY DEF Typed
<1> USE DEF BatchRow
<1>1. CASE UNCHANGED batch
  BY <1>1
<1>2. ASSUME NEW p \in Process, NEW c \in Batch, RecoverBatch(p, c)
      PROVE  \/ batch'[b] = batch[b]
             \/ c = b /\ batch'[b].status = "failed" /\ batch'[b].fresh = batch[b].fresh
  BY <1>2, <1>a DEF RecoverBatch
<1>3. ASSUME NEW p \in Process, OpenBatch(p)
      PROVE  \/ batch'[b] = batch[b]
             \/ /\ mine'[p] = b /\ batch[b].status = "none"
                /\ batch'[b].status = "running" /\ batch'[b].fresh
  <2> DEFINE c == CHOOSE c \in Unused : TRUE
  <2>1. c \in Unused
    BY <1>3 DEF OpenBatch
  <2>2. /\ batch' = [batch EXCEPT ![c] = [status |-> "running", fresh |-> TRUE]]
        /\ mine' = [mine EXCEPT ![p] = c]
    BY <1>3 DEF OpenBatch
  <2> HIDE DEF c
  <2>3. QED
    BY <1>a, <2>1, <2>2 DEF Unused
<1>4. ASSUME NEW p \in Process, BeginTenant(p)
      PROVE  \/ batch'[b] = batch[b]
             \/ mine[p] = b /\ batch'[b].status = batch[b].status /\ batch'[b].fresh
  <2>1. batch' = [batch EXCEPT ![mine[p]] = [batch[mine[p]] EXCEPT !.fresh = TRUE]]
    BY <1>4 DEF BeginTenant
  <2>2. QED
    BY <1>a, <2>1
<1>5. ASSUME NEW p \in Process, CloseBatch(p)
      PROVE  \/ batch'[b] = batch[b]
             \/ mine[p] = b /\ batch'[b].status = Summary(tally[p]) /\ batch'[b].fresh = batch[b].fresh
  <2>1. batch' = [batch EXCEPT ![mine[p]] = [batch[mine[p]] EXCEPT !.status = Summary(tally[p])]]
    BY <1>5 DEF CloseBatch
  <2>2. QED
    BY <1>a, <2>1
<1>6. ASSUME NEW c \in Batch, LeaseExpires(c)
      PROVE  \/ batch'[b] = batch[b]
             \/ c = b /\ batch[b].status = "running" /\ batch'[b].status = "running" /\ ~batch'[b].fresh
  BY <1>6, <1>a DEF LeaseExpires
<1>7. ASSUME NEW p \in Process,
             \/ Start(p) \/ TryLock(p) \/ Leave(p) \/ SkipActive(p) \/ NoRowLeft(p)
             \/ TenantDone(p) \/ FailUnguarded(p) \/ FailGuarded(p) \/ Disconnect(p) \/ Crash(p)
             \/ (\E failFast \in FailFast : TenantFails(p, failFast))
             \/ (\E c \in Batch : RecoverRuns(p, c))
      PROVE  UNCHANGED batch
  BY <1>7 DEF Start, TryLock, Leave, SkipActive, NoRowLeft, TenantDone, TenantFails, FailUnguarded,
     FailGuarded, Disconnect, Crash, RecoverRuns, rows
<1>8. UNCHANGED vars => UNCHANGED batch
  BY DEF vars, rows
<1>9. ASSUME NEW p \in Process, Start(p) \/ TryLock(p) \/ RecoverStep(p) \/ WorkStep(p)
               \/ FailUnguarded(p) \/ FailGuarded(p) \/ Disconnect(p) \/ Crash(p)
      PROVE  \/ UNCHANGED batch
             \/ \E c \in Batch : RecoverBatch(p, c)
             \/ OpenBatch(p) \/ BeginTenant(p) \/ CloseBatch(p)
  BY <1>7, <1>9 DEF RecoverStep, WorkStep
<1>10. CASE \E p \in Process, c \in Batch : RecoverBatch(p, c)
  BY <1>2, <1>10
<1>11. CASE \E p \in Process : OpenBatch(p)
  BY <1>3, <1>11
<1>12. CASE \E p \in Process : BeginTenant(p)
  BY <1>4, <1>12
<1>13. CASE \E p \in Process : CloseBatch(p)
  BY <1>5, <1>13
<1>14. CASE \E c \in Batch : LeaseExpires(c)
  BY <1>6, <1>14
<1>15. QED
  BY <1>1, <1>8, <1>9, <1>10, <1>11, <1>12, <1>13, <1>14 DEF Next

-----------------------------------------------------------------------------
(* A step of one process, and what it leaves of a process's own state. *)
Step(p) ==
  \/ Start(p) \/ TryLock(p) \/ RecoverStep(p) \/ WorkStep(p)
  \/ FailUnguarded(p) \/ FailGuarded(p) \/ Disconnect(p) \/ Crash(p)

KeepsWork(p) == mine'[p] = mine[p] /\ todo'[p] = todo[p] /\ now'[p] = now[p] /\ tally'[p] = tally[p]

LocalType ==
  /\ pc \in [Process -> PcState] /\ mine \in [Process -> Batch \cup {None}]
  /\ todo \in [Process -> SUBSET Tenant] /\ now \in [Process -> Tenant \cup {None}]
  /\ tally \in [Process -> Tally] /\ stale \in [Process -> StaleLists]

LEMMA OthersStay ==
  ASSUME Typed, NEW p \in Process, NEW q \in Process, Step(q), p # q
  PROVE  KeepsWork(p) /\ pc'[p] = pc[p] /\ stale'[p] = stale[p]
<1>a. LocalType
  BY DEF Typed, LocalType
<1>b. SUFFICES ASSUME Step(q), p # q PROVE KeepsWork(p) /\ pc'[p] = pc[p] /\ stale'[p] = stale[p]
  OBVIOUS
<1> USE DEF KeepsWork, LocalType, Goto
<1>1. CASE Start(q) \/ TryLock(q) \/ Leave(q) \/ SkipActive(q) \/ NoRowLeft(q) \/ Disconnect(q)
  BY <1>a, <1>b, <1>1 DEF Start, TryLock, Leave, SkipActive, NoRowLeft, Disconnect, local
<1>2. CASE \E b \in Batch : RecoverBatch(q, b) \/ RecoverRuns(q, b)
  BY <1>a, <1>b, <1>2 DEF RecoverBatch, RecoverRuns
<1>3. CASE OpenBatch(q) \/ BeginTenant(q)
  BY <1>a, <1>b, <1>3 DEF OpenBatch, BeginTenant
<1>4. CASE TenantDone(q) \/ \E failFast \in FailFast : TenantFails(q, failFast)
  BY <1>a, <1>b, <1>4 DEF TenantDone, TenantFails
<1>5. CASE CloseBatch(q) \/ FailUnguarded(q) \/ FailGuarded(q) \/ Crash(q)
  <2>1. Reset(q)
    BY <1>5 DEF CloseBatch, FailUnguarded, FailGuarded, Crash
  <2>2. QED
    BY <1>a, <1>b, <2>1 DEF Reset
<1>6. QED
  BY <1>1, <1>2, <1>3, <1>4, <1>5 DEF Step, RecoverStep, WorkStep

LEMMA OwnSteps ==
  ASSUME Typed, NEW p \in Process, Step(p)
  PROVE  \/ /\ Start(p) /\ pc[p] = "idle" /\ pc'[p] = "recovering" /\ KeepsWork(p)
            /\ stale'[p] = [stale[p] EXCEPT !.listed = {b \in Batch : Expired(b)}]
         \/ /\ pc[p] = "recovering" /\ pc'[p] = "recovering" /\ KeepsWork(p)
            /\ \/ \E b \in Batch :
                    /\ RecoverBatch(p, b) /\ b \in stale[p].listed
                    /\ stale'[p] = [listed |-> stale[p].listed \ {b}, saved |-> {b}]
               \/ \E b \in Batch :
                    /\ RecoverRuns(p, b) /\ b \in stale[p].saved
                    /\ stale'[p] = [stale[p] EXCEPT !.saved = {}]
         \/ /\ Leave(p) /\ Recovered(p) /\ pc'[p] = "idle"
            /\ KeepsWork(p) /\ stale'[p] = stale[p]
         \/ /\ TryLock(p) /\ Recovered(p) /\ pc'[p] = "locked"
            /\ KeepsWork(p) /\ stale'[p] = stale[p]
         \/ /\ SkipActive(p) \/ NoRowLeft(p)
            /\ pc[p] = "locked" /\ pc'[p] = "idle" /\ KeepsWork(p) /\ stale'[p] = stale[p]
         \/ /\ OpenBatch(p) /\ pc[p] = "locked" /\ pc'[p] = "opened"
            /\ mine'[p] \in Unused /\ todo'[p] = Tenant
            /\ now'[p] = now[p] /\ tally'[p] = tally[p] /\ stale'[p] = stale[p]
         \/ /\ BeginTenant(p) /\ pc[p] = "opened" /\ pc'[p] = "tenant" /\ now'[p] \in todo[p]
            /\ mine'[p] = mine[p] /\ todo'[p] = todo[p]
            /\ tally'[p] = tally[p] /\ stale'[p] = stale[p]
         \/ /\ TenantDone(p) /\ pc[p] = "tenant" /\ pc'[p] = "opened"
            /\ todo'[p] = todo[p] \ {now[p]} /\ mine'[p] = mine[p]
            /\ tally'[p].failed = tally[p].failed /\ stale'[p] = stale[p]
         \/ /\ \E failFast \in FailFast : TenantFails(p, failFast)
            /\ pc[p] = "tenant" /\ pc'[p] = "opened" /\ mine'[p] = mine[p]
            /\ tally'[p].failed /\ stale'[p] = stale[p]
         \/ /\ CloseBatch(p) \/ FailUnguarded(p) \/ FailGuarded(p) \/ Crash(p)
            /\ pc'[p] = "idle" /\ mine'[p] = None /\ stale'[p] = NoStale
         \/ /\ Disconnect(p) /\ pc[p] = "idle" /\ pc'[p] = "idle"
            /\ KeepsWork(p) /\ stale'[p] = stale[p]
<1>a. LocalType
  BY DEF Typed, LocalType
<1> USE DEF KeepsWork, LocalType, Goto
<1>1. Start(p) => /\ pc[p] = "idle" /\ pc'[p] = "recovering" /\ KeepsWork(p)
                  /\ stale'[p] = [stale[p] EXCEPT !.listed = {b \in Batch : Expired(b)}]
  BY <1>a DEF Start
<1>2. ASSUME NEW b \in Batch, RecoverBatch(p, b)
      PROVE  /\ pc[p] = "recovering" /\ pc'[p] = "recovering" /\ KeepsWork(p) /\ b \in stale[p].listed
             /\ stale'[p] = [listed |-> stale[p].listed \ {b}, saved |-> {b}]
  BY <1>a, <1>2 DEF RecoverBatch
<1>3. ASSUME NEW b \in Batch, RecoverRuns(p, b)
      PROVE  /\ pc[p] = "recovering" /\ pc'[p] = "recovering" /\ KeepsWork(p) /\ b \in stale[p].saved
             /\ stale'[p] = [stale[p] EXCEPT !.saved = {}]
  BY <1>a, <1>3 DEF RecoverRuns
<1>4. Leave(p) => Recovered(p) /\ pc'[p] = "idle" /\ KeepsWork(p) /\ stale'[p] = stale[p]
  BY <1>a DEF Leave
<1>5. TryLock(p) => Recovered(p) /\ pc'[p] = "locked" /\ KeepsWork(p) /\ stale'[p] = stale[p]
  BY <1>a DEF TryLock
<1>6. SkipActive(p) \/ NoRowLeft(p) =>
        pc[p] = "locked" /\ pc'[p] = "idle" /\ KeepsWork(p) /\ stale'[p] = stale[p]
  BY <1>a DEF SkipActive, NoRowLeft
<1>7. ASSUME OpenBatch(p)
      PROVE  /\ pc[p] = "locked" /\ pc'[p] = "opened"
             /\ mine'[p] \in Unused /\ todo'[p] = Tenant
             /\ now'[p] = now[p] /\ tally'[p] = tally[p] /\ stale'[p] = stale[p]
  <2>1. (CHOOSE b \in Unused : TRUE) \in Unused
    BY <1>7 DEF OpenBatch
  <2>2. QED
    BY <1>a, <1>7, <2>1 DEF OpenBatch
<1>8. ASSUME BeginTenant(p)
      PROVE  /\ pc[p] = "opened" /\ pc'[p] = "tenant" /\ now'[p] \in todo[p]
             /\ mine'[p] = mine[p] /\ todo'[p] = todo[p]
             /\ tally'[p] = tally[p] /\ stale'[p] = stale[p]
  <2>1. (CHOOSE t \in todo[p] : TRUE) \in todo[p]
    BY <1>8 DEF BeginTenant
  <2>2. QED
    BY <1>a, <1>8, <2>1 DEF BeginTenant
<1>9. ASSUME TenantDone(p)
      PROVE  /\ pc[p] = "tenant" /\ pc'[p] = "opened"
             /\ todo'[p] = todo[p] \ {now[p]} /\ mine'[p] = mine[p]
             /\ tally'[p].failed = tally[p].failed /\ stale'[p] = stale[p]
  BY <1>a, <1>9 DEF TenantDone, Tally
<1>10. ASSUME NEW failFast \in FailFast, TenantFails(p, failFast)
       PROVE  /\ pc[p] = "tenant" /\ pc'[p] = "opened" /\ mine'[p] = mine[p]
              /\ tally'[p].failed /\ stale'[p] = stale[p]
  BY <1>a, <1>10 DEF TenantFails, Tally
<1>11. ASSUME CloseBatch(p) \/ FailUnguarded(p) \/ FailGuarded(p) \/ Crash(p)
       PROVE  pc'[p] = "idle" /\ mine'[p] = None /\ stale'[p] = NoStale
  <2>1. Reset(p)
    BY <1>11 DEF CloseBatch, FailUnguarded, FailGuarded, Crash
  <2>2. QED
    BY <1>a, <2>1 DEF Reset, NoStale
<1>12. Disconnect(p) => pc[p] = "idle" /\ pc'[p] = "idle" /\ KeepsWork(p) /\ stale'[p] = stale[p]
  BY <1>a DEF Disconnect, local
<1> HIDE DEF KeepsWork
<1>13. CASE Start(p)
  BY <1>1, <1>13
<1>14. CASE \E b \in Batch : RecoverBatch(p, b)
  BY <1>2, <1>14
<1>15. CASE \E b \in Batch : RecoverRuns(p, b)
  BY <1>3, <1>15
<1>16. CASE Leave(p)
  BY <1>4, <1>16
<1>17. CASE TryLock(p)
  BY <1>5, <1>17
<1>18. CASE SkipActive(p) \/ NoRowLeft(p)
  BY <1>6, <1>18
<1>19. CASE OpenBatch(p)
  BY <1>7, <1>19
<1>20. CASE BeginTenant(p)
  BY <1>8, <1>20
<1>21. CASE TenantDone(p)
  BY <1>9, <1>21
<1>22. CASE \E failFast \in FailFast : TenantFails(p, failFast)
  BY <1>10, <1>22
<1>23. CASE CloseBatch(p) \/ FailUnguarded(p) \/ FailGuarded(p) \/ Crash(p)
  BY <1>11, <1>23
<1>24. CASE Disconnect(p)
  BY <1>12, <1>24
<1>25. QED
  BY <1>13, <1>14, <1>15, <1>16, <1>17, <1>18, <1>19, <1>20, <1>21, <1>22, <1>23, <1>24
     DEF Step, RecoverStep, WorkStep

(* A lease that expires, or nothing at all. *)
LEMMA QuietSteps ==
  ASSUME (\E b \in Batch : LeaseExpires(b)) \/ UNCHANGED vars
  PROVE  UNCHANGED <<run, advisory, kept, pc, mine, todo, now, tally, stale, torn>>
BY DEF LeaseExpires, vars, rows, session, local, history

LEMMA WhoSteps ==
  ASSUME [Next]_vars
  PROVE  \/ \E p \in Process : Step(p)
         \/ (\E b \in Batch : LeaseExpires(b)) \/ UNCHANGED vars
BY DEF Next, Step

-----------------------------------------------------------------------------
(* The lock is with the one that works, or with one that lost it by failure. *)
LEMMA HoldStep ==
  ASSUME Typed, Alone, LockIdleByFailure, [Next]_vars
  PROVE  Alone' /\ LockIdleByFailure'
<1> SUFFICES ASSUME NEW p \in Process
             PROVE  /\ Working(p)' => advisory' = p
                    /\ advisory' = p /\ ~Working(p)' => p \in kept'
  BY DEF Alone, LockIdleByFailure
<1>a. /\ \A r \in Process : /\ Working(r) => advisory = r
                            /\ advisory = r /\ ~Working(r) => r \in kept
      /\ advisory \in Process \cup {None} /\ pc \in [Process -> PcState]
  BY DEF Alone, LockIdleByFailure, Typed
<1>1. CASE (\E b \in Batch : LeaseExpires(b)) \/ UNCHANGED vars
  BY <1>1, <1>a, QuietSteps DEF Working
<1>2. ASSUME NEW q \in Process, Step(q)
      PROVE  /\ Working(p)' => advisory' = p
             /\ advisory' = p /\ ~Working(p)' => p \in kept'
  <2>a. p # q => pc'[p] = pc[p]
    BY <1>2, OthersStay
  <2>1. CASE Start(q) \/ RecoverStep(q)
    <3>1. UNCHANGED session /\ ~Working(q) /\ ~Working(q)'
      BY <2>1, <1>a DEF Start, RecoverStep, Leave, RecoverBatch, RecoverRuns, Recovered, Goto, Working, session
    <3>2. QED
      BY <1>a, <2>a, <3>1 DEF Working, session
  <2>2. CASE TryLock(q)
    <3>1. advisory \in {None, q} /\ advisory' = q /\ kept' = kept /\ Working(q)'
      BY <2>2, <1>a DEF TryLock, Free, Goto, Working
    <3>2. QED
      BY <1>a, <2>a, <3>1 DEF Working
  <2>3. CASE SkipActive(q) \/ NoRowLeft(q) \/ CloseBatch(q) \/ FailGuarded(q)
    <3>1. Unlock(q) /\ Working(q) /\ ~Working(q)'
      BY <2>3, <1>a DEF SkipActive, NoRowLeft, CloseBatch, FailGuarded, Reset, Goto, Working
    <3>2. QED
      BY <1>a, <2>a, <3>1 DEF Working, Unlock
  <2>4. CASE OpenBatch(q) \/ BeginTenant(q) \/ TenantDone(q) \/ \E failFast \in FailFast : TenantFails(q, failFast)
    <3>1. UNCHANGED session /\ Working(q) /\ Working(q)'
      BY <2>4, <1>a DEF OpenBatch, BeginTenant, TenantDone, TenantFails, Goto, Working, session
    <3>2. QED
      BY <1>a, <2>a, <3>1 DEF Working, session
  <2>5. CASE FailUnguarded(q)
    <3>1. advisory' = advisory /\ kept' = kept \cup {q} /\ Working(q) /\ ~Working(q)'
      BY <2>5, <1>a DEF FailUnguarded, Reset, Goto, Working
    <3>2. QED
      BY <1>a, <2>a, <3>1 DEF Working
  <2>6. CASE Disconnect(q)
    <3>1. advisory = q /\ advisory' = None /\ kept' = kept \ {q} /\ ~Working(q)' /\ ~Working(q)
      BY <2>6, <1>a DEF Disconnect, local, Working
    <3>2. QED
      BY <1>a, <2>a, <3>1 DEF Working
  <2>7. CASE Crash(q)
    <3>1. /\ advisory' = IF advisory = q THEN None ELSE advisory
          /\ kept' = kept \ {q} /\ ~Working(q)'
      BY <2>7, <1>a DEF Crash, Reset, Goto, Working
    <3>2. QED
      BY <1>a, <2>a, <3>1 DEF Working
  <2>8. QED
    BY <1>2, <2>1, <2>2, <2>3, <2>4, <2>5, <2>6, <2>7 DEF Step, WorkStep
<1>3. QED
  BY <1>1, <1>2, WhoSteps

LEMMA HandsStep ==
  ASSUME Typed, Hands, [Next]_vars
  PROVE  Hands'
<1> DEFINE Hand(p) == /\ mine[p] # None <=> pc[p] \in {"opened", "tenant"}
                      /\ pc[p] = "tenant" => now[p] \in todo[p]
                      /\ pc[p] # "recovering" => stale[p] = NoStale
                      /\ \A b, c \in stale[p].saved : b = c
<1> SUFFICES ASSUME NEW p \in Process
             PROVE  Hand(p)'
  BY DEF Hands
<1>a. Hand(p) /\ stale[p] \in StaleLists
  BY DEF Hands, Typed
<1>1. CASE (\E b \in Batch : LeaseExpires(b)) \/ UNCHANGED vars
  <2>1. UNCHANGED <<pc, mine, todo, now, stale>>
    BY <1>1, QuietSteps
  <2>2. QED
    BY <1>a, <2>1
<1>2. ASSUME NEW q \in Process, Step(q), p # q
      PROVE  Hand(p)'
  BY <1>2, <1>a, OthersStay DEF KeepsWork
<1>3. CASE Step(p)
  <2> USE DEF KeepsWork
  <2>1. (mine'[p] # None) <=> pc'[p] \in {"opened", "tenant"}
    BY <1>3, <1>a, OwnSteps DEF Recovered, Unused
  <2>2. pc'[p] = "tenant" => now'[p] \in todo'[p]
    BY <1>3, <1>a, OwnSteps
  <2>3. pc'[p] # "recovering" => stale'[p] = NoStale
    BY <1>3, <1>a, OwnSteps DEF Recovered, NoStale
  <2>4. \A b, c \in stale'[p].saved : b = c
    <3>1. stale'[p] = stale[p] \/ stale'[p].saved = stale[p].saved \/ \E b : stale'[p].saved = {b}
            \/ stale'[p].saved = {}
      <4>1. \/ stale'[p] = stale[p] \/ stale'[p] = NoStale
            \/ stale'[p] = [stale[p] EXCEPT !.listed = {b \in Batch : Expired(b)}]
            \/ \E b \in Batch : stale'[p] = [listed |-> stale[p].listed \ {b}, saved |-> {b}]
            \/ stale'[p] = [stale[p] EXCEPT !.saved = {}]
        BY <1>3, OwnSteps
      <4>2. stale[p] \in StaleLists
        BY <1>a
      <4>3. /\ \A l : [stale[p] EXCEPT !.listed = l].saved = stale[p].saved
            /\ [stale[p] EXCEPT !.saved = {}].saved = {}
        BY <4>2 DEF StaleLists
      <4>4. NoStale.saved = {}
        BY DEF NoStale
      <4>5. CASE \E b \in Batch : stale'[p] = [listed |-> stale[p].listed \ {b}, saved |-> {b}]
        <5>1. PICK b \in Batch : stale'[p] = [listed |-> stale[p].listed \ {b}, saved |-> {b}]
          BY <4>5
        <5>2. stale'[p].saved = {b}
          BY <5>1
        <5>3. QED
          BY <5>2
      <4>6. CASE stale'[p] = [stale[p] EXCEPT !.listed = {b \in Batch : Expired(b)}]
        <5> DEFINE l == {b \in Batch : Expired(b)}
        <5>1. stale'[p] = [stale[p] EXCEPT !.listed = l]
          BY <4>6
        <5> HIDE DEF l
        <5>2. QED
          BY <5>1, <4>3
      <4>7. QED
        BY <4>1, <4>3, <4>4, <4>5, <4>6
    <3>2. QED
      BY <1>a, <3>1
  <2>5. QED
    BY <2>1, <2>2, <2>3, <2>4
<1>4. QED
  BY <1>1, <1>2, <1>3, WhoSteps

(* A batch has one owner. *)
LEMMA OneOwner ==
  ASSUME Alone, Hands, NEW p \in Process, NEW q \in Process, mine[p] # None, Working(q)
  PROVE  p = q
BY DEF Alone, Hands, Working

(* What a process has listed, saved and opened it got by a step of its own. *)
LEMMA StaleSteps ==
  ASSUME Typed, [Next]_vars, NEW p \in Process, NEW b \in Batch
  PROVE  /\ b \in stale'[p].listed => b \in stale[p].listed \/ Expired(b)
         /\ b \in stale'[p].saved => b \in stale[p].saved \/ RecoverBatch(p, b)
<1>a. stale[p] \in StaleLists
  BY DEF Typed
<1>b. /\ \A l : /\ [stale[p] EXCEPT !.listed = l].listed = l
                /\ [stale[p] EXCEPT !.listed = l].saved = stale[p].saved
      /\ [stale[p] EXCEPT !.saved = {}].saved = {}
      /\ [stale[p] EXCEPT !.saved = {}].listed = stale[p].listed
  BY <1>a DEF StaleLists
<1>1. CASE stale'[p] = stale[p] \/ stale'[p] = NoStale
  BY <1>1 DEF NoStale
<1>2. CASE stale'[p] = [stale[p] EXCEPT !.listed = {c \in Batch : Expired(c)}]
  <2> DEFINE l == {c \in Batch : Expired(c)}
  <2>1. stale'[p] = [stale[p] EXCEPT !.listed = l] /\ (b \in l => Expired(b))
    BY <1>2
  <2> HIDE DEF l
  <2>2. QED
    BY <2>1, <1>b
<1>3. ASSUME NEW c \in Batch, RecoverBatch(p, c),
             stale'[p] = [listed |-> stale[p].listed \ {c}, saved |-> {c}]
      PROVE  /\ b \in stale'[p].listed => b \in stale[p].listed
             /\ b \in stale'[p].saved => RecoverBatch(p, b)
  <2>1. stale'[p].listed = stale[p].listed \ {c} /\ stale'[p].saved = {c}
    BY <1>3
  <2>2. QED
    BY <1>3, <2>1
<1>4. CASE stale'[p] = [stale[p] EXCEPT !.saved = {}]
  BY <1>4, <1>b
<1>5. CASE Step(p)
  <2>1. \/ stale'[p] = stale[p] \/ stale'[p] = NoStale
        \/ stale'[p] = [stale[p] EXCEPT !.listed = {c \in Batch : Expired(c)}]
        \/ \E c \in Batch : /\ RecoverBatch(p, c)
                            /\ stale'[p] = [listed |-> stale[p].listed \ {c}, saved |-> {c}]
        \/ stale'[p] = [stale[p] EXCEPT !.saved = {}]
    BY <1>5, OwnSteps
  <2>2. QED
    BY <2>1, <1>1, <1>2, <1>3, <1>4
<1>6. CASE \E q \in Process : Step(q) /\ p # q
  <2>1. stale'[p] = stale[p]
    BY <1>6, OthersStay
  <2>2. QED
    BY <2>1, <1>1
<1>7. CASE (\E c \in Batch : LeaseExpires(c)) \/ UNCHANGED vars
  <2>1. stale'[p] = stale[p]
    BY <1>7, QuietSteps
  <2>2. QED
    BY <2>1, <1>1
<1>8. QED
  BY <1>5, <1>6, <1>7, WhoSteps

LEMMA MineSteps ==
  ASSUME Typed, [Next]_vars, NEW p \in Process
  PROVE  \/ mine'[p] = mine[p]
         \/ mine'[p] = None /\ Step(p)
         \/ /\ OpenBatch(p) /\ mine'[p] \in Unused
            /\ batch'[mine'[p]] = [status |-> "running", fresh |-> TRUE]
            /\ todo'[p] = Tenant /\ pc'[p] = "opened"
<1>1. ASSUME Step(p)
      PROVE  \/ mine'[p] = mine[p] \/ mine'[p] = None
             \/ OpenBatch(p) /\ mine'[p] \in Unused /\ todo'[p] = Tenant /\ pc'[p] = "opened"
  BY <1>1, OwnSteps DEF KeepsWork
<1>2. ASSUME OpenBatch(p), mine'[p] \in Unused
      PROVE  batch'[mine'[p]] = [status |-> "running", fresh |-> TRUE]
  <2> DEFINE c == CHOOSE c \in Unused : TRUE
  <2>1. /\ batch' = [batch EXCEPT ![c] = [status |-> "running", fresh |-> TRUE]]
        /\ mine' = [mine EXCEPT ![p] = c]
    BY <1>2 DEF OpenBatch
  <2>2. c \in Batch
    BY <1>2 DEF OpenBatch, Unused
  <2> HIDE DEF c
  <2>3. QED
    BY <2>1, <2>2 DEF Typed
<1>3. CASE \E q \in Process : Step(q) /\ p # q
  BY <1>3, OthersStay DEF KeepsWork
<1>4. CASE (\E c \in Batch : LeaseExpires(c)) \/ UNCHANGED vars
  BY <1>4, QuietSteps
<1>5. CASE Step(p)
  BY <1>1, <1>2, <1>5
<1>6. QED
  BY <1>3, <1>4, <1>5, WhoSteps

LEMMA FreshStep ==
  ASSUME Typed, Hands, Fresh, [Next]_vars
  PROVE  Fresh'
<1> SUFFICES ASSUME NEW b \in Batch, batch'[b].status = "none"
             PROVE  /\ \A t \in Tenant : run'[b][t] = [own |-> "none", extra |-> FALSE]
                    /\ \A p \in Process : mine'[p] # b /\ b \notin stale'[p].listed \cup stale'[p].saved
  BY DEF Fresh
<1>1. batch[b].status = "none"
  BY BatchSteps, SummaryType DEF Ended
<1>2. /\ \A t \in Tenant : run[b][t] = [own |-> "none", extra |-> FALSE]
      /\ \A p \in Process : mine[p] # b /\ b \notin stale[p].listed \cup stale[p].saved
  BY <1>1 DEF Fresh
<1>3. ASSUME NEW t \in Tenant
      PROVE  run'[b][t] = [own |-> "none", extra |-> FALSE]
  <2>1. run[b][t].own # "running"
    BY <1>2
  <2>2. run'[b][t] = run[b][t]
    BY <1>2, <2>1, RunSteps
  <2>3. QED
    BY <1>2, <2>2
<1>4. ASSUME NEW p \in Process
      PROVE  mine'[p] # b /\ b \notin stale'[p].listed \cup stale'[p].saved
  <2>1. mine'[p] # b
    BY <1>2, MineSteps
  <2>2. ~RecoverBatch(p, b) /\ ~Expired(b)
    BY <1>1, <1>2 DEF RecoverBatch, Expired
  <2>3. QED
    BY <1>2, <2>1, <2>2, StaleSteps
<1>5. QED
  BY <1>3, <1>4

-----------------------------------------------------------------------------
(* The steps of an owner's work, where the batch's verdict comes from. *)
LEMMA TenantSteps ==
  ASSUME Typed, Hands, NEW p \in Process
  PROVE  /\ BeginTenant(p) => Working(p) /\ todo'[p] = todo[p] /\ pc'[p] = "tenant"
         /\ TenantDone(p) => Working(p) /\ run'[mine[p]][now[p]].own = "succeeded"
         /\ (\E failFast \in FailFast : TenantFails(p, failFast)) =>
              Working(p) /\ run'[mine[p]][now[p]].extra /\ tally'[p].failed
         /\ CloseBatch(p) =>
              Working(p) /\ pc[p] = "opened" /\ todo[p] = {} /\ mine'[p] = None /\ run' = run
<1>a. LocalType /\ run \in [Batch -> [Tenant -> RunRow]]
  BY DEF Typed, LocalType
<1>b. pc[p] = "tenant" => run[mine[p]][now[p]] \in RunRow /\ mine[p] \in Batch /\ now[p] \in Tenant
  BY <1>a, AtHand
<1>1. BeginTenant(p) => Working(p) /\ todo'[p] = todo[p] /\ pc'[p] = "tenant"
  BY <1>a DEF BeginTenant, Working, Goto, LocalType
<1>2. ASSUME TenantDone(p)
      PROVE  Working(p) /\ run'[mine[p]][now[p]].own = "succeeded"
  <2>1. run' = [run EXCEPT ![mine[p]] = [run[mine[p]] EXCEPT ![now[p]] =
                  [run[mine[p]][now[p]] EXCEPT !.own = "succeeded"]]]
    BY <1>2 DEF TenantDone
  <2>2. run'[mine[p]][now[p]] = [run[mine[p]][now[p]] EXCEPT !.own = "succeeded"]
    BY <1>2, <1>a, <1>b, <2>1 DEF TenantDone
  <2>3. QED
    BY <1>2, <1>b, <2>2 DEF TenantDone, Working, RunRow
<1>3. ASSUME NEW failFast \in FailFast, TenantFails(p, failFast)
      PROVE  Working(p) /\ run'[mine[p]][now[p]].extra /\ tally'[p].failed
  <2>1. run' = [run EXCEPT ![mine[p]] = [run[mine[p]] EXCEPT ![now[p]] =
                  [run[mine[p]][now[p]] EXCEPT !.extra = TRUE]]]
    BY <1>3 DEF TenantFails
  <2> DEFINE r == [run[mine[p]][now[p]] EXCEPT !.extra = TRUE]
             b == mine[p]
             t == now[p]
  <2>a. run' = [run EXCEPT ![b] = [run[b] EXCEPT ![t] = r]] /\ b \in Batch /\ t \in Tenant
    BY <1>3, <1>b, <2>1 DEF TenantFails
  <2> HIDE DEF r, b, t
  <2>b. run'[b][t] = r
    BY <1>a, <2>a
  <2>2. run'[mine[p]][now[p]] = [run[mine[p]][now[p]] EXCEPT !.extra = TRUE]
    BY <2>b DEF r, b, t
  <2>3. tally'[p].failed
    BY <1>3, <1>a DEF TenantFails, LocalType, Tally
  <2>4. QED
    BY <1>3, <1>b, <2>2, <2>3 DEF TenantFails, Working, RunRow
<1>4. CloseBatch(p) =>
        Working(p) /\ pc[p] = "opened" /\ todo[p] = {} /\ mine'[p] = None /\ run' = run
  BY <1>a DEF CloseBatch, Working, Reset, LocalType
<1>5. QED
  BY <1>1, <1>2, <1>3, <1>4

LEMMA PlaceSteps ==
  ASSUME Typed, Hands, [Next]_vars, NEW p \in Process, mine[p] # None, mine'[p] = mine[p]
  PROVE  /\ tally[p].failed => tally'[p].failed
         /\ \/ todo'[p] = todo[p] \/ tally'[p].failed
            \/ TenantDone(p) /\ todo'[p] = todo[p] \ {now[p]}
         /\ pc[p] = "tenant" => \/ pc'[p] = "tenant" /\ now'[p] = now[p]
                                \/ TenantDone(p) \/ \E failFast \in FailFast : TenantFails(p, failFast)
<1>1. CASE Step(p)
  <2>1. pc[p] \in {"opened", "tenant"}
    BY DEF Hands
  <2>2. tally[p].failed => tally'[p].failed
    BY <1>1, <2>1, OwnSteps DEF KeepsWork
  <2>3. \/ todo'[p] = todo[p] \/ tally'[p].failed
        \/ TenantDone(p) /\ todo'[p] = todo[p] \ {now[p]}
    BY <1>1, <2>1, OwnSteps DEF KeepsWork, Recovered
  <2>4. pc[p] = "tenant" => \/ pc'[p] = "tenant" /\ now'[p] = now[p]
                            \/ TenantDone(p) \/ \E failFast \in FailFast : TenantFails(p, failFast)
    BY <1>1, <2>1, OwnSteps DEF KeepsWork, Recovered
  <2>5. QED
    BY <2>2, <2>3, <2>4
<1>2. CASE \E q \in Process : Step(q) /\ p # q
  BY <1>2, OthersStay DEF KeepsWork
<1>3. CASE (\E c \in Batch : LeaseExpires(c)) \/ UNCHANGED vars
  BY <1>3, QuietSteps
<1>4. QED
  BY <1>1, <1>2, <1>3, WhoSteps

LEMMA HistorySteps ==
  ASSUME [Next]_vars
  PROVE  late \subseteq late' /\ torn \subseteq torn'
BY DEF Next, RecoverStep, WorkStep, Start, TryLock, Leave, RecoverBatch, RecoverRuns, SkipActive,
   NoRowLeft, OpenBatch, BeginTenant, TenantDone, TenantFails, CloseBatch, FailUnguarded, FailGuarded,
   Disconnect, Crash, LeaseExpires, history, vars

(* The batch a process worked on and works on now, or has just opened. *)
LEMMA OwnedSteps ==
  ASSUME Typed, Hands, [Next]_vars, NEW p \in Process, mine'[p] # None
  PROVE  \/ mine'[p] = mine[p] /\ mine[p] \in Batch
         \/ /\ mine'[p] \in Batch /\ batch[mine'[p]].status = "none"
            /\ batch'[mine'[p]] = [status |-> "running", fresh |-> TRUE]
            /\ todo'[p] = Tenant
BY MineSteps DEF Typed, Unused

LEMMA VerdictsStep ==
  ASSUME Typed, Alone, Hands, Fresh, Verdicts, [Next]_vars
  PROVE  Verdicts'
<1> SUFFICES ASSUME NEW p \in Process, mine'[p] # None, ~tally'[p].failed, NEW t \in Tenant
             PROVE  /\ ~run'[mine'[p]][t].extra
                    /\ t \notin todo'[p] => run'[mine'[p]][t].own = "succeeded"
  BY DEF Verdicts
<1>1. CASE mine'[p] = mine[p] /\ mine[p] \in Batch
  <2> DEFINE b == mine[p]
  <2>a. b \in Batch /\ mine'[p] = b /\ mine[p] # None
    BY <1>1
  <2>1. ~tally[p].failed
    BY <2>a, PlaceSteps
  <2>2. ~run[b][t].extra /\ (t \notin todo[p] => run[b][t].own = "succeeded")
    BY <2>a, <2>1 DEF Verdicts
  <2>3. todo'[p] = todo[p] \/ (TenantDone(p) /\ todo'[p] = todo[p] \ {now[p]})
    BY <2>a, PlaceSteps
  <2>4. t \notin todo'[p] => t \notin todo[p] \/ run'[b][t].own = "succeeded"
    BY <2>3, TenantSteps
  <2>5. ASSUME NEW q \in Process, mine[q] = b, Working(q)
        PROVE  p = q
    BY <2>a, <2>5, OneOwner
  <2>6. CASE run'[b][t] = run[b][t]
    BY <2>a, <2>2, <2>4, <2>6
  <2>7. CASE \E q \in Process : RecoverRuns(q, b) /\ run[b][t].own = "running" /\ run'[b][t].extra = run[b][t].extra
    BY <2>a, <2>2, <2>4, <2>7
  <2>8. CASE \E q \in Process : /\ mine[q] = b /\ t \in todo[q] /\ BeginTenant(q)
                                /\ run'[b][t].extra = run[b][t].extra
    BY <2>a, <2>2, <2>5, <2>8, TenantSteps
  <2>9. CASE \E q \in Process : /\ mine[q] = b /\ TenantDone(q)
                                /\ run'[b][t].own = "succeeded" /\ run'[b][t].extra = run[b][t].extra
    BY <2>a, <2>2, <2>9
  <2>10. CASE \E q \in Process : mine[q] = b /\ \E failFast \in FailFast : TenantFails(q, failFast)
    BY <2>5, <2>10, TenantSteps
  <2> HIDE DEF b
  <2>11. QED
    BY <2>a, <2>6, <2>7, <2>8, <2>9, <2>10, RunSteps
<1>2. CASE mine'[p] \in Batch /\ batch[mine'[p]].status = "none" /\ todo'[p] = Tenant
  <2>1. /\ run[mine'[p]][t] = [own |-> "none", extra |-> FALSE]
        /\ \A q \in Process : mine[q] # mine'[p]
    BY <1>2 DEF Fresh
  <2>2. run'[mine'[p]][t] = run[mine'[p]][t]
    <3> DEFINE b == mine'[p]
    <3>1. b \in Batch /\ run[b][t].own # "running" /\ \A q \in Process : mine[q] # b
      BY <1>2, <2>1
    <3> HIDE DEF b
    <3>2. run'[b][t] = run[b][t]
      BY <3>1, RunSteps
    <3>3. QED
      BY <3>2 DEF b
  <2>3. QED
    BY <1>2, <2>1, <2>2
<1>3. QED
  BY <1>1, <1>2, OwnedSteps

LEMMA RunsStep ==
  ASSUME Typed, Alone, Hands, Fresh, Runs, [Next]_vars
  PROVE  Runs'
<1> SUFFICES ASSUME NEW p \in Process, mine'[p] # None, NEW t \in Tenant,
                    run'[mine'[p]][t].own = "running"
             PROVE  run'[mine'[p]][t].extra \/ (pc'[p] = "tenant" /\ now'[p] = t)
  BY DEF Runs
<1>1. CASE mine'[p] = mine[p] /\ mine[p] \in Batch
  <2> DEFINE b == mine[p]
  <2>a. b \in Batch /\ mine'[p] = b /\ mine[p] # None /\ run'[b][t].own = "running"
    BY <1>1
  <2>1. run[b][t].own = "running" => run[b][t].extra \/ (pc[p] = "tenant" /\ now[p] = t)
    BY <2>a DEF Runs
  <2>2. pc[p] = "tenant" => \/ pc'[p] = "tenant" /\ now'[p] = now[p]
                            \/ run'[b][now[p]].own = "succeeded" \/ run'[b][now[p]].extra
    BY <2>a, PlaceSteps, TenantSteps
  <2>3. ASSUME NEW q \in Process, mine[q] = b, Working(q)
        PROVE  p = q
    BY <2>a, <2>3, OneOwner
  <2>4. CASE run'[b][t] = run[b][t]
    BY <2>a, <2>1, <2>2, <2>4
  <2>5. CASE run'[b][t].own \in {"failed", "succeeded"}
    BY <2>a, <2>5
  <2>6. CASE \E q \in Process : mine[q] = b /\ BeginTenant(q) /\ now'[q] = t
    BY <2>a, <2>3, <2>6, TenantSteps
  <2>7. CASE run'[b][t].extra
    BY <2>a, <2>7
  <2> HIDE DEF b
  <2>8. QED
    BY <2>a, <2>4, <2>5, <2>6, <2>7, RunSteps
<1>2. CASE mine'[p] \in Batch /\ batch[mine'[p]].status = "none"
  <2> DEFINE b == mine'[p]
  <2>1. /\ b \in Batch /\ run[b][t].own = "none" /\ \A q \in Process : mine[q] # b
        /\ run'[b][t].own = "running"
    BY <1>2 DEF Fresh
  <2> HIDE DEF b
  <2>2. FALSE
    BY <2>1, RunSteps
  <2>3. QED
    BY <2>2
<1>3. QED
  BY <1>1, <1>2, OwnedSteps

LEMMA LeasesStep ==
  ASSUME Typed, Alone, Hands, Fresh, Leases, [Next]_vars
  PROVE  Leases'
<1>a. \A p \in Process : mine[p] # None =>
        /\ batch[mine[p]].status \in {"running", "failed"}
        /\ ~batch[mine[p]].fresh \/ batch[mine[p]].status = "failed" => mine[p] \in late
  BY DEF Leases
<1>b. \A p \in Process : \A b \in stale[p].listed :
        /\ batch[b].status \in {"running", "failed"} \/ b \in late
        /\ (\E q \in Process : mine[q] = b) => b \in late
  BY DEF Leases
<1>c. \A b : b \in late => b \in late'
  BY HistorySteps
<1>d. \A p \in Process, b \in Batch : RecoverBatch(p, b) => b \in stale[p].listed
  BY DEF RecoverBatch
<1>1. ASSUME NEW p \in Process, mine'[p] # None
      PROVE  /\ batch'[mine'[p]].status \in {"running", "failed"}
             /\ ~batch'[mine'[p]].fresh \/ batch'[mine'[p]].status = "failed" => mine'[p] \in late'
  <2>1. CASE mine'[p] = mine[p] /\ mine[p] \in Batch
    <3> DEFINE b == mine[p]
    <3>a. /\ b \in Batch /\ mine'[p] = b /\ mine[p] = b /\ b # None
          /\ batch[b].status \in {"running", "failed"}
          /\ ~batch[b].fresh \/ batch[b].status = "failed" => b \in late
      BY <2>1, <1>a, <1>1
    <3> HIDE DEF b
    <3>1. CASE \E q \in Process : RecoverBatch(q, b) /\ batch'[b].status = "failed"
      BY <3>1, <3>a, <1>b, <1>c, <1>d
    <3>2. CASE LeaseExpires(b) /\ batch'[b].status = "running"
      BY <3>2, <3>a DEF LeaseExpires, Owner
    <3>3. CASE \E q \in Process : CloseBatch(q) /\ mine[q] = b
      <4>1. PICK q \in Process : CloseBatch(q) /\ mine[q] = b
        BY <3>3
      <4>2. mine'[q] = None /\ Working(q)
        BY <4>1, TenantSteps
      <4>3. p = q
        BY <3>a, <4>2, OneOwner
      <4>4. QED
        BY <3>a, <4>2, <4>3
    <3>4. CASE batch'[b] = batch[b] \/ (batch'[b].status = batch[b].status /\ batch'[b].fresh)
      BY <3>4, <3>a, <1>c
    <3>5. CASE batch[b].status = "none"
      BY <3>5, <3>a
    <3>6. QED
      BY <3>1, <3>2, <3>3, <3>4, <3>5, <3>a, BatchSteps
  <2>2. CASE batch'[mine'[p]] = [status |-> "running", fresh |-> TRUE]
    BY <2>2
  <2>3. QED
    BY <1>1, <2>1, <2>2, OwnedSteps
<1>2. ASSUME NEW p \in Process, NEW b \in stale'[p].listed
      PROVE  /\ batch'[b].status \in {"running", "failed"} \/ b \in late'
             /\ (\E q \in Process : mine'[q] = b) => b \in late'
  <2>1. b \in Batch
    <3>1. Typed'
      BY TypedStep
    <3>2. QED
      BY <3>1 DEF Typed, StaleLists
  <2>2. b \in stale[p].listed \/ Expired(b)
    BY <1>2, <2>1, StaleSteps
  <2>3. /\ batch[b].status \in {"running", "failed"} \/ b \in late
        /\ (\E q \in Process : mine[q] = b) => b \in late
    BY <2>1, <2>2, <1>a, <1>b DEF Expired
  <2>4. batch[b].status # "none"
    BY <2>1, <2>2 DEF Fresh, Expired
  <2>5. batch'[b].status \in {"running", "failed"} \/ b \in late'
    BY <2>1, <2>3, <2>4, <1>c, BatchSteps
  <2>6. ASSUME NEW q \in Process, mine'[q] = b
        PROVE  b \in late'
    <3>1. mine[q] = b
      BY <2>1, <2>4, <2>6, OwnedSteps
    <3>2. QED
      BY <2>3, <3>1, <1>c
  <2>7. QED
    BY <2>5, <2>6
<1>3. QED
  BY <1>1, <1>2 DEF Leases

LEMMA SuccessStep ==
  ASSUME Typed, Hands, Verdicts, Leases, SuccessIsEveryTenant, [Next]_vars
  PROVE  SuccessIsEveryTenant'
<1> SUFFICES ASSUME NEW b \in Batch, batch'[b].status = "succeeded", NEW t \in Tenant
             PROVE  run'[b][t] = [own |-> "succeeded", extra |-> FALSE]
  BY DEF SuccessIsEveryTenant
<1>a. run[b][t] \in RunRow
  BY DEF Typed
<1>1. CASE batch[b].status = "succeeded"
  <2>1. run[b][t] = [own |-> "succeeded", extra |-> FALSE]
    BY <1>1 DEF SuccessIsEveryTenant
  <2>2. \A q \in Process : mine[q] # b
    BY <1>1 DEF Leases, Typed
  <2>3. run'[b][t] = run[b][t]
    BY <2>1, <2>2, RunSteps
  <2>4. QED
    BY <2>1, <2>3
<1>2. CASE \E p \in Process : CloseBatch(p) /\ mine[p] = b /\ batch'[b].status = Summary(tally[p])
  <2>1. PICK p \in Process : CloseBatch(p) /\ mine[p] = b /\ batch'[b].status = Summary(tally[p])
    BY <1>2
  <2>2. todo[p] = {} /\ run' = run
    BY <2>1, TenantSteps
  <2>3. ~tally[p].failed
    <3>1. Summary(tally[p]) = "succeeded" /\ tally[p] \in Tally
      BY <2>1 DEF Typed
    <3>2. QED
      BY <3>1 DEF Summary, Tally
  <2>4. run[b][t].own = "succeeded" /\ ~run[b][t].extra
    BY <2>1, <2>2, <2>3 DEF Verdicts
  <2>5. QED
    BY <1>a, <2>2, <2>4 DEF RunRow
<1>3. QED
  BY <1>1, <1>2, BatchSteps

LEMMA LeftStep ==
  ASSUME Typed, Hands, Fresh, Runs, RunLeftRunning, [Next]_vars
  PROVE  RunLeftRunning'
<1> SUFFICES ASSUME NEW b \in Batch, NEW t \in Tenant,
                    batch'[b].status \in Ended, run'[b][t].own = "running"
             PROVE  \/ run'[b][t].extra \/ b \in torn'
                    \/ \E p \in Process : mine'[p] = b \/ b \in stale'[p].saved
  BY DEF RunLeftRunning
<1>a. \A c : c \in torn => c \in torn'
  BY HistorySteps
<1>1. ASSUME NEW q \in Process, BeginTenant(q), mine[q] = b
      PROVE  mine'[q] = b
  BY <1>1 DEF BeginTenant
<1>2. CASE \E q \in Process : BeginTenant(q) /\ mine[q] = b
  BY <1>1, <1>2
<1>3. CASE run'[b][t].extra
  BY <1>3
<1>4. CASE run'[b][t] = run[b][t] /\ ~run'[b][t].extra
  <2>a. run[b][t].own = "running" /\ ~run[b][t].extra
    BY <1>4
  <2>1. CASE batch[b].status \in Ended
    <3>1. b \in torn \/ \E p \in Process : mine[p] = b \/ b \in stale[p].saved
      BY <2>a, <2>1 DEF RunLeftRunning
    <3>2. ASSUME NEW p \in Process, mine[p] = b
          PROVE  mine'[p] = b \/ b \in torn'
      <4>1. pc[p] = "tenant" /\ now[p] = t
        BY <2>a, <3>2 DEF Runs, Typed
      <4>2. CASE Step(p)
        <5>1. CASE CloseBatch(p) \/ FailUnguarded(p) \/ FailGuarded(p)
          BY <5>1, <4>1 DEF CloseBatch, FailUnguarded, FailGuarded
        <5>2. CASE Crash(p)
          BY <5>2, <3>2, <2>1 DEF Crash
        <5>3. CASE ~(CloseBatch(p) \/ FailUnguarded(p) \/ FailGuarded(p) \/ Crash(p))
          BY <4>1, <4>2, <5>3, <3>2, OwnSteps DEF KeepsWork, Recovered
        <5>4. QED
          BY <5>1, <5>2, <5>3
      <4>3. CASE ~Step(p)
        BY <4>3, <3>2, <4>1, MineSteps DEF Step, WorkStep
      <4>4. QED
        BY <4>2, <4>3
    <3>3. ASSUME NEW p \in Process, b \in stale[p].saved
          PROVE  b \in stale'[p].saved \/ b \in torn'
      <4>1. CASE \E q \in Process : Step(q) /\ p # q
        BY <3>3, <4>1, OthersStay
      <4>2. CASE (\E c \in Batch : LeaseExpires(c)) \/ UNCHANGED vars
        BY <3>3, <4>2, QuietSteps
      <4>3. CASE Step(p)
        <5>a. pc[p] = "recovering" /\ \A c \in stale[p].saved : c = b
          BY <3>3 DEF Hands, NoStale
        <5>1. ASSUME NEW c \in Batch, RecoverBatch(p, c) PROVE FALSE
          BY <5>1, <3>3 DEF RecoverBatch
        <5>2. ASSUME NEW c \in Batch, RecoverRuns(p, c) PROVE FALSE
          <6>1. c = b
            BY <5>2, <5>a DEF RecoverRuns
          <6>2. run'[b][t].own # "running"
            BY <5>2, <6>1, <2>a DEF RecoverRuns, CloseRuns, Typed, RunRow
          <6>3. QED
            BY <6>2
        <5>3. ASSUME Recovered(p) PROVE FALSE
          BY <5>3, <3>3 DEF Recovered
        <5>4. CASE Crash(p)
          BY <5>4, <3>3 DEF Crash
        <5>5. ASSUME CloseBatch(p) \/ FailUnguarded(p) \/ FailGuarded(p)
              PROVE  FALSE
          BY <5>5, <5>a DEF CloseBatch, FailUnguarded, FailGuarded
        <5>6. QED
          BY <4>3, <5>a, <5>1, <5>2, <5>3, <5>4, <5>5, OwnSteps
      <4>4. QED
        BY <4>1, <4>2, <4>3, WhoSteps
    <3>4. QED
      BY <1>a, <3>1, <3>2, <3>3
  <2>2. CASE \E p \in Process : RecoverBatch(p, b)
    <3>1. PICK p \in Process : RecoverBatch(p, b)
      BY <2>2
    <3>2. stale'[p] = [listed |-> stale[p].listed \ {b}, saved |-> {b}]
      BY <3>1 DEF RecoverBatch, Typed
    <3>3. b \in stale'[p].saved
      BY <3>2
    <3>4. QED
      BY <3>3
  <2>3. CASE \E p \in Process : CloseBatch(p) /\ mine[p] = b
    <3>1. PICK p \in Process : CloseBatch(p) /\ mine[p] = b
      BY <2>3
    <3>2. pc[p] = "opened"
      BY <3>1, TenantSteps
    <3>3. QED
      BY <2>a, <3>1, <3>2 DEF Runs, Typed
  <2>4. QED
    BY <2>1, <2>2, <2>3, BatchSteps DEF Ended
<1>5. QED
  BY <1>2, <1>3, <1>4, RunSteps

-----------------------------------------------------------------------------
LEMMA SoundInit == Init => Sound
<1> SUFFICES ASSUME Init
             PROVE  Sound
  OBVIOUS
<1>1. Alone /\ LockIdleByFailure
  BY DEF Init, Alone, LockIdleByFailure, Working
<1>2. Hands
  BY DEF Init, Hands, NoStale
<1>3. Fresh
  BY DEF Init, Fresh
<1>4. Verdicts /\ Runs
  BY DEF Init, Verdicts, Runs
<1>5. Leases
  BY DEF Init, Leases
<1>6. SuccessIsEveryTenant /\ RunLeftRunning
  BY DEF Init, SuccessIsEveryTenant, RunLeftRunning, Ended
<1>7. QED
  BY <1>1, <1>2, <1>3, <1>4, <1>5, <1>6 DEF Sound

LEMMA SoundStep == Typed /\ Sound /\ [Next]_vars => Typed' /\ Sound'
<1> SUFFICES ASSUME Typed, Sound, [Next]_vars
             PROVE  Typed' /\ Sound'
  OBVIOUS
<1>1. Alone /\ LockIdleByFailure /\ Hands /\ Fresh /\ Verdicts /\ Runs /\ Leases
        /\ SuccessIsEveryTenant /\ RunLeftRunning
  BY DEF Sound
<1>2. Typed' /\ Alone' /\ LockIdleByFailure' /\ Hands' /\ Fresh'
  BY <1>1, TypedStep, HoldStep, HandsStep, FreshStep
<1>3. Verdicts' /\ Runs' /\ Leases' /\ SuccessIsEveryTenant' /\ RunLeftRunning'
  BY <1>1, VerdictsStep, RunsStep, LeasesStep, SuccessStep, LeftStep
<1>4. QED
  BY <1>2, <1>3 DEF Sound

LEMMA SoundAlways == Spec => [](Typed /\ Sound)
<1>1. Init => Typed /\ Sound
  BY TypedInit, SoundInit
<1>2. QED
  BY <1>1, SoundStep, PTL DEF Spec

(* The batches, the tenants' runs and the processes keep their types. *)
THEOREM MonitorTypeCorrect == Spec => []MonitorTypeOK
<1>1. Typed => MonitorTypeOK
  BY TypedIsTypeOK
<1>2. QED
  BY <1>1, SoundAlways, PTL

(* No two processes work at the same time: the advisory lock sees to it,   *)
(* for a session that dies, fails or outlives its lease as well.           *)
THEOREM BatchesExcluded == Spec => []BatchesExclude
<1>1. Typed /\ Sound => BatchesExclude
  BY DEF Sound, Alone, BatchesExclude
<1>2. QED
  BY <1>1, SoundAlways, PTL

(* The advisory lock is held by a session that does not work only after an *)
(* exception that left it there (process_operational_monitoring).          *)
THEOREM LockIsIdleByFailure == Spec => []LockIdleByFailure
<1>1. Typed /\ Sound => LockIdleByFailure
  BY DEF Sound
<1>2. QED
  BY <1>1, SoundAlways, PTL

(* A batch saved as succeeded has a run of its own that succeeded for      *)
(* every tenant, whatever a recovery made of the rows in between.          *)
THEOREM SuccessCoversTenants == Spec => []SuccessIsEveryTenant
<1>1. Typed /\ Sound => SuccessIsEveryTenant
  BY DEF Sound
<1>2. QED
  BY <1>1, SoundAlways, PTL

(* A batch that has ended leaves a run running for a failed tenant, by the *)
(* death of the one that ended it, or until that one is done.              *)
THEOREM RunsAreClosed == Spec => []RunLeftRunning
<1>1. Typed /\ Sound => RunLeftRunning
  BY DEF Sound
<1>2. QED
  BY <1>1, SoundAlways, PTL

(* What a batch ended with is written over only where its lease had run    *)
(* out under its live owner.                                               *)
THEOREM RewrittenForItsLease == Spec => RewrittenForCause
<1>1. Typed /\ Sound /\ [Next]_vars =>
        \A b \in Batch :
          batch[b].status \in Ended /\ batch'[b].status # batch[b].status => b \in late
  <2> SUFFICES ASSUME Typed, Sound, [Next]_vars, NEW b \in Batch,
                      batch[b].status \in Ended, batch'[b].status # batch[b].status
               PROVE  b \in late
    OBVIOUS
  <2>1. Hands /\ Leases
    BY DEF Sound
  <2>2. \A p \in Process : mine[p] = b => b \in late
    BY <2>1 DEF Leases, Ended, Typed
  <2>3. CASE \E p \in Process : RecoverBatch(p, b) /\ batch'[b].status = "failed"
    BY <2>1, <2>3 DEF Leases, RecoverBatch, Ended
  <2>4. QED
    BY <2>1, <2>2, <2>3, BatchSteps DEF Ended
<1>2. QED
  BY <1>1, SoundAlways, PTL DEF Spec, RewrittenForCause

-----------------------------------------------------------------------------
(* OperationalAlerts, for any alerts, members and processes.               *)
USE AlertsAssumption, PolicyAssumption

(* A process takes a new look once its callbacks have run. *)
LooksIdle == \A p \in Runner : snapshot[p] # <<>> => post[p] = {}

(* The event e tells of the level that alert a stands at as row. *)
TellsOf(e, a, r) ==
  e.type = "escalated" /\ e.alert = a /\ e.cycle = r.reopens /\ e.level = r.level

(* Every level is told, about to be told, or was lost with its process. *)
Announced ==
  \A a \in Alert : alert[a].level > NormalLevel =>
    \/ \A m \in Manager : <<m, "escalated", a, alert[a].reopens, alert[a].level>> \in told
    \/ \E x \in Runner \cup Member : \E e \in post[x] : TellsOf(e, a, alert[a])
    \/ a \in lost

AlertsTyped ==
  /\ AlertsTypeOK /\ keys = told /\ Manager \subseteq active
  /\ DOMAIN snapshot = Runner /\ DOMAIN post = Runner \cup Member

LEMMA Levels ==
  /\ NormalLevel = 0 /\ OperationLevel = 1 /\ ManagementLevel = 2 /\ AdminLevel = 3
  /\ \A l \in 0..3, c \in BOOLEAN : Target(l, c) \in 0..3 /\ Target(l, c) >= l
BY DEF NormalLevel, OperationLevel, ManagementLevel, AdminLevel, Target, Lesser, Greater

LEMMA RowFields ==
  \A r \in Row :
    /\ r.status \in AlertStatus /\ r.severity \in Severity /\ r.owner \in Member \cup {NoOne}
    /\ r.level \in 0..3 /\ r.reopens \in Nat /\ r.late \in 0..2 /\ r.old \in BOOLEAN
BY Levels DEF Row

LEMMA RowUpdates ==
  ASSUME NEW r \in Row
  PROVE  /\ \A v \in AlertStatus : [r EXCEPT !.status = v] \in Row
         /\ \A v \in Severity : [r EXCEPT !.severity = v] \in Row
         /\ \A v \in Member \cup {NoOne} : [r EXCEPT !.owner = v] \in Row
         /\ \A v \in Nat : [r EXCEPT !.reopens = v] \in Row
         /\ \A v \in 0..3 : [r EXCEPT !.level = v] \in Row
         /\ \A v \in 0..2 : [r EXCEPT !.late = v] \in Row
         /\ [r EXCEPT !.level = NormalLevel] \in Row
         /\ [r EXCEPT !.late = 0] \in Row
         /\ [r EXCEPT !.old = TRUE] \in Row
<1>1. /\ \A v \in AlertStatus : [r EXCEPT !.status = v] \in Row
      /\ \A v \in Severity : [r EXCEPT !.severity = v] \in Row
      /\ \A v \in Member \cup {NoOne} : [r EXCEPT !.owner = v] \in Row
      /\ \A v \in Nat : [r EXCEPT !.reopens = v] \in Row
      /\ [r EXCEPT !.old = TRUE] \in Row
  BY DEF Row
<1>2. \A v \in 0..3 : [r EXCEPT !.level = v] \in Row
  BY Levels DEF Row
<1>3. \A v \in 0..2 : [r EXCEPT !.late = v] \in Row
  BY DEF Row
<1>4. 0 \in 0..2 /\ NormalLevel \in 0..3
  BY Levels
<1>5. QED
  BY <1>1, <1>2, <1>3, <1>4

LEMMA ResolvedRow ==
  ASSUME NEW r \in Row
  PROVE  Resolved(r) \in Row /\ Resolved(r).level = NormalLevel
<1> DEFINE r1 == [r EXCEPT !.status = "resolved"]
           r2 == [r1 EXCEPT !.level = NormalLevel]
           r3 == [r2 EXCEPT !.late = 0]
<1>1. Resolved(r).level = NormalLevel
  BY DEF Resolved, Row
<1>2. Resolved(r) = r3
  BY DEF Resolved
<1>3. r1 \in Row
  BY RowUpdates DEF AlertStatus
<1> HIDE DEF r1
<1>4. r2 \in Row
  BY <1>3, RowUpdates
<1> HIDE DEF r2
<1>5. r3 \in Row
  BY <1>4, RowUpdates
<1>6. QED
  BY <1>1, <1>2, <1>5

(* What a sync, the queue and the operators make of a row. *)
LEMMA SyncedRow ==
  ASSUME NEW r \in Row, NEW seen \in Condition
  PROVE  /\ Synced(r, seen) \in Row
         /\ \/ Synced(r, seen).level = 0
            \/ Synced(r, seen).level = r.level /\ Synced(r, seen).reopens = r.reopens
<1>1. seen # "healthy" => seen \in Severity
  BY DEF Condition, Severity
<1>2. r.level \in 0..3 /\ r.reopens \in Nat
  BY RowFields
<1>3. CASE r.status = "absent" /\ seen # "healthy"
  BY <1>1, <1>3, Levels DEF Synced, Row, AlertStatus, Open
<1>4. CASE r.status = "resolved" /\ seen # "healthy"
  <2> DEFINE n == [r EXCEPT !.status = "open", !.severity = seen, !.level = NormalLevel,
                            !.reopens = @ + 1, !.late = 0]
  <2>1. Synced(r, seen) = n
    BY <1>4 DEF Synced, Open
  <2>2. n \in Row
    <3> DEFINE k == r.reopens + 1
               r1 == [r EXCEPT !.status = "open"]
               r2 == [r1 EXCEPT !.severity = seen]
               r3 == [r2 EXCEPT !.level = NormalLevel]
               r4 == [r3 EXCEPT !.reopens = k]
               r5 == [r4 EXCEPT !.late = 0]
    <3>1. k \in Nat
      BY <1>2
    <3>2. n = r5
      BY DEF Row
    <3> HIDE DEF k
    <3>3. r1 \in Row
      BY RowUpdates DEF AlertStatus, Open
    <3> HIDE DEF r1
    <3>4. r2 \in Row
      BY <1>1, <1>4, <3>3, RowUpdates
    <3> HIDE DEF r2
    <3>5. r3 \in Row
      BY <3>4, RowUpdates
    <3> HIDE DEF r3
    <3>6. r4 \in Row
      BY <3>1, <3>5, RowUpdates
    <3> HIDE DEF r4
    <3>7. r5 \in Row
      BY <3>6, RowUpdates
    <3>8. QED
      BY <3>2, <3>7
  <2>3. n.level = 0
    BY Levels DEF Row
  <2>4. QED
    BY <2>1, <2>2, <2>3
<1>5. CASE r.status \in Open /\ seen # "healthy"
  BY <1>1, <1>5, Levels DEF Synced, Row, AlertStatus, Open
<1>6. CASE r.status \in Open /\ seen = "healthy"
  <2>1. Synced(r, seen) = Resolved(r)
    BY <1>6 DEF Synced, Open
  <2>2. QED
    BY <2>1, Levels, ResolvedRow
<1>7. CASE r.status \notin Open /\ seen = "healthy"
  <2>1. Synced(r, seen) = r
    BY <1>7 DEF Synced, Open
  <2>2. QED
    BY <2>1
<1>8. QED
  BY <1>3, <1>4, <1>5, <1>6, <1>7, RowFields DEF AlertStatus

LEMMA AutoLevelGrows ==
  ASSUME NEW a \in Alert, NEW r \in Row
  PROVE  AutoLevel(a, r) \in 0..3 /\ AutoLevel(a, r) >= r.level
<1>1. r.level \in 0..3 /\ (r.severity = "critical") \in BOOLEAN
  BY RowFields
<1>2. \E t : AutoLevel(a, r) = t /\ t \in 0..3 /\ t >= r.level
  BY <1>1 DEF AutoLevel, Target, Lesser, Greater, OperationLevel, ManagementLevel, AdminLevel
<1>3. QED
  BY <1>2

LEMMA QueuedRow ==
  ASSUME NEW a \in Alert, NEW r \in Row
  PROVE  /\ Queued(a, r) \in Row /\ Queued(a, r).reopens = r.reopens
         /\ Queued(a, r).level >= r.level
<1> DEFINE left == IF Leaver(r) THEN [r EXCEPT !.owner = NoOne] ELSE r
<1>1. left \in Row /\ left.reopens = r.reopens /\ left.level = r.level
  BY DEF Row
<1>2. Queued(a, r) = [left EXCEPT !.level = AutoLevel(a, left)]
  BY DEF Queued
<1> HIDE DEF left
<1>3. AutoLevel(a, left) \in 0..3 /\ AutoLevel(a, left) >= r.level
  BY <1>1, AutoLevelGrows
<1>4. QED
  BY <1>1, <1>2, <1>3, Levels DEF Row

LEMMA QueueTells ==
  ASSUME NEW a \in Alert, NEW r \in Row, "escalated" \in Tracked, Queued(a, r).level > r.level
  PROVE  \E e \in QueueEvents(a, r) : TellsOf(e, a, Queued(a, r))
<1> DEFINE n == Queued(a, r)
           e == [type |-> "escalated", alert |-> a, owner |-> n.owner, to |-> NoOne,
                 cycle |-> n.reopens, level |-> n.level, severity |-> n.severity]
<1>1. e \in QueueEvents(a, r)
  BY DEF QueueEvents, About
<1>2. TellsOf(e, a, n)
  BY DEF TellsOf
<1>3. QED
  BY <1>1, <1>2

LEMMA Events ==
  ASSUME NEW a \in Alert
  PROVE  /\ \A r, types, to : \A e \in About(a, r, types, to) : e.type \in EventType /\ e.alert \in Alert
         /\ \A r, seen : \A e \in SyncEvents(a, r, seen) : e.type \in EventType /\ e.alert \in Alert
         /\ \A r : \A e \in QueueEvents(a, r) : e.type \in EventType /\ e.alert \in Alert
<1>1. \A r, types, to : \A e \in About(a, r, types, to) : e.type \in EventType /\ e.alert \in Alert
  BY DEF About
<1>2. QED
  BY <1>1 DEF SyncEvents, QueueEvents

-----------------------------------------------------------------------------
(* What a step leaves of the levels, and of the events still to be told. *)
LevelsMove ==
  \A a \in Alert :
    \/ alert'[a].level = NormalLevel
    \/ alert'[a].level = alert[a].level /\ alert'[a].reopens = alert[a].reopens
    \/ \E x \in Runner \cup Member : \E e \in post'[x] : TellsOf(e, a, alert'[a])
    \/ "escalated" \notin Tracked

EventsMove ==
  /\ told \subseteq told' /\ lost \subseteq lost'
  /\ \A x \in Runner \cup Member : \A e \in post[x] :
       \/ e \in post'[x]
       \/ e.alert \in lost'
       \/ e.type = "escalated" =>
            \A m \in Manager : <<m, "escalated", e.alert, e.cycle, e.level>> \in told'

Moves == AlertsTyped' /\ LooksIdle' /\ LevelsMove /\ EventsMove

(* A request that has nothing to tell of from before. *)
LEMMA ActMoves ==
  ASSUME AlertsTyped, LooksIdle, NEW m \in Member, NEW a \in Alert, NEW new, NEW events,
         new \in Row, \A e \in events : e.type \in EventType /\ e.alert \in Alert,
         \/ new.level = NormalLevel
         \/ new.level = alert[a].level /\ new.reopens = alert[a].reopens
         \/ \E e \in events : TellsOf(e, a, new)
         \/ "escalated" \notin Tracked,
         Act(m, a, new, events)
  PROVE  Moves
<1>1. /\ m \in active /\ post[m] = {}
      /\ alert' = [alert EXCEPT ![a] = new] /\ post' = [post EXCEPT ![m] = events]
      /\ UNCHANGED <<condition, silenced, maintained, active, snapshot, keys, told, lost>>
  BY DEF Act, records
<1>2. alert \in [Alert -> Row] /\ DOMAIN post = Runner \cup Member /\ m \notin Runner
  BY DEF AlertsTyped, AlertsTypeOK
<1>3. /\ alert' \in [Alert -> Row] /\ DOMAIN post' = Runner \cup Member
      /\ alert'[a] = new /\ \A b \in Alert : b # a => alert'[b] = alert[b]
      /\ post'[m] = events /\ \A x \in Runner \cup Member : x # m => post'[x] = post[x]
  BY <1>1, <1>2
<1>4. AlertsTyped'
  <2>1. \A x \in Runner \cup Member : \A e \in post'[x] : e.type \in EventType /\ e.alert \in Alert
    BY <1>3 DEF AlertsTyped, AlertsTypeOK
  <2>2. QED
    BY <1>1, <1>3, <2>1 DEF AlertsTyped, AlertsTypeOK
<1>5. LooksIdle'
  BY <1>1, <1>2, <1>3 DEF LooksIdle
<1>6. LevelsMove
  <2> SUFFICES ASSUME NEW b \in Alert
               PROVE  \/ alert'[b].level = NormalLevel
                      \/ alert'[b].level = alert[b].level /\ alert'[b].reopens = alert[b].reopens
                      \/ \E x \in Runner \cup Member : \E e \in post'[x] : TellsOf(e, b, alert'[b])
                      \/ "escalated" \notin Tracked
    BY DEF LevelsMove
  <2>1. CASE b # a
    BY <1>3, <2>1
  <2>2. CASE b = a
    BY <1>3, <2>2
  <2>3. QED
    BY <2>1, <2>2
<1>7. EventsMove
  BY <1>1, <1>3 DEF EventsMove
<1>8. QED
  BY <1>4, <1>5, <1>6, <1>7 DEF Moves

(* A step that only changes a row's marks, or none. *)
LEMMA QuietMoves ==
  ASSUME AlertsTyped, LooksIdle, AlertsTypeOK',
         \A a \in Alert : alert'[a].level = alert[a].level /\ alert'[a].reopens = alert[a].reopens,
         Manager \subseteq active',
         UNCHANGED <<snapshot, post, keys, told, lost>>
  PROVE  Moves
BY DEF Moves, AlertsTyped, LooksIdle, LevelsMove, EventsMove

LEMMA OwnedRow ==
  ASSUME NEW r \in Row, NEW o \in Member \cup {NoOne}
  PROVE  /\ [r EXCEPT !.owner = o] \in Row
         /\ [r EXCEPT !.owner = o].level = r.level /\ [r EXCEPT !.owner = o].reopens = r.reopens
BY RowUpdates DEF Row

LEMMA OperateMoves ==
  ASSUME AlertsTyped, LooksIdle, NEW m \in Member, NEW a \in Alert,
         Operate(m, a)
  PROVE  Moves
<1> DEFINE r == alert[a]
<1>1. alert \in [Alert -> Row] /\ r \in Row
  BY DEF AlertsTyped, AlertsTypeOK
<1>2. r.level \in 0..3 /\ r.reopens \in Nat /\ r.owner \in Member \cup {NoOne}
  BY <1>1, RowFields
<1>3. CASE Acknowledge(m, a)
  <2> DEFINE free == r.owner = NoOne
             o == IF free THEN m ELSE r.owner
             r1 == [r EXCEPT !.status = "acknowledged"]
             new == [r EXCEPT !.status = "acknowledged", !.owner = IF free THEN m ELSE @]
             events == About(a, new, {"acknowledged"}, NoOne)
                       \cup IF free THEN About(a, new, {"assigned"}, m) ELSE {}
  <2>1. Act(m, a, new, events)
    BY <1>3 DEF Acknowledge
  <2>2. new = [r1 EXCEPT !.owner = o]
    BY <1>1 DEF Row
  <2>3. o \in Member \cup {NoOne}
    BY <1>2
  <2>4. r1 \in Row /\ r1.level = r.level /\ r1.reopens = r.reopens
    BY <1>1, RowUpdates DEF Row, AlertStatus, Open
  <2>5. \A e \in events : e.type \in EventType /\ e.alert \in Alert
    <3> HIDE DEF new
    <3>1. QED
      BY Events
  <2> HIDE DEF r1, o, events
  <2>6. new \in Row /\ new.level = r.level /\ new.reopens = r.reopens
    BY <2>2, <2>3, <2>4, OwnedRow
  <2> HIDE DEF new
  <2>7. QED
    BY <2>1, <2>5, <2>6, ActMoves
<1>4. CASE Resolve(m, a)
  <2> DEFINE new == Resolved(r)
             events == About(a, new, {"resolved"}, NoOne)
  <2>1. Act(m, a, new, events)
    BY <1>4 DEF Resolve
  <2>2. new \in Row /\ new.level = NormalLevel
    BY <1>1, ResolvedRow
  <2>3. \A e \in events : e.type \in EventType /\ e.alert \in Alert
    BY Events
  <2> HIDE DEF new, events
  <2>4. QED
    BY <2>1, <2>2, <2>3, ActMoves
<1>5. ASSUME NEW to \in Member, NEW types,
             Act(m, a, [r EXCEPT !.owner = to], About(a, [r EXCEPT !.owner = to], types, to))
      PROVE  Moves
  <2> DEFINE new == [r EXCEPT !.owner = to]
             events == About(a, new, types, to)
  <2>1. new \in Row /\ new.level = r.level /\ new.reopens = r.reopens
    BY <1>1, OwnedRow
  <2> HIDE DEF new
  <2>2. \A e \in events : e.type \in EventType /\ e.alert \in Alert
    BY Events
  <2>3. Act(m, a, new, events)
    BY <1>5 DEF new
  <2> HIDE DEF events
  <2>4. QED
    BY <2>1, <2>2, <2>3, ActMoves
<1>6. CASE Claim(m, a)
  BY <1>5, <1>6 DEF Claim
<1>7. CASE \E to \in Member : Assign(m, a, to)
  BY <1>5, <1>7 DEF Assign
<1>8. CASE \E to \in Member : Transfer(m, a, to)
  BY <1>5, <1>8 DEF Transfer
<1>9. CASE Unassign(m, a)
  <2>1. alert' = [alert EXCEPT ![a] = [r EXCEPT !.owner = NoOne]]
    BY <1>9 DEF Unassign
  <2>2. UNCHANGED <<condition, silenced, maintained, active, snapshot, post, keys, told, lost>>
    BY <1>9 DEF Unassign, records
  <2>3. /\ [r EXCEPT !.owner = NoOne] \in Row
        /\ [r EXCEPT !.owner = NoOne].level = r.level /\ [r EXCEPT !.owner = NoOne].reopens = r.reopens
    BY <1>1, OwnedRow
  <2>4. QED
    BY <1>1, <2>1, <2>2, <2>3, QuietMoves DEF AlertsTyped, AlertsTypeOK
<1>10. CASE Deescalate(m, a)
  <2> DEFINE new == [r EXCEPT !.level = NormalLevel]
  <2>1. Act(m, a, new, {})
    BY <1>10 DEF Deescalate
  <2>2. new \in Row /\ new.level = NormalLevel
    BY <1>1, RowUpdates DEF Row
  <2> HIDE DEF new
  <2>3. QED
    BY <2>1, <2>2, ActMoves
<1>11. CASE Silence(m, a)
  <2>1. silenced' = silenced \cup {a} /\ a \notin NonSuppressible
    BY <1>11 DEF Silence
  <2>2. UNCHANGED <<condition, alert, maintained, active, snapshot, post, keys, told, lost>>
    BY <1>11 DEF Silence, records
  <2>3. QED
    BY <2>1, <2>2, QuietMoves DEF AlertsTyped, AlertsTypeOK
<1>12. ASSUME NEW level \in OperationLevel..AdminLevel, Escalate(m, a, level) PROVE Moves
  <2> DEFINE new == [r EXCEPT !.level = level]
             events == About(a, new, {"escalated"}, NoOne)
             e == [type |-> "escalated", alert |-> a, owner |-> new.owner, to |-> NoOne,
                   cycle |-> new.reopens, level |-> new.level, severity |-> new.severity]
  <2>1. Act(m, a, new, events)
    BY <1>12 DEF Escalate
  <2>2. level \in 0..3
    BY Levels
  <2>3. new \in Row
    BY <1>1, <2>2, RowUpdates
  <2>4. \A d \in events : d.type \in EventType /\ d.alert \in Alert
    <3> HIDE DEF new
    <3>1. QED
      BY Events
  <2>5. "escalated" \in Tracked => e \in events
    BY DEF About
  <2>6. TellsOf(e, a, new)
    BY DEF TellsOf
  <2> HIDE DEF new, events, e
  <2>7. QED
    BY <2>1, <2>3, <2>4, <2>5, <2>6, ActMoves
<1>13. QED
  BY <1>3, <1>4, <1>6, <1>7, <1>8, <1>9, <1>10, <1>11, <1>12 DEF Operate

LEMMA ManagersReceive ==
  ASSUME NEW e, NEW to, NEW urgent, NEW m \in Manager \cap to, e.type = "escalated"
  PROVE  m \in Recipients(e, to, urgent)
BY DEF Recipients, OwnershipEvents, SlaEvents

(* The callbacks tell everyone they have to, or have been told before. *)
LEMMA TellMoves ==
  ASSUME AlertsTyped, LooksIdle, NEW x \in Runner \cup Member, Tell(x)
  PROVE  Moves
<1> DEFINE Heard(e) == {m \in Recipients(e, active, Urgent(e)) :
                          Notified(e, m, e.alert \in silenced, maintained)}
           new == {n \in post[x] \X Member : n[2] \in Heard(n[1]) /\ Key(n[1], n[2]) \notin keys}
<1>1. /\ keys' = keys \cup {Key(n[1], n[2]) : n \in new}
      /\ told' = told \cup {<<n[2], n[1].type, n[1].alert, n[1].cycle, n[1].level>> : n \in new}
  BY DEF Tell
<1>2. /\ post' = [post EXCEPT ![x] = {}]
      /\ UNCHANGED <<condition, alert, silenced, maintained, active, snapshot, lost>>
  BY DEF Tell
<1>3. /\ DOMAIN post' = Runner \cup Member /\ post'[x] = {}
      /\ \A y \in Runner \cup Member : y # x => post'[y] = post[y]
  BY <1>2 DEF AlertsTyped
<1>4. keys' = told'
  <2> HIDE DEF new
  <2>1. {Key(n[1], n[2]) : n \in new}
        = {<<n[2], n[1].type, n[1].alert, n[1].cycle, n[1].level>> : n \in new}
    BY DEF Key
  <2>2. QED
    BY <1>1, <2>1 DEF AlertsTyped
<1>5. AlertsTyped'
  BY <1>2, <1>3, <1>4 DEF AlertsTyped, AlertsTypeOK
<1>6. LooksIdle'
  BY <1>2, <1>3 DEF LooksIdle, Runner
<1>7. LevelsMove
  BY <1>2 DEF LevelsMove
<1>8. ASSUME NEW e \in post[x], e.type = "escalated", NEW m \in Manager
      PROVE  <<m, "escalated", e.alert, e.cycle, e.level>> \in told'
  <2> DEFINE n == <<e, m>>
  <2>1. m \in active /\ m \in Member
    BY DEF AlertsTyped
  <2>2. m \in Recipients(e, active, Urgent(e))
    BY <1>8, <2>1, ManagersReceive
  <2>3. Notified(e, m, e.alert \in silenced, maintained)
    BY <1>8 DEF Notified, MandatoryEvents
  <2>4. m \in Heard(e)
    BY <2>2, <2>3
  <2>5. Key(e, m) = <<m, "escalated", e.alert, e.cycle, e.level>>
    BY <1>8 DEF Key
  <2>6. CASE Key(e, m) \in keys
    BY <1>1, <2>5, <2>6 DEF AlertsTyped
  <2>7. CASE Key(e, m) \notin keys
    <3>1. n \in new
      <4> HIDE DEF Heard
      <4>1. n \in post[x] \X Member /\ n[1] = e /\ n[2] = m
        BY <2>1
      <4>2. QED
        BY <2>4, <2>7, <4>1
    <3> HIDE DEF new
    <3>2. <<n[2], n[1].type, n[1].alert, n[1].cycle, n[1].level>> \in told'
      BY <1>1, <3>1
    <3>3. QED
      BY <1>8, <3>2
  <2>8. QED
    BY <2>6, <2>7
<1>9. EventsMove
  <2> HIDE DEF new
  <2>1. told \subseteq told' /\ lost \subseteq lost'
    BY <1>1, <1>2
  <2>2. QED
    BY <1>3, <1>8, <2>1 DEF EventsMove
<1>10. QED
  BY <1>5, <1>6, <1>7, <1>9 DEF Moves

LEMMA LoseMoves ==
  ASSUME AlertsTyped, LooksIdle, NEW x \in Runner \cup Member, Lose(x)
  PROVE  Moves
<1>1. /\ lost' = lost \cup {e.alert : e \in post[x]} /\ post' = [post EXCEPT ![x] = {}]
      /\ UNCHANGED <<condition, alert, silenced, maintained, active, snapshot, keys, told>>
  BY DEF Lose
<1>2. /\ DOMAIN post' = Runner \cup Member /\ post'[x] = {}
      /\ \A y \in Runner \cup Member : y # x => post'[y] = post[y]
  BY <1>1 DEF AlertsTyped
<1>3. \A e \in post[x] : e.alert \in lost' /\ e.alert \in Alert
  BY <1>1 DEF AlertsTyped, AlertsTypeOK
<1>4. AlertsTyped'
  BY <1>1, <1>2, <1>3 DEF AlertsTyped, AlertsTypeOK
<1>5. LooksIdle'
  BY <1>1, <1>2 DEF LooksIdle, Runner
<1>6. LevelsMove
  BY <1>1 DEF LevelsMove
<1>7. EventsMove
  BY <1>1, <1>2, <1>3 DEF EventsMove
<1>8. QED
  BY <1>4, <1>5, <1>6, <1>7 DEF Moves

(* A sync, with or without the queue: rows and events are each alert's own. *)
LEMMA RunMoves ==
  ASSUME AlertsTyped, LooksIdle, NEW p \in Runner, snapshot[p] # <<>>,
         NEW row, NEW events,
         \A a \in Alert :
           /\ row[a] \in Row
           /\ \A e \in events[a] : e.type \in EventType /\ e.alert \in Alert
           /\ \/ row[a].level = NormalLevel
              \/ row[a].level = alert[a].level /\ row[a].reopens = alert[a].reopens
              \/ \E e \in events[a] : TellsOf(e, a, row[a])
              \/ "escalated" \notin Tracked,
         alert' = [a \in Alert |-> row[a]],
         post' = [post EXCEPT ![p] = UNION {events[a] : a \in Alert}],
         snapshot' = [snapshot EXCEPT ![p] = <<>>],
         UNCHANGED <<condition, silenced, maintained, active, keys, told, lost>>
  PROVE  Moves
<1>1. post[p] = {}
  BY DEF LooksIdle
<1>2. /\ DOMAIN post' = Runner \cup Member /\ post'[p] = UNION {events[a] : a \in Alert}
      /\ \A y \in Runner \cup Member : y # p => post'[y] = post[y]
  BY DEF AlertsTyped
<1>3. /\ DOMAIN snapshot' = Runner /\ snapshot'[p] = <<>>
      /\ \A q \in Runner : q # p => snapshot'[q] = snapshot[q]
  BY DEF AlertsTyped
<1>4. \A a \in Alert : alert'[a] = row[a]
  OBVIOUS
<1>5. AlertsTyped'
  <2>1. alert' \in [Alert -> Row]
    OBVIOUS
  <2>2. \A y \in Runner \cup Member : \A e \in post'[y] : e.type \in EventType /\ e.alert \in Alert
    BY <1>2 DEF AlertsTyped, AlertsTypeOK
  <2>3. \A q \in Runner : snapshot'[q] \in {<<>>} \cup [Alert -> Condition]
    BY <1>3 DEF AlertsTyped, AlertsTypeOK
  <2>4. QED
    BY <1>2, <1>3, <2>1, <2>2, <2>3 DEF AlertsTyped, AlertsTypeOK
<1>6. LooksIdle'
  BY <1>2, <1>3 DEF LooksIdle
<1>7. LevelsMove
  <2> SUFFICES ASSUME NEW a \in Alert
               PROVE  \/ alert'[a].level = NormalLevel
                      \/ alert'[a].level = alert[a].level /\ alert'[a].reopens = alert[a].reopens
                      \/ \E x \in Runner \cup Member : \E e \in post'[x] : TellsOf(e, a, alert'[a])
                      \/ "escalated" \notin Tracked
    BY DEF LevelsMove
  <2>1. CASE \E e \in events[a] : TellsOf(e, a, row[a])
    <3>1. PICK e \in events[a] : TellsOf(e, a, alert'[a])
      BY <1>4, <2>1
    <3>2. e \in post'[p]
      BY <1>2
    <3>3. QED
      BY <3>1, <3>2
  <2>2. QED
    BY <1>4, <2>1
<1>8. EventsMove
  BY <1>1, <1>2 DEF EventsMove
<1>9. QED
  BY <1>5, <1>6, <1>7, <1>8 DEF Moves

LEMMA NextMoves ==
  ASSUME AlertsTyped, LooksIdle, AlertsNext
  PROVE  Moves
<1>1. ASSUME NEW p \in Runner, Look(p) PROVE Moves
  <2>1. /\ post[p] = {} /\ snapshot' = [snapshot EXCEPT ![p] = condition]
        /\ UNCHANGED <<condition, alert, silenced, maintained, active, post, keys, told, lost>>
    BY <1>1 DEF Look, records
  <2>2. /\ DOMAIN snapshot' = Runner /\ snapshot'[p] = condition
        /\ \A q \in Runner : q # p => snapshot'[q] = snapshot[q]
    BY <2>1 DEF AlertsTyped
  <2>3. condition \in [Alert -> Condition]
    BY DEF AlertsTyped, AlertsTypeOK
  <2>4. AlertsTyped'
    BY <2>1, <2>2, <2>3 DEF AlertsTyped, AlertsTypeOK
  <2>5. LooksIdle'
    BY <2>1, <2>2 DEF LooksIdle
  <2>6. LevelsMove /\ EventsMove
    BY <2>1 DEF LevelsMove, EventsMove
  <2>7. QED
    BY <2>4, <2>5, <2>6 DEF Moves
<1>2. ASSUME NEW p \in Runner, snapshot[p] # <<>>, NEW a \in Alert
      PROVE  alert[a] \in Row /\ snapshot[p][a] \in Condition
  BY <1>2 DEF AlertsTyped, AlertsTypeOK
<1>3. ASSUME NEW p \in Runner, Sync(p) PROVE Moves
  <2> DEFINE row == [a \in Alert |-> Synced(alert[a], snapshot[p][a])]
             events == [a \in Alert |-> SyncEvents(a, alert[a], snapshot[p][a])]
  <2>1. /\ snapshot[p] # <<>>
        /\ alert' = [a \in Alert |-> row[a]]
        /\ post' = [post EXCEPT ![p] = UNION {events[a] : a \in Alert}]
        /\ snapshot' = [snapshot EXCEPT ![p] = <<>>]
        /\ UNCHANGED <<condition, silenced, maintained, active, keys, told, lost>>
    <3>1. /\ snapshot[p] # <<>>
          /\ alert' = row
          /\ post' = [post EXCEPT ![p] = UNION {SyncEvents(a, alert[a], snapshot[p][a]) : a \in Alert}]
          /\ snapshot' = [snapshot EXCEPT ![p] = <<>>]
          /\ UNCHANGED <<condition, silenced, maintained, active, keys, told, lost>>
      BY <1>3 DEF Sync, records
    <3>2. \A a \in Alert : events[a] = SyncEvents(a, alert[a], snapshot[p][a])
      OBVIOUS
    <3>3. [a \in Alert |-> row[a]] = row
      OBVIOUS
    <3> HIDE DEF row, events
    <3>4. {events[a] : a \in Alert} = {SyncEvents(a, alert[a], snapshot[p][a]) : a \in Alert}
      BY <3>2
    <3>5. QED
      BY <3>1, <3>3, <3>4
  <2>2. \A a \in Alert :
          /\ row[a] \in Row
          /\ \A e \in events[a] : e.type \in EventType /\ e.alert \in Alert
          /\ \/ row[a].level = NormalLevel
             \/ row[a].level = alert[a].level /\ row[a].reopens = alert[a].reopens
             \/ \E e \in events[a] : TellsOf(e, a, row[a])
             \/ "escalated" \notin Tracked
    BY <1>2, <2>1, SyncedRow, Events, Levels
  <2> HIDE DEF row, events
  <2>3. QED
    BY <2>1, <2>2, RunMoves
<1>4. ASSUME NEW p \in Runner, SyncAndQueue(p) PROVE Moves
  <2> DEFINE synced == [a \in Alert |-> Synced(alert[a], snapshot[p][a])]
             row == [a \in Alert |-> Queued(a, synced[a])]
             events == [a \in Alert |-> SyncEvents(a, alert[a], snapshot[p][a])
                                        \cup QueueEvents(a, synced[a])]
  <2>1. /\ snapshot[p] # <<>>
        /\ alert' = [a \in Alert |-> row[a]]
        /\ post' = [post EXCEPT ![p] = UNION {events[a] : a \in Alert}]
        /\ snapshot' = [snapshot EXCEPT ![p] = <<>>]
        /\ UNCHANGED <<condition, silenced, maintained, active, keys, told, lost>>
    <3>1. /\ snapshot[p] # <<>>
          /\ alert' = row
          /\ post' = [post EXCEPT ![p] =
               UNION {SyncEvents(a, alert[a], snapshot[p][a]) \cup QueueEvents(a, synced[a]) :
                      a \in Alert}]
          /\ snapshot' = [snapshot EXCEPT ![p] = <<>>]
          /\ UNCHANGED <<condition, silenced, maintained, active, keys, told, lost>>
      BY <1>4 DEF SyncAndQueue, records
    <3>2. \A a \in Alert : events[a] = SyncEvents(a, alert[a], snapshot[p][a])
                                         \cup QueueEvents(a, synced[a])
      OBVIOUS
    <3>3. [a \in Alert |-> row[a]] = row
      OBVIOUS
    <3> HIDE DEF synced, row, events
    <3>4. {events[a] : a \in Alert}
          = {SyncEvents(a, alert[a], snapshot[p][a]) \cup QueueEvents(a, synced[a]) : a \in Alert}
      BY <3>2
    <3>5. QED
      BY <3>1, <3>3, <3>4
  <2>2. ASSUME NEW a \in Alert
        PROVE  /\ row[a] \in Row
               /\ \A e \in events[a] : e.type \in EventType /\ e.alert \in Alert
               /\ \/ row[a].level = NormalLevel
                  \/ row[a].level = alert[a].level /\ row[a].reopens = alert[a].reopens
                  \/ \E e \in events[a] : TellsOf(e, a, row[a])
                  \/ "escalated" \notin Tracked
    <3> DEFINE s == synced[a]
    <3>1. s \in Row /\ (s.level = 0 \/ (s.level = alert[a].level /\ s.reopens = alert[a].reopens))
      <4>1. s = Synced(alert[a], snapshot[p][a])
        OBVIOUS
      <4> HIDE DEF synced
      <4> DEFINE r == alert[a]
                 c == snapshot[p][a]
      <4>2. r \in Row /\ c \in Condition
        BY <1>2, <2>1
      <4>3. s = Synced(r, c)
        BY <4>1
      <4> HIDE DEF r, c
      <4>4. /\ Synced(r, c) \in Row
            /\ \/ Synced(r, c).level = 0
               \/ Synced(r, c).level = r.level /\ Synced(r, c).reopens = r.reopens
        BY <4>2, SyncedRow
      <4> HIDE DEF s
      <4>5. s \in Row /\ (s.level = 0 \/ (s.level = r.level /\ s.reopens = r.reopens))
        BY <4>3, <4>4
      <4>6. QED
        BY <4>5 DEF r
    <3>2. row[a] = Queued(a, s) /\ events[a] = SyncEvents(a, alert[a], snapshot[p][a]) \cup QueueEvents(a, s)
      OBVIOUS
    <3> HIDE DEF synced, row, events, s
    <3>3. row[a] \in Row /\ row[a].reopens = s.reopens /\ row[a].level >= s.level
      BY <3>1, <3>2, QueuedRow
    <3>4. \A e \in events[a] : e.type \in EventType /\ e.alert \in Alert
      BY <3>2, Events
    <3>5. row[a].level \in 0..3 /\ s.level \in 0..3
      BY <3>1, <3>3, RowFields
    <3>6. CASE row[a].level = s.level
      BY <3>1, <3>3, <3>4, <3>6, Levels
    <3>7. CASE row[a].level > s.level
      BY <3>1, <3>2, <3>3, <3>4, <3>7, QueueTells
    <3>8. QED
      BY <3>3, <3>5, <3>6, <3>7
  <2> HIDE DEF row, events
  <2>3. QED
    BY <2>1, <2>2, RunMoves
<1>5. ASSUME NEW m \in Member, MaintenanceStarts(m) PROVE Moves
  BY <1>5, QuietMoves DEF MaintenanceStarts, records, AlertsTyped, AlertsTypeOK
<1>6. ASSUME NEW m \in Member, Departs(m) PROVE Moves
  BY <1>6, QuietMoves DEF Departs, records, AlertsTyped, AlertsTypeOK
<1>7. ASSUME NEW a \in Alert, DeadlinePasses(a) PROVE Moves
  <2> DEFINE r == alert[a]
             k == r.late + 1
  <2>1. r \in Row /\ alert \in [Alert -> Row] /\ r.late < 2
    BY <1>7 DEF DeadlinePasses, AlertsTyped, AlertsTypeOK
  <2>2. alert' = [alert EXCEPT ![a] = [r EXCEPT !.late = k]]
    BY <1>7 DEF DeadlinePasses
  <2>3. k \in 0..2
    BY <2>1, RowFields
  <2> HIDE DEF k
  <2>4. /\ [r EXCEPT !.late = k] \in Row
        /\ [r EXCEPT !.late = k].level = r.level /\ [r EXCEPT !.late = k].reopens = r.reopens
    BY <2>1, <2>3, RowUpdates DEF Row
  <2>5. UNCHANGED <<condition, silenced, maintained, active, snapshot, post, keys, told, lost>>
    BY <1>7 DEF DeadlinePasses, records
  <2>6. QED
    BY <2>1, <2>2, <2>4, <2>5, QuietMoves DEF AlertsTyped, AlertsTypeOK
<1>8. ASSUME NEW a \in Alert, Ages(a) PROVE Moves
  <2> DEFINE r == alert[a]
             old == [r EXCEPT !.old = TRUE]
  <2>1. r \in Row /\ alert \in [Alert -> Row]
    BY DEF AlertsTyped, AlertsTypeOK
  <2>2. alert' = [alert EXCEPT ![a] = old]
    BY <1>8 DEF Ages
  <2>3. old \in Row /\ old.level = r.level /\ old.reopens = r.reopens
    BY <2>1, RowUpdates DEF Row
  <2>4. UNCHANGED <<condition, silenced, maintained, active, snapshot, post, keys, told, lost>>
    BY <1>8 DEF Ages, records
  <2> HIDE DEF old
  <2>5. QED
    BY <2>1, <2>2, <2>3, <2>4, QuietMoves DEF AlertsTyped, AlertsTypeOK
<1>9. ASSUME NEW a \in Alert, SilenceEnds(a) PROVE Moves
  BY <1>9, QuietMoves DEF SilenceEnds, records, AlertsTyped, AlertsTypeOK
<1>10. ASSUME NEW a \in Alert, NEW to \in Condition, Changes(a, to) PROVE Moves
  BY <1>10, QuietMoves DEF Changes, records, AlertsTyped, AlertsTypeOK
<1>11. CASE MaintenanceEnds
  BY <1>11, QuietMoves DEF MaintenanceEnds, limits, records, AlertsTyped, AlertsTypeOK
<1>12. CASE \E p \in Runner : Look(p) \/ Sync(p) \/ SyncAndQueue(p)
  BY <1>1, <1>3, <1>4, <1>12
<1>13. CASE \E x \in Runner \cup Member : Tell(x) \/ Lose(x)
  BY <1>13, TellMoves, LoseMoves
<1>14. CASE \E m \in Member : MaintenanceStarts(m) \/ Departs(m) \/ \E a \in Alert : Operate(m, a)
  BY <1>5, <1>6, <1>14, OperateMoves
<1>15. CASE \E a \in Alert : DeadlinePasses(a) \/ Ages(a) \/ SilenceEnds(a)
                             \/ \E to \in Condition : Changes(a, to)
  BY <1>7, <1>8, <1>9, <1>10, <1>15
<1>16. QED
  BY <1>11, <1>12, <1>13, <1>14, <1>15 DEF AlertsNext

LEMMA AnnouncedHolds ==
  AlertsSpec => [](AlertsTyped /\ LooksIdle /\ ("escalated" \in Tracked => Announced))
<1> DEFINE Inv == AlertsTyped /\ LooksIdle /\ ("escalated" \in Tracked => Announced)
<1>1. AlertsInit => Inv
  <2> SUFFICES ASSUME AlertsInit PROVE Inv
    OBVIOUS
  <2>1. alert \in [Alert -> Row] /\ \A a \in Alert : alert[a].level = NormalLevel
    <3> DEFINE r == [status |-> "absent", severity |-> "warning", owner |-> NoOne,
                     level |-> NormalLevel, reopens |-> 0, late |-> 0, old |-> FALSE]
    <3>1. r \in Row
      BY Levels DEF Row, AlertStatus, Severity
    <3>2. alert = [a \in Alert |-> r] /\ r.level = NormalLevel
      BY DEF AlertsInit
    <3> HIDE DEF r
    <3>3. QED
      BY <3>1, <3>2
  <2>2. AlertsTyped
    BY <2>1 DEF AlertsInit, AlertsTyped, AlertsTypeOK
  <2>3. LooksIdle
    BY DEF AlertsInit, LooksIdle
  <2>4. Announced
    BY <2>1, Levels DEF Announced
  <2>5. QED
    BY <2>2, <2>3, <2>4
<1>2. Inv /\ [AlertsNext]_alertVars => Inv'
  <2> SUFFICES ASSUME Inv, [AlertsNext]_alertVars PROVE Inv'
    OBVIOUS
  <2>1. CASE AlertsNext
    <3>1. Moves
      BY <2>1, NextMoves
    <3>2. AlertsTyped' /\ LooksIdle' /\ LevelsMove /\ EventsMove
      BY <3>1 DEF Moves
    <3>3. ("escalated" \in Tracked => Announced)'
      <4> SUFFICES ASSUME "escalated" \in Tracked, NEW a \in Alert, alert'[a].level > NormalLevel
                   PROVE  \/ \A m \in Manager :
                               <<m, "escalated", a, alert'[a].reopens, alert'[a].level>> \in told'
                          \/ \E x \in Runner \cup Member : \E e \in post'[x] : TellsOf(e, a, alert'[a])
                          \/ a \in lost'
        BY DEF Announced
      <4>1. /\ alert'[a].level # NormalLevel
            /\ told \subseteq told' /\ lost \subseteq lost'
        BY <3>2, Levels DEF EventsMove
      <4>2. CASE alert'[a].level = alert[a].level /\ alert'[a].reopens = alert[a].reopens
        <5>1. CASE \A m \in Manager : <<m, "escalated", a, alert[a].reopens, alert[a].level>> \in told
          BY <4>1, <4>2, <5>1
        <5>2. CASE a \in lost
          BY <4>1, <5>2
        <5>3. CASE \E x \in Runner \cup Member : \E e \in post[x] : TellsOf(e, a, alert[a])
          <6>1. PICK x \in Runner \cup Member : \E e \in post[x] : TellsOf(e, a, alert[a])
            BY <5>3
          <6>2. PICK e \in post[x] : TellsOf(e, a, alert[a])
            BY <6>1
          <6>3. /\ e.type = "escalated" /\ e.alert = a
                /\ e.cycle = alert'[a].reopens /\ e.level = alert'[a].level
            BY <4>2, <6>2 DEF TellsOf
          <6>4. TellsOf(e, a, alert'[a])
            BY <6>3 DEF TellsOf
          <6>5. \/ e \in post'[x]
                \/ e.alert \in lost'
                \/ \A m \in Manager : <<m, "escalated", e.alert, e.cycle, e.level>> \in told'
            BY <3>2, <6>2, <6>3 DEF EventsMove
          <6>6. QED
            BY <6>3, <6>4, <6>5
        <5>4. QED
          BY <4>2, <5>1, <5>2, <5>3 DEF Announced
      <4>3. QED
        BY <3>2, <4>1, <4>2 DEF LevelsMove
    <3>4. QED
      BY <3>2, <3>3
  <2>2. CASE UNCHANGED alertVars
    BY <2>2 DEF alertVars, limits, records, AlertsTyped, AlertsTypeOK, LooksIdle, Announced
  <2>3. QED
    BY <2>1, <2>2
<1>3. QED
  BY <1>1, <1>2, PTL DEF AlertsSpec

(* The rows, the snapshots and the events stay in their types. *)
THEOREM AlertsTypeCorrect == AlertsSpec => []AlertsTypeOK
<1>1. AlertsTyped => AlertsTypeOK
  BY DEF AlertsTyped
<1>2. QED
  BY <1>1, AnnouncedHolds, PTL

(* Management is told of every level an alert stands at, or will be by the *)
(* callbacks still to run, unless the news was lost with its process.      *)
THEOREM EscalationsAreTold ==
  ASSUME "escalated" \in Tracked
  PROVE  AlertsSpec => []EscalationTold
<1>1. ("escalated" \in Tracked => Announced) => EscalationTold
  BY DEF Announced, EscalationTold, Pending, TellsOf
<1>2. QED
  BY <1>1, AnnouncedHolds, PTL
=============================================================================
