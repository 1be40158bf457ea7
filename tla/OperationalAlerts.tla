-------------------------- MODULE OperationalAlerts --------------------------
(***************************************************************************)
(* Operational alerts of one tenant: the sync that opens, reopens and      *)
(* resolves them from a diagnostic snapshot (operational_alert_sync.py),   *)
(* the operators' actions and the work queue's escalation                  *)
(* (operational_work_queue*.py), silences and the maintenance window       *)
(* (alert_governance*.py), and the notifications all of them enqueue once  *)
(* their transaction has committed (operational_notification_services.py). *)
(*                                                                         *)
(* A sync or an action holds its alerts' row locks from the first read to  *)
(* the commit: each is one step.  What it does not lock is read earlier,   *)
(* the snapshot, or later, the callbacks of on_commit, which a process may *)
(* not live to run.  Occurrence counts, texts and audit rows are left out. *)
(***************************************************************************)
EXTENDS NotificationPolicy

CONSTANTS
  Alert,            (* fingerprints an alert row may be made for              *)
  Monitor,          (* processes of process_operational_monitoring            *)
  Syncer,           (* processes of sync_operational_alerts, without a queue  *)
  Shown,            (* severities the rules give to an alert's condition      *)
  Tracked,          (* the events whose notifications are kept: a key has its *)
                    (* event's type, so each type can be looked at by itself  *)
  NonSuppressible,  (* alerts whose rule cannot be silenced or suspended      *)
  ReopenThreshold,  (* LIVIA_ALERT_ESCALATION_REOPEN_THRESHOLD                *)
  MaxChanges,       (* bound: changes of the tenant's condition               *)
  MaxActs,          (* bound: actions of operators                            *)
  MaxMishaps        (* bound: members that leave, and processes that die before  *)
                    (* they have run their callbacks                          *)

Runner == Monitor \cup Syncer

ASSUME AlertsAssumption ==
  /\ Monitor \cap Syncer = {} /\ Runner \cap Member = {}
  /\ NonSuppressible \subseteq Alert /\ Tracked \subseteq EventType
  /\ Shown \subseteq {"warning", "critical"}
  /\ ReopenThreshold \in Nat \ {0, 1}
  /\ {MaxChanges, MaxActs, MaxMishaps} \subseteq Nat

VARIABLES
  condition,  (* what a snapshot of the tenant would show for each alert now  *)
  alert,      (* TenantOperationalAlert rows                                  *)
  silenced,   (* alerts with an active silence                                *)
  maintained, (* whether a maintenance window that matches the alerts is on   *)
  active,     (* members whose membership and user are active                 *)
  snapshot,   (* what each runner has seen of the condition                   *)
  post,       (* events whose callbacks each process or request has to run    *)
  keys,       (* deduplication keys of the notifications there are            *)
  changes, acts, mishaps,
  (* History, read by properties only: *)
  told,       (* who was notified of what                                     *)
  lost        (* alerts some event of which was lost                          *)

limits == <<changes, acts, mishaps>>
records == <<told, lost>>
alertVars == <<condition, alert, silenced, maintained, active, snapshot, post, keys,
          limits, records>>

Severity == {"warning", "critical"}
Condition == {"healthy"} \cup Shown
Open == {"open", "acknowledged"}
AlertStatus == {"absent", "resolved"} \cup Open
NormalLevel == 0
OperationLevel == 1
ManagementLevel == 2
AdminLevel == 3

Lesser(i, j) == IF i <= j THEN i ELSE j
Greater(i, j) == IF i >= j THEN i ELSE j

(* Mutations: a resolved alert not reopened, and the escalation stopped at *)
(* management.                                                             *)
SyncedNoReopen(row, seen) ==
  CASE row.status = "absent" /\ seen # "healthy" ->
         [status |-> "open", severity |-> seen, owner |-> NoOne, level |-> NormalLevel,
          reopens |-> 0, late |-> 0, old |-> FALSE]
    [] OTHER -> row
AdminTarget(level, critical) == IF level >= ManagementLevel THEN level ELSE level + 1

-----------------------------------------------------------------------------
(* The alert is under maintenance, which its rule does not shake off. *)
Suspended(a) == maintained /\ a \notin NonSuppressible

(* An alert resolved by hand or by a sync: the owner stays. *)
Resolved(row) == [row EXCEPT !.status = "resolved", !.level = NormalLevel, !.late = 0]

(* What sync_operational_alerts makes of a row, given the snapshot.  A     *)
(* reopened alert has new deadlines and its old detected_at.               *)
Synced(row, seen) ==
  CASE row.status = "absent" /\ seen # "healthy" ->
         [status |-> "open", severity |-> seen, owner |-> NoOne, level |-> NormalLevel,
          reopens |-> 0, late |-> 0, old |-> FALSE]
    [] row.status = "resolved" /\ seen # "healthy" ->
         [row EXCEPT !.status = "open", !.severity = seen, !.level = NormalLevel,
                     !.reopens = @ + 1, !.late = 0]
    [] row.status \in Open /\ seen # "healthy" -> [row EXCEPT !.severity = seen]
    [] row.status \in Open /\ seen = "healthy" -> Resolved(row)
    [] OTHER -> row

(* compute_sla_state: late = 1 is past ack_due_at, 2 past resolution_due_at *)
AckBreached(a, row) == row.status = "open" /\ row.late >= 1 /\ ~Suspended(a)
ResolutionBreached(a, row) == row.late = 2 /\ ~Suspended(a)

Target(level, critical) ==
  Lesser(IF critical THEN Greater(level + 1, ManagementLevel)
                     ELSE Greater(level + 1, OperationLevel), AdminLevel)

(* evaluate_auto_escalation: the first trigger that applies. *)
AutoLevel(a, row) ==
  CASE row.status \notin Open \/ Suspended(a) -> row.level
    [] AckBreached(a, row) -> Target(row.level, FALSE)
    [] ResolutionBreached(a, row) -> Target(row.level, row.severity = "critical")
    [] \/ row.severity = "critical" /\ row.owner = NoOne /\ row.old
       \/ row.reopens >= ReopenThreshold -> Target(row.level, FALSE)
    [] OTHER -> row.level

(* An owner process_operational_work_queue takes an alert from. *)
Leaver(row) == row.status \in Open /\ row.owner # NoOne /\ row.owner \notin active

Queued(a, row) ==
  LET left == IF Leaver(row) THEN [row EXCEPT !.owner = NoOne] ELSE row
  IN [left EXCEPT !.level = AutoLevel(a, left)]

(* The events of these types about alert a as row: what their callbacks    *)
(* have captured.                                                          *)
About(a, row, types, to) ==
  {[type |-> type, alert |-> a, owner |-> row.owner, to |-> to, cycle |-> row.reopens,
    level |-> row.level, severity |-> row.severity] : type \in types \cap Tracked}

SyncEvents(a, row, seen) ==
  LET new == Synced(row, seen)
      type == CASE row.status = "absent" /\ new.status = "open" /\ seen = "critical" ->
                     {"critical_created"}
                [] row.status = "resolved" /\ new.status = "open" -> {"reopened"}
                [] row.status \in Open /\ new.status = "resolved" -> {"resolved"}
                [] OTHER -> {}
  IN About(a, new, type, NoOne)

(* Those of the queue; the breaches are notified without a look at the     *)
(* maintenance that pauses them (evaluate_sla_breach_notifications).       *)
QueueEvents(a, row) ==
  LET new == Queued(a, row)
      type == (IF Leaver(row) THEN {"owner_invalidated"} ELSE {})
              \cup (IF new.level > row.level THEN {"escalated"} ELSE {})
              \cup (IF new.status = "open" /\ new.late >= 1 THEN {"sla_ack"} ELSE {})
              \cup (IF new.status \in Open /\ new.late = 2 THEN {"sla_resolution"} ELSE {})
  IN About(a, new, type, NoOne)

(* calculate_operational_priority is P1 or P2: for an alert without an     *)
(* owner, the only one asked about.                                        *)
Urgent(e) ==
  \/ e.severity = "critical"
  \/ e.level >= OperationLevel
  \/ e.type \in SlaEvents /\ ~Suspended(e.alert)

-----------------------------------------------------------------------------
AlertsInit ==
  /\ condition \in [Alert -> Condition]
  /\ alert = [a \in Alert |->
       [status |-> "absent", severity |-> "warning", owner |-> NoOne, level |-> NormalLevel,
        reopens |-> 0, late |-> 0, old |-> FALSE]]
  /\ silenced = {}
  /\ maintained = FALSE
  /\ active = Member
  /\ snapshot = [p \in Runner |-> <<>>]
  /\ post = [x \in Runner \cup Member |-> {}]
  /\ keys = {}
  /\ changes = 0 /\ acts = 0 /\ mishaps = 0
  /\ told = {} /\ lost = {}

(* build_diagnostic_snapshot, before any lock. *)
Look(p) ==
  /\ snapshot[p] = <<>> /\ post[p] = {}
  /\ snapshot' = [snapshot EXCEPT ![p] = condition]
  /\ UNCHANGED <<condition, alert, silenced, maintained, active, post, keys, limits, records>>

(* sync_operational_alerts by itself. *)
Sync(p) ==
  /\ p \in Syncer /\ snapshot[p] # <<>>
  /\ alert' = [a \in Alert |-> Synced(alert[a], snapshot[p][a])]
  /\ post' = [post EXCEPT ![p] = UNION {SyncEvents(a, alert[a], snapshot[p][a]) : a \in Alert}]
  /\ snapshot' = [snapshot EXCEPT ![p] = <<>>]
  /\ UNCHANGED <<condition, silenced, maintained, active, keys, limits, records>>

(* A monitoring run's transaction: the sync, then the work queue. *)
SyncAndQueue(p) ==
  /\ p \in Monitor /\ snapshot[p] # <<>>
  /\ LET synced == [a \in Alert |-> Synced(alert[a], snapshot[p][a])]
     IN /\ alert' = [a \in Alert |-> Queued(a, synced[a])]
        /\ post' = [post EXCEPT ![p] =
             UNION {SyncEvents(a, alert[a], snapshot[p][a]) \cup QueueEvents(a, synced[a]) :
                    a \in Alert}]
  /\ snapshot' = [snapshot EXCEPT ![p] = <<>>]
  /\ UNCHANGED <<condition, silenced, maintained, active, keys, limits, records>>

(* The callbacks of on_commit: each event's recipients are looked up, the  *)
(* policy decides, and a key that exists already is skipped.               *)
Tell(x) ==
  /\ post[x] # {}
  /\ LET To(e) == Recipients(e, active, Urgent(e))
         Heard(e) == {m \in To(e) : Notified(e, m, e.alert \in silenced, maintained)}
         new == {n \in post[x] \X Member : n[2] \in Heard(n[1]) /\ Key(n[1], n[2]) \notin keys}
     IN /\ keys' = keys \cup {Key(n[1], n[2]) : n \in new}
        /\ told' = told \cup {<<n[2], n[1].type, n[1].alert, n[1].cycle, n[1].level>> : n \in new}
  /\ post' = [post EXCEPT ![x] = {}]
  /\ UNCHANGED <<condition, alert, silenced, maintained, active, snapshot, limits, lost>>

(* The process dies, or a callback fails, after the commit: no one comes   *)
(* back for its events.                                                    *)
Lose(x) ==
  /\ post[x] # {} /\ mishaps < MaxMishaps
  /\ mishaps' = mishaps + 1
  /\ lost' = lost \cup {e.alert : e \in post[x]}
  /\ post' = [post EXCEPT ![x] = {}]
  /\ UNCHANGED <<condition, alert, silenced, maintained, active, snapshot, keys,
                 changes, acts, told>>

-----------------------------------------------------------------------------
(* Member m acts on alert a in a request of its own: "new" is the row it   *)
(* saves, and the events are those of the types given.                     *)
Act(m, a, new, events) ==
  /\ acts < MaxActs /\ m \in active /\ post[m] = {}
  /\ acts' = acts + 1
  /\ alert' = [alert EXCEPT ![a] = new]
  /\ post' = [post EXCEPT ![m] = events]
  /\ UNCHANGED <<condition, silenced, maintained, active, snapshot, keys, changes,
                 mishaps, records>>

(* acknowledge_operational_alert: an alert without an owner gets the actor. *)
Acknowledge(m, a) ==
  /\ alert[a].status = "open"
  /\ LET free == alert[a].owner = NoOne
         new == [alert[a] EXCEPT !.status = "acknowledged", !.owner = IF free THEN m ELSE @]
     IN Act(m, a, new, About(a, new, {"acknowledged"}, NoOne)
                       \cup IF free THEN About(a, new, {"assigned"}, m) ELSE {})

(* resolve_operational_alert *)
Resolve(m, a) ==
  /\ alert[a].status \in Open
  /\ LET new == Resolved(alert[a])
     IN Act(m, a, new, About(a, new, {"resolved"}, NoOne))

(* claim_operational_alert *)
Claim(m, a) ==
  /\ alert[a].status \in Open /\ alert[a].owner = NoOne
  /\ LET new == [alert[a] EXCEPT !.owner = m]
     IN Act(m, a, new, About(a, new, {"assigned"}, m))

(* assign_operational_alert asks for an active membership, and            *)
(* transfer_operational_alert for an active user as well: a member that    *)
(* left is a user that was deactivated.                                    *)
Assign(m, a, to) ==
  /\ alert[a].status \in Open
  /\ LET new == [alert[a] EXCEPT !.owner = to]
     IN Act(m, a, new, About(a, new, {"assigned"}, to))

Transfer(m, a, to) ==
  /\ alert[a].status \in Open /\ to \in active
  /\ LET new == [alert[a] EXCEPT !.owner = to]
     IN Act(m, a, new, About(a, new, {"transferred"}, to))

(* unassign_operational_alert and its twin of the work queue; it undoes one *)
(* of the other actions, and is not counted with them.                      *)
Unassign(m, a) ==
  /\ alert[a].owner # NoOne
  /\ m \in active /\ post[m] = {}
  /\ alert' = [alert EXCEPT ![a].owner = NoOne]
  /\ UNCHANGED <<condition, silenced, maintained, active, snapshot, post, keys, limits,
                 records>>

(* escalate_operational_alert_manual *)
Escalate(m, a, level) ==
  /\ alert[a].status \in Open /\ level > alert[a].level
  /\ LET new == [alert[a] EXCEPT !.level = level]
     IN Act(m, a, new, About(a, new, {"escalated"}, NoOne))

(* deescalate_operational_alert *)
Deescalate(m, a) ==
  /\ alert[a].level > NormalLevel
  /\ Act(m, a, [alert[a] EXCEPT !.level = NormalLevel], {})

(* silence_operational_alert and cancel_operational_alert_silence *)
Silence(m, a) ==
  /\ acts < MaxActs /\ m \in active /\ post[m] = {}
  /\ alert[a].status # "absent" /\ a \notin NonSuppressible /\ a \notin silenced
  /\ acts' = acts + 1
  /\ silenced' = silenced \cup {a}
  /\ UNCHANGED <<condition, alert, maintained, active, snapshot, post, keys, changes,
                 mishaps, records>>

(* A maintenance window is created for now, or its time comes. *)
MaintenanceStarts(m) ==
  /\ acts < MaxActs /\ m \in active /\ post[m] = {}
  /\ ~maintained
  /\ acts' = acts + 1
  /\ maintained' = TRUE
  /\ UNCHANGED <<condition, alert, silenced, active, snapshot, post, keys, changes, mishaps, records>>

-----------------------------------------------------------------------------
Changes(a, to) ==
  /\ changes < MaxChanges /\ condition[a] # to
  /\ changes' = changes + 1
  /\ condition' = [condition EXCEPT ![a] = to]
  /\ UNCHANGED <<alert, silenced, maintained, active, snapshot, post, keys, acts,
                 mishaps, records>>

(* A deadline of an active alert passes, and half an hour since it was     *)
(* first detected.                                                         *)
DeadlinePasses(a) ==
  /\ alert[a].status \in Open /\ alert[a].late < 2
  /\ alert' = [alert EXCEPT ![a].late = @ + 1]
  /\ UNCHANGED <<condition, silenced, maintained, active, snapshot, post, keys, limits, records>>

Ages(a) ==
  /\ alert[a].status # "absent" /\ ~alert[a].old
  /\ alert' = [alert EXCEPT ![a].old = TRUE]
  /\ UNCHANGED <<condition, silenced, maintained, active, snapshot, post, keys, limits, records>>

(* It is over, or was cancelled. *)
MaintenanceEnds ==
  /\ maintained
  /\ maintained' = FALSE
  /\ UNCHANGED <<condition, alert, silenced, active, snapshot, post, keys, limits, records>>

SilenceEnds(a) ==
  /\ a \in silenced
  /\ silenced' = silenced \ {a}
  /\ UNCHANGED <<condition, alert, maintained, active, snapshot, post, keys, limits, records>>

Departs(m) ==
  /\ mishaps < MaxMishaps /\ m \in active \ Manager /\ post[m] = {}
  /\ mishaps' = mishaps + 1
  /\ active' = active \ {m}
  /\ UNCHANGED <<condition, alert, silenced, maintained, snapshot, post, keys, changes,
                 acts, records>>

Operate(m, a) ==
  \/ Acknowledge(m, a) \/ Resolve(m, a) \/ Claim(m, a) \/ Unassign(m, a)
  \/ Deescalate(m, a) \/ Silence(m, a)
  \/ \E to \in Member : Assign(m, a, to) \/ Transfer(m, a, to)
  \/ \E level \in OperationLevel..AdminLevel : Escalate(m, a, level)

AlertsNext ==
  \/ \E p \in Runner : Look(p) \/ Sync(p) \/ SyncAndQueue(p)
  \/ \E x \in Runner \cup Member : Tell(x) \/ Lose(x)
  \/ \E m \in Member : MaintenanceStarts(m) \/ Departs(m) \/ \E a \in Alert : Operate(m, a)
  \/ \E a \in Alert : DeadlinePasses(a) \/ Ages(a) \/ SilenceEnds(a)
                      \/ \E to \in Condition : Changes(a, to)
  \/ MaintenanceEnds

AlertsSpec == AlertsInit /\ [][AlertsNext]_alertVars

(* A timer starts monitoring again and again, and a process that has begun *)
(* goes on.                                                                *)
FairAlerts ==
  /\ AlertsSpec
  /\ \A p \in Monitor : WF_alertVars(Look(p) \/ SyncAndQueue(p) \/ Tell(p))
  /\ \A p \in Syncer : WF_alertVars(Sync(p) \/ Tell(p))

-----------------------------------------------------------------------------
Row == [status : AlertStatus, severity : Severity, owner : Member \cup {NoOne},
        level : NormalLevel..AdminLevel, reopens : Nat, late : 0..2, old : BOOLEAN]

AlertsTypeOK ==
  /\ condition \in [Alert -> Condition]
  /\ alert \in [Alert -> Row]
  /\ silenced \subseteq Alert \ NonSuppressible
  /\ maintained \in BOOLEAN
  /\ active \subseteq Member
  /\ \A p \in Runner : snapshot[p] \in {<<>>} \cup [Alert -> Condition]
  /\ \A x \in Runner \cup Member : \A e \in post[x] : e.type \in EventType /\ e.alert \in Alert
  /\ lost \subseteq Alert

Pending(type, a) == \E x \in Runner \cup Member : \E e \in post[x] : e.type = type /\ e.alert = a

(* Whoever raised the level an active alert stands at, management has been *)
(* told of that level in this cycle, unless the news was lost with its     *)
(* process (escalate_operational_alert_manual, _apply_auto_escalation).    *)
EscalationTold ==
  \A a \in Alert :
    LET row == alert[a]
    IN row.level > NormalLevel =>
         \/ \A m \in Manager : <<m, "escalated", a, row.reopens, row.level>> \in told
         \/ Pending("escalated", a)
         \/ a \in lost

(* Once the condition stays as it is, the alert follows it, whatever older *)
(* snapshots were still to be applied.                                     *)
AlertFollowsCondition ==
  \A a \in Alert :
    /\ <>[](condition[a] # "healthy") => <>[](alert[a].status \in Open)
    /\ <>[](condition[a] = "healthy") => <>[](alert[a].status \notin Open)

(* An alert that nobody resolves after its deadline ends up with the       *)
(* administration, unless a maintenance window suspends the escalation.    *)
NeglectReachesAdmin ==
  \A a \in Alert :
    <>[](alert[a].status \in Open /\ alert[a].late = 2 /\ ~Suspended(a))
      => <>[](alert[a].level = AdminLevel)
=============================================================================
