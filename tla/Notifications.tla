---------------------------- MODULE Notifications ----------------------------
(***************************************************************************)
(* Operational notifications of one member: enqueued after an event's      *)
(* commit (operational_notification_services.py), claimed, delivered and   *)
(* finalized by worker processes, recovered from those that died           *)
(* (operational_notification_processor.py), read in the portal             *)
(* (notification_views.py), and pruned.  Enqueueing asks first for the     *)
(* active maintenance windows, which also saves the status it computes     *)
(* for them (alert_governance.py).                                         *)
(*                                                                         *)
(* A transaction is one step.  What is read outside one is kept by its     *)
(* process: an enqueuer's windows, a reader's instance of a row, a         *)
(* worker's claimed rows.  Which event notifies whom is the subject of     *)
(* NotificationPolicy; here a note is one deduplication key, of a channel  *)
(* that is settled when its row is created.                                *)
(***************************************************************************)
EXTENDS FiniteSets, Naturals

CONSTANTS
  Note,         (* deduplication keys of the member's notifications           *)
  Mandatory,    (* those of events that maintenance does not suppress         *)
  Enqueuer,     (* processes with an event's callback to run                  *)
  Worker,       (* processes of process_operational_notifications             *)
  Reader,       (* portal requests of the member                              *)
  BatchSize,
  NoOne,
  MaxReads,     (* bound: requests that read one notification                 *)
  MaxCrashes,   (* bound: workers that die                                    *)
  MaxOutlived   (* bound: locks that expire under a live worker               *)

ASSUME NotesAssumption ==
  /\ Mandatory \subseteq Note
  /\ NoOne \notin Worker
  /\ BatchSize \in Nat \ {0}
  /\ {MaxReads, MaxCrashes, MaxOutlived} \subseteq Nat

VARIABLES
  window,    (* a maintenance window: the status saved, and what the clock says *)
  looked,    (* the status each enqueuer has read of it, if it is on          *)
  row,       (* TenantOperationalNotification rows                            *)
  active,    (* whether the membership and its user are                       *)
  pc, mine,  (* where each worker is, and the rows of its batch still to do   *)
  sight,     (* the instance each reader has loaded                           *)
  reads, crashes, outlived,
  (* History, read by properties only: *)
  sends,     (* how often each row was finalized as delivered or sent         *)
  overwritten  (* rows whose status a reader saved over a newer one           *)

wvars == <<window, looked>>
work == <<pc, mine>>
bounds == <<reads, crashes, outlived>>
history == <<sends, overwritten>>
vars == <<wvars, row, active, work, sight, bounds, history>>

NoRow == [status |-> "absent", channel |-> "in_app", token |-> NoOne, lock |-> "none", read |-> FALSE]
NoSight == [note |-> NoOne, status |-> "absent"]

Channel == {"in_app", "email"}
Delivered == {"delivered", "sent"}
Settled == Delivered \cup {"read", "failed", "cancelled"}

(* Mutations: a window saved though nothing has changed, a result saved    *)
(* without a look at the token, rows claimed whatever their status, a      *)
(* recovery that finds nothing.                                            *)
SavedAlways(seen) == IF seen \in {"scheduled", "active"} THEN "active" ELSE window.status
HoldsUnfenced(w, n) == row[n].status \in {"processing", "delivered"}
ClaimableAll == {n \in Note : row[n].status # "absent"}
StaleNever(n) == FALSE

-----------------------------------------------------------------------------
(* The statuses get_active_maintenance_windows asks for. *)
Current == {"scheduled", "active"}

(* The status it saves for a window whose time has come, given what it has *)
(* read: none if that is right already.                                    *)
SavedWindow(seen) == IF seen = "scheduled" THEN "active" ELSE window.status

(* The rows claim_operational_notifications may take. *)
Claimable == {n \in Note : row[n].status = "pending"}

(* The filter of recover_stale_processing: a lock that is NULL is not old. *)
Stale(n) == row[n].status = "processing" /\ row[n].lock = "old"

(* finalize_notification_delivery's look at the row, before it counts. *)
Holds(w, n) == row[n].status = "processing" /\ row[n].token = w

(* deliver_notification: e-mail is a dry run, or forbidden. *)
Outcomes(n) == IF row[n].channel = "in_app" THEN {"delivered"} ELSE {"sent", "failed"}

-----------------------------------------------------------------------------
Init ==
  /\ window = [status |-> "scheduled", clock |-> "before", cancelled |-> FALSE]
  /\ looked = [e \in Enqueuer |-> "nothing"]
  /\ row = [n \in Note |-> NoRow]
  /\ active = TRUE
  /\ pc = [w \in Worker |-> "idle"]
  /\ mine = [w \in Worker |-> {}]
  /\ sight = [r \in Reader |-> NoSight]
  /\ reads = 0 /\ crashes = 0 /\ outlived = 0
  /\ sends = [n \in Note |-> 0]
  /\ overwritten = {}

(* The clock passes starts_at, then ends_at. *)
ClockMoves ==
  /\ window.clock # "after"
  /\ window' = [window EXCEPT !.clock = IF @ = "before" THEN "during" ELSE "after"]
  /\ UNCHANGED <<looked, row, active, work, sight, bounds, history>>

(* cancel_maintenance_window *)
CancelWindow ==
  /\ window.status # "cancelled"
  /\ window' = [window EXCEPT !.status = "cancelled", !.cancelled = TRUE]
  /\ UNCHANGED <<looked, row, active, work, sight, bounds, history>>

(* get_active_maintenance_windows reads, with no lock ... *)
LookAtWindow(e) ==
  /\ looked[e] = "nothing"
  /\ looked' = [looked EXCEPT ![e] =
       IF window.status \in Current /\ window.clock = "during" THEN window.status ELSE "no window"]
  /\ UNCHANGED <<window, row, active, work, sight, bounds, history>>

(* ... and saves the status of a window whose time has come, if what it    *)
(* has read says otherwise.  Then the event's notification is created,     *)
(* unless the window keeps it back or its key exists.                      *)
Enqueue(e, n, channel) ==
  /\ looked[e] # "nothing"
  /\ window' = [window EXCEPT !.status = SavedWindow(looked[e])]
  /\ row' = IF active /\ row[n].status = "absent" /\ (n \in Mandatory \/ looked[e] = "no window")
            THEN [row EXCEPT ![n].status = "pending", ![n].channel = channel] ELSE row
  /\ looked' = [looked EXCEPT ![e] = "nothing"]
  /\ UNCHANGED <<active, work, sight, bounds, history>>

-----------------------------------------------------------------------------
(* recover_stale_processing, at the start of a batch. *)
Recover(w) ==
  /\ pc[w] = "idle"
  /\ pc' = [pc EXCEPT ![w] = "claiming"]
  /\ row' = [n \in Note |->
       IF Stale(n) THEN [row[n] EXCEPT !.status = "pending", !.token = NoOne, !.lock = "none"]
       ELSE row[n]]
  /\ UNCHANGED <<wvars, active, mine, sight, bounds, history>>

(* claim_operational_notifications: a batch of the pending rows, less what *)
(* the channel and tenant options and the locks of others leave out.       *)
Claim(w, batch) ==
  /\ pc[w] = "claiming" /\ batch # {}
  /\ batch \subseteq Claimable /\ Cardinality(batch) <= BatchSize
  /\ row' = [n \in Note |->
       IF n \in batch THEN [row[n] EXCEPT !.status = "processing", !.token = w, !.lock = "new"]
       ELSE row[n]]
  /\ mine' = [mine EXCEPT ![w] = batch]
  /\ pc' = [pc EXCEPT ![w] = "delivering"]
  /\ UNCHANGED <<wvars, active, sight, bounds, history>>

NothingToClaim(w) ==
  /\ pc[w] = "claiming" /\ Claimable = {}
  /\ pc' = [pc EXCEPT ![w] = "idle"]
  /\ UNCHANGED <<wvars, row, active, mine, sight, bounds, history>>

(* deliver_notification and finalize_notification_delivery of a row of the *)
(* batch.                                                                  *)
Finalize(w, n, outcome) ==
  /\ pc[w] = "delivering" /\ n \in mine[w] /\ outcome \in Outcomes(n)
  /\ LET final == IF active THEN outcome ELSE "cancelled"
     IN IF Holds(w, n)
        THEN /\ row' = [row EXCEPT ![n].status = final, ![n].token = NoOne, ![n].lock = "none"]
             /\ sends' = [sends EXCEPT ![n] = IF final \in Delivered THEN @ + 1 ELSE @]
        ELSE UNCHANGED <<row, sends>>
  /\ mine' = [mine EXCEPT ![w] = @ \ {n}]
  /\ pc' = [pc EXCEPT ![w] = IF mine[w] = {n} THEN "idle" ELSE @]
  /\ UNCHANGED <<wvars, active, sight, bounds, overwritten>>

Crash(w) ==
  /\ pc[w] # "idle" /\ crashes < MaxCrashes
  /\ crashes' = crashes + 1
  /\ pc' = [pc EXCEPT ![w] = "idle"]
  /\ mine' = [mine EXCEPT ![w] = {}]
  /\ UNCHANGED <<wvars, row, active, sight, reads, outlived, history>>

(* locked_at falls behind the lock timeout, under a live worker or not. *)
LockAges(n) ==
  /\ row[n].lock = "new"
  /\ LET live == \E w \in Worker : n \in mine[w] /\ Holds(w, n)
     IN /\ live => outlived < MaxOutlived
        /\ outlived' = IF live THEN outlived + 1 ELSE outlived
  /\ row' = [row EXCEPT ![n].lock = "old"]
  /\ UNCHANGED <<wvars, active, work, sight, reads, crashes, history>>

-----------------------------------------------------------------------------
(* operational_notification_mark_read loads the row, whatever its status:  *)
(* the list shows the button for all that are neither read nor cancelled.  *)
Load(r, n) ==
  /\ sight[r] = NoSight /\ reads < MaxReads
  /\ active /\ row[n].channel = "in_app" /\ row[n].status \notin {"absent", "cancelled"} /\ ~row[n].read
  /\ reads' = reads + 1
  /\ sight' = [sight EXCEPT ![r] = [note |-> n, status |-> row[n].status]]
  /\ UNCHANGED <<wvars, row, active, work, crashes, outlived, history>>

(* mark_notification_read saves read_at and the status of that instance. *)
MarkRead(r) ==
  /\ sight[r] # NoSight
  /\ LET n == sight[r].note
         status == IF sight[r].status \in Delivered THEN "read" ELSE sight[r].status
     IN /\ row' = [row EXCEPT ![n].status = status, ![n].read = TRUE]
        /\ overwritten' = IF row[n].status # sight[r].status THEN overwritten \cup {n} ELSE overwritten
  /\ sight' = [sight EXCEPT ![r] = NoSight]
  /\ UNCHANGED <<wvars, active, work, bounds, sends>>

(* mark_all_notifications_read, one UPDATE. *)
MarkAllRead ==
  /\ active
  /\ row' = [n \in Note |->
       IF row[n].channel = "in_app" /\ row[n].status \in Delivered /\ ~row[n].read
       THEN [row[n] EXCEPT !.status = "read", !.read = TRUE] ELSE row[n]]
  /\ UNCHANGED <<wvars, active, work, sight, bounds, history>>

(* prune_operational_notifications, months later: no process that saw the  *)
(* row is left, and its key is free again.                                 *)
Prune(n) ==
  /\ row[n].status \in {"read", "failed"}
  /\ \A w \in Worker : n \notin mine[w]
  /\ \A r \in Reader : sight[r].note # n
  /\ row' = [row EXCEPT ![n] = NoRow]
  /\ sends' = [sends EXCEPT ![n] = 0]
  /\ overwritten' = overwritten \ {n}
  /\ UNCHANGED <<wvars, active, work, sight, bounds>>

Deactivate ==
  /\ active
  /\ active' = FALSE
  /\ UNCHANGED <<wvars, row, work, sight, bounds, history>>

Next ==
  \/ ClockMoves \/ CancelWindow \/ MarkAllRead \/ Deactivate
  \/ \E e \in Enqueuer : LookAtWindow(e) \/ \E n \in Note, channel \in Channel : Enqueue(e, n, channel)
  \/ \E w \in Worker :
       \/ Recover(w) \/ NothingToClaim(w) \/ Crash(w)
       \/ \E batch \in SUBSET Note : Claim(w, batch)
       \/ \E n \in Note : \E outcome \in Outcomes(n) : Finalize(w, n, outcome)
  \/ \E r \in Reader : MarkRead(r) \/ \E n \in Note : Load(r, n)
  \/ \E n \in Note : LockAges(n) \/ Prune(n)

Spec == Init /\ [][Next]_vars

(* A timer starts batches without options again and again, a process that  *)
(* has begun goes on, and time passes.                                     *)
WorkStep(w) ==
  \/ Recover(w) \/ NothingToClaim(w)
  \/ \E batch \in SUBSET Note : Claim(w, batch)
  \/ \E n \in Note : \E outcome \in Outcomes(n) : Finalize(w, n, outcome)

FairSpec ==
  /\ Spec
  /\ \A w \in Worker : WF_vars(WorkStep(w))
  /\ \A n \in Note : WF_vars(LockAges(n))
  /\ \A w \in Worker, n \in Note :
       SF_vars(\E batch \in SUBSET Note : n \in batch /\ Claim(w, batch))

-----------------------------------------------------------------------------
NotesTypeOK ==
  /\ window \in [status : Current \cup {"cancelled"}, clock : {"before", "during", "after"},
                 cancelled : BOOLEAN]
  /\ \A n \in Note :
       /\ row[n].status \in {"absent", "pending", "processing"} \cup Settled
       /\ row[n].channel \in Channel
       /\ row[n].token \in Worker \cup {NoOne}
       /\ row[n].lock = "none" <=> row[n].token = NoOne
  /\ \A w \in Worker : mine[w] \subseteq Note /\ (mine[w] # {} <=> pc[w] = "delivering")

(* A cancelled window comes back only through a process that had looked at *)
(* it before: with none under way it stays cancelled for good.             *)
CancelledStays ==
  [][window.status = "cancelled" /\ window'.status # "cancelled"
       => \E e \in Enqueuer : looked[e] = "scheduled"]_vars

(* A notification is delivered, and audited as sent, once in the life of   *)
(* its row, unless a reader has put an old status back.                    *)
DeliveredOnce == \A n \in Note : sends[n] > 1 => n \in overwritten

(* What has been delivered, read, failed or cancelled is not waiting or    *)
(* under way again, but for such a reader.                                 *)
SettledForCause ==
  [][\A n \in Note : row[n].status \in Settled /\ row'[n].status \in {"pending", "processing"}
       => n \in overwritten']_vars

(* Every notification is settled in the end, whatever workers die, unless  *)
(* such a reader has taken its lock away; locks expire under live workers  *)
(* no more than MaxOutlived times.                                         *)
NotesSettle ==
  \A n \in Note : row[n].status = "pending" ~> row[n].status \in Settled \/ n \in overwritten
=============================================================================
