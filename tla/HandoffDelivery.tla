-------------------------- MODULE HandoffDelivery --------------------------
(***************************************************************************)
(* A conversation's requests for a human: leads/services/handoff.py        *)
(* creates or updates a HandoffRequest in the turn's transaction, the      *)
(* outbox's handoff.created event mails the attendants and posts to the    *)
(* tenant's webhook (HandoffCreatedHandler), and operators close it at the *)
(* portal or in the Django admin.  It runs inside the outbox: every step   *)
(* here is a step of Outbox, or leaves Outbox's state alone.               *)
(*                                                                         *)
(* An event of Outbox is also its handoff.  The webhooks are one           *)
(* configuration here; LeadDelivery has several.  handoff_state, resolved_ *)
(* at and the lead's handoff_status, written along with the columns below, *)
(* are read by no code modelled here and are left out.                     *)
(***************************************************************************)
EXTENDS Outbox

CONSTANTS
  Operator,      (* people at the portal                                   *)
  Conversation,
  ConvOf,        (* the conversation of each handoff                       *)
  Settings,      (* deployments considered: the modes of notifications and *)
                 (* of webhooks ("none": no active configuration)          *)
  MaxTurns,      (* bound: turns that ask for a human                      *)
  MaxCloses      (* bound: status changes asked for by people              *)

ASSUME HandoffAssumption ==
  /\ ConvOf \in [Event -> Conversation]
  /\ Settings \subseteq [notify : {"off", "dry_run", "real"},
                           hook : {"none", "off", "dry_run", "real"}]
  /\ MaxTurns \in Nat
  /\ MaxCloses \in Nat

VARIABLES
  settings,    (* the deployment's, fixed from the start                   *)
  handoff,     (* HandoffRequest rows                                      *)
  copy,        (* the HandoffRequest instance in each worker's handler     *)
  step,        (* how far the handler is                                   *)
  note,        (* HandoffNotificationResult                                *)
  hook,        (* the status of the log this run wrote                     *)
  hook_done,   (* handoffs with a sent or dry_run log                      *)
  form,        (* the handoff a portal operator's request has loaded       *)
  turns,
  closes,
  (* History, read by properties only: *)
  mails,       (* mails sent: none, one, or more (2)                       *)
  hook_taken,  (* handoffs whose webhook's receiver answered 2xx           *)
  by_hand,     (* handoffs an operator marked as notified                  *)
  reopened,    (* handoffs that became active again after they were closed *)
  slips        (* handoffs whose mail a crash, an SMTP error or a lock     *)
               (* timeout may have repeated                                *)

handlerVars == <<copy, step, note, hook>>
deskVars == <<settings, form, turns, closes>>
told == <<mails, hook_taken, by_hand, reopened, slips>>
handoffVars == <<handoff, handlerVars, hook_done, deskVars, told>>
allVars == <<vars, handoffVars>>

HandoffStatus == {"pending", "sent", "resolved", "cancelled"}
DispatchState == {"pending", "dry_run", "delivered", "failed", "retrying"}

(* key: metadata has handoff_notification_sent_at. *)
Handoff == [status : HandoffStatus, dispatch : DispatchState, key : BOOLEAN]

NewHandoff == [status |-> "pending", dispatch |-> "pending", key |-> FALSE]

Closed == {"resolved", "cancelled"}
Exists(e) == status[e] # "absent"

NoForm == [handoff |-> NoOne, copy |-> NewHandoff, target |-> "sent"]

OneMore(n) == IF n < 2 THEN n + 1 ELSE n

(* Mutations, one plausible slip each: sent handoffs are not active; the   *)
(* key is not looked up; a notification without recipient counts as done.  *)
ActiveStatusesPending == {"pending"}
AlreadySentNever(h) == FALSE
OutcomeAnyNote(n, h) ==
  CASE h = "temporary" -> "retryable_failure"
    [] h = "permanent" -> "permanent_failure"
    [] OTHER -> "succeeded"

(* HandoffService.active_statuses. *)
ActiveStatuses == {"pending", "sent"}

Active(e) == Exists(e) /\ handoff[e].status \in ActiveStatuses

(* HandoffNotificationService._already_sent, on the handler's own copy. *)
AlreadySent(h) == h.key

(* HandoffCreatedHandler.process: its result and the dispatch_state it     *)
(* saves, from the notification n and the webhook's log h.                 *)
HandlerOutcome(n, h) ==
  CASE h = "temporary" -> "retryable_failure"
    [] h = "permanent" -> "permanent_failure"
    [] n = "missing" /\ h # "sent" -> "skipped"
    [] OTHER -> "succeeded"

DispatchFor(n, h) ==
  CASE h = "temporary" -> "retrying"
    [] h = "permanent" -> "failed"
    [] h = "sent" \/ n = "told" -> "delivered"
    [] OTHER -> "dry_run"

(* HANDOFF_TRANSITIONS. *)
Transitions(s) ==
  CASE s = "pending" -> {"sent", "resolved", "cancelled"}
    [] s = "sent" -> {"resolved", "cancelled"}
    [] OTHER -> {}

Forget(w) ==
  /\ copy' = [copy EXCEPT ![w] = NewHandoff]
  /\ step' = [step EXCEPT ![w] = "none"]
  /\ note' = [note EXCEPT ![w] = "none"]
  /\ hook' = [hook EXCEPT ![w] = "none"]

-----------------------------------------------------------------------------
HandoffInit ==
  /\ Init
  /\ settings \in Settings
  /\ handoff = [e \in Event |-> NewHandoff]
  /\ copy = [w \in Worker |-> NewHandoff]
  /\ step = [w \in Worker |-> "none"]
  /\ note = [w \in Worker |-> "none"]
  /\ hook = [w \in Worker |-> "none"]
  /\ hook_done = {}
  /\ form = [o \in Operator |-> NoForm]
  /\ turns = 0
  /\ closes = 0
  /\ mails = [e \in Event |-> 0]
  /\ hook_taken = {}
  /\ by_hand = {}
  /\ reopened = {}
  /\ slips = {}

(* create_or_update_handoff in a turn, which holds the conversation's row  *)
(* lock: no active handoff, so one is created with its event, ...          *)
CreateHandoff(e) ==
  /\ turns < MaxTurns
  /\ turns' = turns + 1
  /\ \A f \in Event : ConvOf[f] = ConvOf[e] => ~Active(f)
  /\ Enqueue(e)
  /\ handoff' = [handoff EXCEPT ![e] = NewHandoff]
  /\ UNCHANGED <<settings, handlerVars, hook_done, form, closes, told>>

(* The event's handler loads the handoff. *)
Load(w, e) ==
  /\ Handle(w, e)
  /\ copy' = [copy EXCEPT ![w] = handoff[e]]
  /\ step' = [step EXCEPT ![w] = "notify"]
  /\ UNCHANGED <<handoff, note, hook, hook_done, deskVars, told>>

(* notify without a mail: done before, off, or no recipient configured.    *)
NotifySkip(w, result) ==
  /\ step[w] = "notify"
  /\ \/ /\ AlreadySent(copy[w])
        /\ result = IF settings.notify = "real" THEN "told" ELSE "simulated"
     \/ /\ ~AlreadySent(copy[w])
        /\ settings.notify = "off"
        /\ result = "simulated"
     \/ /\ ~AlreadySent(copy[w])
        /\ settings.notify = "real"
        /\ result = "missing"
  /\ note' = [note EXCEPT ![w] = result]
  /\ step' = [step EXCEPT ![w] = "hook"]
  /\ UNCHANGED <<vars, handoff, copy, hook, hook_done, deskVars, told>>

(* _mark_sent, on the row and on the copy. *)
SetKey(w) ==
  /\ handoff' = [handoff EXCEPT ![handling[w]].key = TRUE]
  /\ copy' = [copy EXCEPT ![w].key = TRUE]

(* notify in dry-run mode: only the key is written. *)
NotifyDryRun(w) ==
  /\ step[w] = "notify"
  /\ ~AlreadySent(copy[w])
  /\ settings.notify = "dry_run"
  /\ SetKey(w)
  /\ note' = [note EXCEPT ![w] = "simulated"]
  /\ step' = [step EXCEPT ![w] = "hook"]
  /\ UNCHANGED <<vars, hook, hook_done, deskVars, told>>

MayMail(w) ==
  /\ step[w] = "notify"
  /\ ~AlreadySent(copy[w])
  /\ settings.notify = "real"

(* The mail leaves ... *)
MailSend(w) ==
  /\ MayMail(w)
  /\ mails' = [mails EXCEPT ![handling[w]] = OneMore(@)]
  /\ step' = [step EXCEPT ![w] = "mail_mark"]
  /\ UNCHANGED <<vars, handoff, copy, note, hook, hook_done, deskVars,
                 hook_taken, by_hand, reopened, slips>>

(* ... its key is saved, ...                                               *)
MailMark(w) ==
  /\ step[w] = "mail_mark"
  /\ SetKey(w)
  /\ note' = [note EXCEPT ![w] = "told"]
  /\ step' = [step EXCEPT ![w] = IF copy[w].status = "pending" THEN "status" ELSE "hook"]
  /\ UNCHANGED <<vars, hook, hook_done, deskVars, told>>

(* A handoff that is saved as active although the row is closed by now.    *)
Reopens(e) ==
  reopened' = reopened \cup (IF handoff[e].status \in Closed THEN {e} ELSE {})

(* ... and a handoff that was pending when it was loaded becomes sent.     *)
MarkNotified(w) ==
  LET e == handling[w]
  IN /\ step[w] = "status"
     /\ handoff' = [handoff EXCEPT ![e].status = "sent"]
     /\ copy' = [copy EXCEPT ![w].status = "sent"]
     /\ Reopens(e)
     /\ step' = [step EXCEPT ![w] = "hook"]
     /\ UNCHANGED <<vars, note, hook, hook_done, deskVars, mails, hook_taken, by_hand,
                    slips>>

(* SMTP raises an error, before or after the server took the mail: the     *)
(* exception leaves the handler and the batch takes it for retryable.      *)
MailFails(w, e, taken) ==
  /\ MayMail(w)
  /\ Finalize(w, e, "retryable_failure") \/ FinalizeRejected(w, e)
  /\ Forget(w)
  /\ mails' = [mails EXCEPT ![e] = IF taken THEN OneMore(@) ELSE @]
  /\ slips' = slips \cup (IF taken THEN {e} ELSE {})
  /\ UNCHANGED <<handoff, hook_done, deskVars, hook_taken, by_hand, reopened>>

(* dispatch_handoff_created without a request. *)
HookSkip(w) ==
  LET e == handling[w]
      done == e \in hook_done
  IN /\ step[w] = "hook"
     /\ done \/ settings.hook # "real"
     /\ hook' = [hook EXCEPT ![w] = "skipped"]
     /\ hook_done' = hook_done \cup (IF settings.hook = "dry_run" THEN {e} ELSE {})
     /\ step' = [step EXCEPT ![w] = "dispatch"]
     /\ UNCHANGED <<vars, handoff, copy, note, deskVars, told>>

(* The request and the log of its answer. *)
HookPost(w, answer) ==
  LET e == handling[w]
  IN /\ step[w] = "hook"
     /\ e \notin hook_done
     /\ settings.hook = "real"
     /\ hook' = [hook EXCEPT ![w] = answer]
     /\ hook_done' = hook_done \cup (IF answer = "sent" THEN {e} ELSE {})
     /\ hook_taken' = hook_taken \cup (IF answer = "sent" THEN {e} ELSE {})
     /\ step' = [step EXCEPT ![w] = "dispatch"]
     /\ UNCHANGED <<vars, handoff, copy, note, deskVars, mails, by_hand,
                    reopened, slips>>

(* The handler saves dispatch_state over whatever it has become ...        *)
SaveDispatch(w) ==
  LET d == DispatchFor(note[w], hook[w])
  IN /\ step[w] = "dispatch"
     /\ handoff' = [handoff EXCEPT ![handling[w]].dispatch = d]
     /\ copy' = [copy EXCEPT ![w].dispatch = d]
     /\ step' = [step EXCEPT ![w] = "return"]
     /\ UNCHANGED <<vars, note, hook, hook_done, deskVars, told>>

(* ... and returns; finalize_outbox_event records or drops its result.     *)
Return(w, e) ==
  /\ step[w] = "return"
  /\ Finalize(w, e, HandlerOutcome(note[w], hook[w])) \/ FinalizeRejected(w, e)
  /\ Forget(w)
  /\ UNCHANGED <<handoff, hook_done, deskVars, told>>

(* A crash between the mail and its key leaves it unrecorded. *)
WorkerCrash(w) ==
  /\ Crash(w)
  /\ Forget(w)
  /\ slips' = slips \cup (IF step[w] = "mail_mark" THEN {handling[w]} ELSE {})
  /\ UNCHANGED <<handoff, hook_done, deskVars, mails, hook_taken, by_hand,
                 reopened>>

(* The lock times out, or the Django admin's action requeues the event: if *)
(* its claimant is alive, two workers may be handling the event soon.      *)
ClaimLost(e) ==
  /\ LockTimeoutElapses(e) \/ \E a \in Admin : AdminSave(a, e)
  /\ slips' = slips \cup (IF claimant[e] # NoOne THEN {e} ELSE {})
  /\ UNCHANGED <<handoff, handlerVars, hook_done, deskVars, mails,
                 hook_taken, by_hand, reopened>>

-----------------------------------------------------------------------------
(* update_handoff_status loads the handoff and checks the transition ...   *)
PortalLoad(o, e, target) ==
  /\ form[o] = NoForm
  /\ Exists(e)
  /\ closes < MaxCloses
  /\ closes' = closes + 1
  /\ target \in Transitions(handoff[e].status)
  /\ form' = [form EXCEPT ![o] = [handoff |-> e, copy |-> handoff[e], target |-> target]]
  /\ UNCHANGED <<vars, settings, handoff, handlerVars, hook_done, turns, told>>

(* ... then mark_sent, mark_resolved or mark_cancelled saves it.  mark_sent *)
(* writes dispatch_state too, from its copy.                               *)
PortalSave(o) ==
  LET f == form[o]
      e == f.handoff
      d == IF f.copy.dispatch = "pending" THEN "delivered" ELSE f.copy.dispatch
  IN /\ f # NoForm
     /\ form' = [form EXCEPT ![o] = NoForm]
     /\ IF f.target = "sent"
        THEN /\ handoff' = [handoff EXCEPT ![e].status = "sent", ![e].dispatch = d]
             /\ by_hand' = by_hand \cup {e}
             /\ Reopens(e)
        ELSE /\ handoff' = [handoff EXCEPT ![e].status = f.target]
             /\ UNCHANGED <<by_hand, reopened>>
     /\ UNCHANGED <<vars, settings, handlerVars, hook_done, turns, closes, mails, hook_taken,
                    slips>>

(* mark_handoffs_resolved and mark_handoffs_cancelled, one UPDATE. *)
AdminClose(S, target) ==
  /\ closes < MaxCloses
  /\ closes' = closes + 1
  /\ S # {}
  /\ \A e \in S : Exists(e)
  /\ handoff' = [e \in Event |-> IF e \in S THEN [handoff[e] EXCEPT !.status = target]
                                 ELSE handoff[e]]
  /\ UNCHANGED <<vars, settings, handlerVars, hook_done, form, turns, told>>

-----------------------------------------------------------------------------
HandlerStep(w) ==
  \/ \E e \in Event :
       \/ Load(w, e)
       \/ Return(w, e)
       \/ \E taken \in BOOLEAN : MailFails(w, e, taken)
  \/ \E result \in {"told", "simulated", "missing"} : NotifySkip(w, result)
  \/ NotifyDryRun(w)
  \/ MailSend(w)
  \/ MailMark(w)
  \/ MarkNotified(w)
  \/ HookSkip(w)
  \/ \E answer \in {"sent", "temporary", "permanent"} : HookPost(w, answer)
  \/ SaveDispatch(w)

OutboxStep ==
  /\ \/ \E w \in Worker :
          \/ RecoverAbandonedLocks(w)
          \/ \E S \in SUBSET Event : Claim(w, S)
     \/ \E e \in Event : BackoffElapses(e)
     \/ \E a \in Admin, S \in SUBSET Event : AdminSelect(a, S)
  /\ UNCHANGED handoffVars

HandoffNext ==
  \/ OutboxStep
  \/ \E w \in Worker : HandlerStep(w) \/ WorkerCrash(w)
  \/ \E e \in Event : CreateHandoff(e) \/ ClaimLost(e)
  \/ \E o \in Operator :
       \/ \E e \in Event, target \in HandoffStatus : PortalLoad(o, e, target)
       \/ PortalSave(o)
  \/ \E S \in SUBSET Event, target \in Closed : AdminClose(S, target)

HandoffSpec == HandoffInit /\ [][HandoffNext]_allVars

-----------------------------------------------------------------------------
HandoffTypeOK ==
  /\ settings \in Settings
  /\ handoff \in [Event -> Handoff]
  /\ copy \in [Worker -> Handoff]
  /\ step \in [Worker -> {"none", "notify", "mail_mark", "status", "hook", "dispatch",
                          "return"}]
  /\ note \in [Worker -> {"none", "told", "simulated", "missing"}]
  /\ hook \in [Worker -> {"none", "skipped", "sent", "temporary", "permanent"}]
  /\ hook_done \subseteq Event
  /\ form \in [Operator -> [handoff : Event \cup {NoOne}, copy : Handoff,
                            target : HandoffStatus]]
  /\ turns \in 0..MaxTurns
  /\ closes \in 0..MaxCloses
  /\ mails \in [Event -> 0..2]
  /\ hook_taken \subseteq Event
  /\ by_hand \subseteq Event
  /\ reopened \subseteq Event
  /\ slips \subseteq Event

(* In real mode an event succeeds only if somebody was told of the request *)
(* for a human: the mail left or the webhook's receiver took it.           *)
SuccessToldSomeone ==
  settings.notify = "real" =>
    \A e \in Event : status[e] = "succeeded" => mails[e] > 0 \/ e \in hook_taken

(* dispatch_state shows delivered only after a real mail, a real webhook   *)
(* or an operator who says so; a simulated notification never looks real.  *)
DeliveredWasTold ==
  \A e \in Event : handoff[e].dispatch = "delivered" =>
    mails[e] > 0 \/ e \in hook_taken \/ e \in by_hand

(* A second mail for one handoff needs a crash or an SMTP error between    *)
(* the mail and its key, or a lock timeout of a live worker: turns and     *)
(* operators cannot cause one.                                             *)
MailRepeatsForCause == \A e \in Event : mails[e] > 1 => e \in slips

(* A conversation has one active handoff: a turn updates the one there is  *)
(* (docs/handoff.md), and a second one appears only when a stale save      *)
(* reopens a handoff that was closed.                                      *)
OneActiveHandoff ==
  \A e, f \in Event \ reopened :
    e # f /\ ConvOf[e] = ConvOf[f] /\ Exists(e) /\ Exists(f) =>
      handoff[e].status \in Closed \/ handoff[f].status \in Closed
=============================================================================
