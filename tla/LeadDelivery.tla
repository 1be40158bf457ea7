---------------------------- MODULE LeadDelivery ----------------------------
(***************************************************************************)
(* What the outbox's lead.qualified event does: LeadQualifiedHandler       *)
(* (integrations/outbox/handlers.py) posts the lead to Smart360, mails the *)
(* sales team and posts to the tenant's webhooks, one after the other, and *)
(* keeps its progress in the LeadDraft row, which the chat's turns and the *)
(* operators change at the same time.  It runs inside the outbox: every    *)
(* step here is a step of Outbox, or leaves Outbox's state alone.          *)
(*                                                                         *)
(* An event of Outbox is also its lead: the deduplication key makes one    *)
(* lead.qualified event for each LeadDraft.                                *)
(***************************************************************************)
EXTENDS Outbox

CONSTANTS
  Turn,       (* chat turns that reach the database                        *)
  LeadOf,     (* the lead of each turn's conversation                      *)
  Config,     (* active webhook configurations for lead_qualified          *)
  CrmMode,    (* what the side-effect policy decides for Smart360          *)
  MailMode,   (* the same of LIVIA_LEAD_NOTIFICATIONS_*                    *)
  HookMode    (* and of each webhook configuration                         *)

Mode == {"off", "dry_run", "real"}

ASSUME LeadAssumption ==
  /\ LeadOf \in [Turn -> Event]
  /\ CrmMode \in Mode
  /\ MailMode \in Mode
  /\ HookMode \in [Config -> Mode]
  /\ {"sent", "dry_run", "active"} \cap Turn = {}
  /\ "mail" \notin Config

VARIABLES
  lead,        (* LeadDraft rows                                           *)
  copy,        (* the LeadDraft instance in each worker's handler          *)
  step,        (* how far the handler is                                   *)
  crm,         (* Smart360's answer                                        *)
  mail,        (* LeadNotificationResult                                   *)
  hooks,       (* the delivery log this run wrote for each configuration   *)
  hook_done,   (* configurations with a sent or dry_run log, of each lead  *)
  turn,        (* where each turn stands                                   *)
  memory,      (* the qualification_data a turn has read                   *)
  retry,       (* who is about to retry the lead, having checked it        *)
  (* History, read by properties only: *)
  crm_taken,   (* Smart360 has answered that it got the lead               *)
  mails,       (* mails sent: none, one, or more (2)                       *)
  posts,       (* requests each webhook's receiver got, counted likewise   *)
  unready,     (* a run skipped the mail: collection was no longer active  *)
  slips        (* what may excuse a second delivery                        *)

handlerVars == <<copy, step, crm, mail, hooks>>
turnVars == <<turn, memory>>
received == <<crm_taken, mails, posts, unready>>
leadVars == <<lead, handlerVars, hook_done, turnVars, retry, received, slips>>
allVars == <<vars, leadVars>>

(* qualification_data is the set of its keys that matter here: "sent" and  *)
(* "dry_run" are the mail's flags, "active" is collection_active, and each *)
(* turn adds what it learnt.                                               *)
Key == {"sent", "dry_run", "active"} \cup Turn

LeadStatus == {"draft", "qualified", "sent_to_crm", "failed"}
DispatchStatus == {"not_queued", "pending", "dry_run", "delivered", "failed", "retrying"}

Lead == [status : LeadStatus, dispatch : DispatchStatus, sent_at : BOOLEAN, data : SUBSET Key]

NoLead == [status |-> "draft", dispatch |-> "not_queued", sent_at |-> FALSE, data |-> {}]

Channel == Config \cup {"mail"}

(* Smart360's answers: 2xx with a JSON object; one that makes the client   *)
(* raise (a JSON array); none, or 408, 425, 429 or 5xx; any other, 2xx     *)
(* whose body is not JSON among them.                                      *)
CrmAnswer == {"accepted", "raised", "temporary", "rejected"}

CrmRetryable == {"raised", "temporary"}
CrmPermanent == {"rejected"}

(* Mutations, one plausible slip each: a result that forgets the mail's;   *)
(* flags and logs that are not looked up.                                  *)
OutcomeIgnoringMail(c, m, h) ==
  CASE c \in CrmRetryable \/ "temporary" \in h -> "retryable_failure"
    [] c \in CrmPermanent \/ "permanent" \in h -> "permanent_failure"
    [] c = "off" /\ h \subseteq {"skipped"} /\ m = "skipped" -> "skipped"
    [] OTHER -> "succeeded"
AlreadySentNever(d) == FALSE
AlreadyDeliveredNever(e, c) == FALSE

(* LeadQualifiedHandler.process, its precedence of results; h is the set   *)
(* of the webhooks' results.                                               *)
HandlerOutcome(c, m, h) ==
  CASE c \in CrmRetryable \/ "temporary" \in h \/ m = "failed" -> "retryable_failure"
    [] c \in CrmPermanent \/ "permanent" \in h -> "permanent_failure"
    [] c = "off" /\ h \subseteq {"skipped"} /\ m = "skipped" -> "skipped"
    [] OTHER -> "succeeded"

(* LeadNotificationService._already_sent, on the handler's own copy. *)
AlreadySent(d) == "sent" \in d

(* WebhookDispatchService._already_delivered. *)
AlreadyDelivered(e, c) == c \in hook_done[e]

(* _mark_delivered: the copy's whole qualification_data with the flag. *)
WithSentFlag(d) == d \cup {"sent"}

(* The counters of deliveries stop at 2, "more than one": a lock that      *)
(* times out again and again has no bound.                                 *)
OneMore(n) == IF n < 2 THEN n + 1 ELSE n

(* Handler-local state of a worker that is not handling anything. *)
Forget(w) ==
  /\ copy' = [copy EXCEPT ![w] = NoLead]
  /\ step' = [step EXCEPT ![w] = "none"]
  /\ crm' = [crm EXCEPT ![w] = "none"]
  /\ mail' = [mail EXCEPT ![w] = "none"]
  /\ hooks' = [hooks EXCEPT ![w] = [c \in Config |-> "none"]]

-----------------------------------------------------------------------------
LeadInit ==
  /\ Init
  /\ lead = [e \in Event |-> NoLead]
  /\ copy = [w \in Worker |-> NoLead]
  /\ step = [w \in Worker |-> "none"]
  /\ crm = [w \in Worker |-> "none"]
  /\ mail = [w \in Worker |-> "none"]
  /\ hooks = [w \in Worker |-> [c \in Config |-> "none"]]
  /\ hook_done = [e \in Event |-> {}]
  /\ turn = [t \in Turn |-> "new"]
  /\ memory = [t \in Turn |-> {}]
  /\ retry = [e \in Event |-> "nobody"]
  /\ crm_taken = [e \in Event |-> FALSE]
  /\ mails = [e \in Event |-> 0]
  /\ posts = [e \in Event |-> [c \in Config |-> 0]]
  /\ unready = [e \in Event |-> FALSE]
  /\ slips = {}

(* The worker's next event: the handler loads the lead, once. *)
Load(w, e) ==
  /\ Handle(w, e)
  /\ copy' = [copy EXCEPT ![w] = lead[e]]
  /\ step' = [step EXCEPT ![w] = "crm"]
  /\ UNCHANGED <<lead, crm, mail, hooks, hook_done, turnVars, retry, received, slips>>

(* _dispatch_smart360, the request.  A blocked or simulated one makes no   *)
(* call.  Neither the lead's status nor sent_to_crm_at is looked at.       *)
CrmRequest(w, answer) ==
  /\ step[w] = "crm"
  /\ CASE CrmMode = "off" -> answer = "off"
       [] CrmMode = "dry_run" -> answer = "accepted"
       [] OTHER -> answer \in CrmAnswer
  /\ crm' = [crm EXCEPT ![w] = answer]
  /\ crm_taken' = [crm_taken EXCEPT ![handling[w]] =
                     @ \/ (CrmMode = "real" /\ answer = "accepted")]
  /\ step' = [step EXCEPT ![w] = IF answer \in {"off", "raised"} THEN "mail" ELSE "crm_save"]
  /\ UNCHANGED <<vars, lead, copy, mail, hooks, hook_done, turnVars, retry,
                 mails, posts, unready, slips>>

(* The columns _dispatch_smart360 writes, on the row r as on the copy.  c  *)
(* is the copy: its status decides whether a success is written at all.    *)
CrmColumns(r, c, answer) ==
  CASE answer = "accepted" /\ c.status # "sent_to_crm" ->
         [r EXCEPT !.status = "sent_to_crm", !.sent_at = TRUE,
                   !.dispatch = IF CrmMode = "dry_run" THEN "dry_run" ELSE "delivered"]
    [] answer \in CrmRetryable -> [r EXCEPT !.dispatch = "retrying"]
    [] answer \in CrmPermanent -> [r EXCEPT !.dispatch = "failed"]
    [] OTHER -> r

(* _dispatch_smart360, what it saves after the answer. *)
CrmSave(w) ==
  LET e == handling[w]
  IN /\ step[w] = "crm_save"
     /\ lead' = [lead EXCEPT ![e] = CrmColumns(@, copy[w], crm[w])]
     /\ copy' = [copy EXCEPT ![w] = CrmColumns(@, @, crm[w])]
     /\ step' = [step EXCEPT ![w] = "mail"]
     /\ UNCHANGED <<vars, crm, mail, hooks, hook_done, turnVars, retry, received, slips>>

MayMail(w) ==
  /\ step[w] = "mail"
  /\ "active" \in copy[w].data
  /\ ~AlreadySent(copy[w].data)

(* The row's qualification_data becomes the copy's, changed. *)
SaveData(w, d) ==
  /\ lead' = [lead EXCEPT ![handling[w]].data = d]
  /\ copy' = [copy EXCEPT ![w].data = d]

(* LeadNotificationService.notify without a message: the copy's collection *)
(* is not active, or a flag says that it was done, or it is off; in        *)
(* dry-run mode the first time leaves the flag of it.                      *)
MailHeld(w) ==
  LET d == copy[w].data
      simulated == MayMail(w) /\ MailMode = "dry_run" /\ "dry_run" \notin d
  IN /\ step[w] = "mail"
     /\ "active" \notin d \/ AlreadySent(d) \/ MailMode # "real"
     /\ IF simulated THEN SaveData(w, d \cup {"dry_run"}) ELSE UNCHANGED <<lead, copy>>
     /\ mail' = [mail EXCEPT ![w] = IF simulated THEN "done" ELSE "skipped"]
     /\ step' = [step EXCEPT ![w] = "hooks"]
     /\ unready' = [unready EXCEPT ![handling[w]] = @ \/ "active" \notin d]
     /\ UNCHANGED <<vars, crm, hooks, hook_done, turnVars, retry, crm_taken, mails,
                    posts, slips>>

(* No recipient, or SMTP raises an error: before the server has taken the  *)
(* mail, or after it.                                                      *)
MailFails(w, taken) ==
  LET e == handling[w]
  IN /\ MayMail(w)
     /\ MailMode = "real"
     /\ mail' = [mail EXCEPT ![w] = "failed"]
     /\ step' = [step EXCEPT ![w] = "hooks"]
     /\ mails' = [mails EXCEPT ![e] = IF taken THEN OneMore(@) ELSE @]
     /\ slips' = slips \cup (IF taken THEN {<<e, "mail">>} ELSE {})
     /\ UNCHANGED <<vars, lead, copy, crm, hooks, hook_done, turnVars, retry,
                    crm_taken, posts, unready>>

(* The mail leaves ... *)
MailSend(w) ==
  /\ MayMail(w)
  /\ MailMode = "real"
  /\ mails' = [mails EXCEPT ![handling[w]] = OneMore(@)]
  /\ step' = [step EXCEPT ![w] = "mail_mark"]
  /\ UNCHANGED <<vars, lead, copy, crm, mail, hooks, hook_done, turnVars, retry,
                 crm_taken, posts, unready, slips>>

(* ... and _mark_delivered saves the flag. *)
MailMark(w) ==
  /\ step[w] = "mail_mark"
  /\ SaveData(w, WithSentFlag(copy[w].data))
  /\ mail' = [mail EXCEPT ![w] = "done"]
  /\ step' = [step EXCEPT ![w] = "hooks"]
  /\ UNCHANGED <<vars, crm, hooks, hook_done, turnVars, retry, received, slips>>

(* _dispatch_to_config without a request: delivered before, switched off,  *)
(* or simulated, which leaves a dry_run log.                               *)
HookSkip(w, c) ==
  LET e == handling[w]
  IN /\ step[w] = "hooks"
     /\ hooks[w][c] = "none"
     /\ AlreadyDelivered(e, c) \/ HookMode[c] # "real"
     /\ hooks' = [hooks EXCEPT ![w][c] = "skipped"]
     /\ hook_done' = [hook_done EXCEPT ![e] =
                        @ \cup (IF HookMode[c] = "dry_run" THEN {c} ELSE {})]
     /\ UNCHANGED <<vars, lead, copy, step, crm, mail, turnVars, retry, received, slips>>

(* The receiver gets the request ... *)
HookPost(w, c) ==
  LET e == handling[w]
  IN /\ step[w] = "hooks"
     /\ \A d \in Config : hooks[w][d] # "posted"
     /\ hooks[w][c] = "none"
     /\ ~AlreadyDelivered(e, c)
     /\ HookMode[c] = "real"
     /\ hooks' = [hooks EXCEPT ![w][c] = "posted"]
     /\ posts' = [posts EXCEPT ![e][c] = OneMore(@)]
     /\ UNCHANGED <<vars, lead, copy, step, crm, mail, hook_done, turnVars, retry,
                    crm_taken, mails, unready, slips>>

(* ... and the answer, 2xx, is logged as sent. *)
HookSent(w, c) ==
  /\ hooks[w][c] = "posted"
  /\ hooks' = [hooks EXCEPT ![w][c] = "sent"]
  /\ hook_done' = [hook_done EXCEPT ![handling[w]] = @ \cup {c}]
  /\ UNCHANGED <<vars, lead, copy, step, crm, mail, turnVars, retry, received, slips>>

(* The receiver's answer is an error or is lost: logged as failed, and     *)
(* retried if there is no status or one that _is_retryable_status names.   *)
HookFails(w, c, kind) ==
  /\ hooks[w][c] = "posted"
  /\ hooks' = [hooks EXCEPT ![w][c] = kind]
  /\ slips' = slips \cup {<<handling[w], c>>}
  /\ UNCHANGED <<vars, lead, copy, step, crm, mail, hook_done, turnVars, retry, received>>

HooksAnswered(w) == step[w] = "hooks" /\ \A c \in Config : hooks[w][c] \notin {"none", "posted"}

OutcomeOf(w) == HandlerOutcome(crm[w], mail[w], {hooks[w][c] : c \in Config})

(* The handler returns and finalize_outbox_event records its result, or    *)
(* drops it because the lock is gone.                                      *)
Return(w, e) ==
  /\ HooksAnswered(w)
  /\ Finalize(w, e, OutcomeOf(w)) \/ FinalizeRejected(w, e)
  /\ Forget(w)
  /\ UNCHANGED <<lead, hook_done, turnVars, retry, received, slips>>

(* A crash between a delivery and its record leaves it unrecorded. *)
WorkerCrash(w) ==
  /\ Crash(w)
  /\ Forget(w)
  /\ slips' = slips \cup
       (IF step[w] = "mail_mark" THEN {<<handling[w], "mail">>} ELSE {}) \cup
       {<<handling[w], c>> : c \in {d \in Config : hooks[w][d] = "posted"}}
  /\ UNCHANGED <<lead, hook_done, turnVars, retry, received>>

(* The lock times out, or the Django admin's action requeues the event: if *)
(* its claimant is alive, two workers may be handling the event soon.      *)
ClaimLost(e) ==
  /\ LockTimeoutElapses(e) \/ \E a \in Admin : AdminSave(a, e)
  /\ slips' = slips \cup (IF claimant[e] # NoOne THEN {e} \X Channel ELSE {})
  /\ UNCHANGED <<lead, handlerVars, hook_done, turnVars, retry, received>>

-----------------------------------------------------------------------------
(* Turns of one conversation exclude each other by its row lock. *)
ConversationFree(e) == \A t \in Turn : LeadOf[t] = e => turn[t] # "read"

(* qualify_from_message under the lead's row lock, with the enqueue of     *)
(* capture_from_message in the same transaction: the turn that completes   *)
(* the lead, or any later one that collects.  active: collection was       *)
(* active; paused: pause_collection ends it again.                         *)
Qualify(t, active, paused) ==
  LET e == LeadOf[t]
      r == lead[e]
      status1 == IF r.status \in {"sent_to_crm", "failed"} THEN r.status ELSE "qualified"
  IN /\ turn[t] = "new"
     /\ ConversationFree(e)
     /\ lead' = [lead EXCEPT ![e] =
          [r EXCEPT !.status = status1,
                    !.dispatch = IF @ = "not_queued" /\ status1 = "qualified"
                                 THEN "pending" ELSE @,
                    !.data = (@ \ {"active"}) \cup {t}
                               \cup (IF active /\ ~paused THEN {"active"} ELSE {})]]
     /\ turn' = [turn EXCEPT ![t] = "done"]
     /\ IF active /\ status[e] = "absent" THEN Enqueue(e) ELSE UNCHANGED vars
     /\ UNCHANGED <<handlerVars, hook_done, memory, retry, received, slips>>

(* A turn that only keeps the dialogue's memory: persist_dialogue_memory   *)
(* refreshes qualification_data, with no lock on the lead ...  It stands   *)
(* for the rewording of a reply too, which saves the qualification_data    *)
(* that its turn had read.                                                 *)
ReadMemory(t) ==
  /\ turn[t] = "new"
  /\ ConversationFree(LeadOf[t])
  /\ turn' = [turn EXCEPT ![t] = "read"]
  /\ memory' = [memory EXCEPT ![t] = lead[LeadOf[t]].data]
  /\ UNCHANGED <<vars, lead, handlerVars, hook_done, retry, received, slips>>

(* ... and saves it whole, with what the turn learnt. *)
SaveMemory(t) ==
  LET e == LeadOf[t]
  IN /\ turn[t] = "read"
     /\ turn' = [turn EXCEPT ![t] = "done"]
     /\ lead' = [lead EXCEPT ![e].data = memory[t] \cup {t}]
     /\ memory' = [memory EXCEPT ![t] = {}]
     /\ slips' = slips \cup (IF "sent" \in lead[e].data \ memory[t]
                             THEN {<<e, "flag">>} ELSE {})
     /\ UNCHANGED <<vars, handlerVars, hook_done, retry, received>>

(* A superuser sets the status of the lead in the Django admin's form.     *)
(* Bounded with the requeues, which alone read it.                         *)
MarkFailed(e) ==
  /\ lead[e].status # "failed"
  /\ requeues[e] < MaxRequeues
  /\ status[e] # "absent"
  /\ lead' = [lead EXCEPT ![e].status = "failed"]
  /\ UNCHANGED <<vars, handlerVars, hook_done, turnVars, retry, received, slips>>

(* An operator asks for the lead to be sent again, at the portal or by the *)
(* Django admin's action: both check the row that they have loaded, ...    *)
RetryCheck(e, at) ==
  /\ retry[e] = "nobody"
  /\ lead[e].status = "failed"
  /\ ~lead[e].sent_at
  /\ retry' = [retry EXCEPT ![e] = at]
  /\ UNCHANGED <<vars, lead, handlerVars, hook_done, turnVars, received, slips>>

(* ... then execute_portal_crm_retry looks at the event alone, ...         *)
PortalExecute(e) ==
  /\ retry[e] = "portal"
  /\ retry' = [retry EXCEPT ![e] = "nobody"]
  /\ \/ /\ PortalRetry(e)
        /\ lead' = [lead EXCEPT ![e].status = "qualified"]
     \/ /\ ~PortalAccepts(e)
        /\ UNCHANGED <<vars, lead>>
  /\ UNCHANGED <<handlerVars, hook_done, turnVars, received, slips>>

(* ... and retry_failed_crm_dispatch enqueues, which finds the event that  *)
(* the lead has and leaves it as it is.                                    *)
AdminExecute(e) ==
  /\ retry[e] = "admin"
  /\ retry' = [retry EXCEPT ![e] = "nobody"]
  /\ lead' = [lead EXCEPT ![e].status = "qualified"]
  /\ UNCHANGED <<vars, handlerVars, hook_done, turnVars, received, slips>>

-----------------------------------------------------------------------------
HandlerStep(w) ==
  \/ \E e \in Event : Load(w, e) \/ Return(w, e)
  \/ \E answer \in CrmAnswer \cup {"off"} : CrmRequest(w, answer)
  \/ CrmSave(w)
  \/ MailHeld(w)
  \/ \E taken \in BOOLEAN : MailFails(w, taken)
  \/ MailSend(w)
  \/ MailMark(w)
  \/ \E c \in Config :
       \/ HookSkip(w, c)
       \/ HookPost(w, c)
       \/ HookSent(w, c)
       \/ \E kind \in {"temporary", "permanent"} : HookFails(w, c, kind)

(* The outbox's steps that no handler and no lead takes part in. *)
OutboxStep ==
  /\ \/ \E w \in Worker :
          \/ RecoverAbandonedLocks(w)
          \/ \E S \in SUBSET Event : Claim(w, S)
     \/ \E e \in Event : BackoffElapses(e)
     \/ \E a \in Admin, S \in SUBSET Event : AdminSelect(a, S)
  /\ UNCHANGED leadVars

LeadNext ==
  \/ OutboxStep
  \/ \E w \in Worker : HandlerStep(w) \/ WorkerCrash(w)
  \/ \E t \in Turn :
       \/ \E active, paused \in BOOLEAN : Qualify(t, active, paused)
       \/ ReadMemory(t)
       \/ SaveMemory(t)
  \/ \E e \in Event :
       \/ ClaimLost(e)
       \/ MarkFailed(e)
       \/ \E at \in {"portal", "admin"} : RetryCheck(e, at)
       \/ PortalExecute(e)
       \/ AdminExecute(e)

LeadSpec == LeadInit /\ [][LeadNext]_allVars

-----------------------------------------------------------------------------
LeadTypeOK ==
  /\ lead \in [Event -> Lead]
  /\ copy \in [Worker -> Lead]
  /\ step \in [Worker -> {"none", "crm", "crm_save", "mail", "mail_mark", "hooks"}]
  /\ crm \in [Worker -> CrmAnswer \cup {"none", "off"}]
  /\ mail \in [Worker -> {"none", "skipped", "done", "failed"}]
  /\ hooks \in [Worker -> [Config -> {"none", "posted", "sent", "skipped",
                                      "temporary", "permanent"}]]
  /\ hook_done \in [Event -> SUBSET Config]
  /\ turn \in [Turn -> {"new", "read", "done"}]
  /\ memory \in [Turn -> SUBSET Key]
  /\ retry \in [Event -> {"nobody", "portal", "admin"}]
  /\ crm_taken \in [Event -> BOOLEAN]
  /\ mails \in [Event -> 0..2]
  /\ posts \in [Event -> [Config -> 0..2]]
  /\ unready \in [Event -> BOOLEAN]
  /\ slips \subseteq Event \X (Channel \cup {"flag"})

(* An event is recorded as succeeded only when every channel that is in    *)
(* real mode has got it: Smart360, every webhook, and the mail unless the  *)
(* lead's collection was closed.  Whatever fails, crashes, is overtaken or *)
(* overwritten by a turn, no delivery is forgotten by a success.           *)
SuccessIsComplete ==
  \A e \in Event : status[e] = "succeeded" =>
    /\ CrmMode = "real" => crm_taken[e]
    /\ MailMode = "real" => mails[e] > 0 \/ unready[e]
    /\ \A c \in Config : HookMode[c] = "real" => c \in hook_done[e]

(* The row never claims a delivery that Smart360 has not got; above all,   *)
(* a simulated one is not shown as delivered.                              *)
DeliveredWasTaken == \A e \in Event : lead[e].dispatch = "delivered" => crm_taken[e]

(* A second mail needs an excuse: a crash or an SMTP error between the     *)
(* mail and its flag, a live worker's lock that timed out, or a turn, in   *)
(* its transaction or when it reworded its reply, that overwrote the flag. *)
MailRepeatsForCause ==
  \A e \in Event : mails[e] > 1 => <<e, "mail">> \in slips \/ <<e, "flag">> \in slips

(* A webhook's receiver gets the event twice only if its answer was an     *)
(* error or lost, the worker crashed before the log, or a lock timed out.  *)
PostRepeatsForCause ==
  \A e \in Event : \A c \in Config : posts[e][c] > 1 => <<e, c>> \in slips
=============================================================================
