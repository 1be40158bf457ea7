----------------------------- MODULE LeadProofs -----------------------------
(***************************************************************************)
(* Theorems about LeadDelivery, for any leads, workers, turns, webhooks    *)
(* and modes.                                                              *)
(*                                                                         *)
(* Every step of LeadDelivery is a step of Outbox or leaves it alone, so   *)
(* what is proved of Outbox holds here.  SuccessIsComplete rests on        *)
(* Evidence: what a running handler believes it has delivered, and what    *)
(* the flags in the database say, really happened; what happened does not  *)
(* unhappen, so copies that are out of date do no harm.  That a delivery   *)
(* repeats for a cause only rests on Traces: until its lock is lost, an    *)
(* event's handlers come one after the other, and each finds the log or    *)
(* the flag that the one before it left.                                   *)
(***************************************************************************)
EXTENDS LeadDelivery, OutboxProofs

USE OutboxAssumption, LeadAssumption

LEMMA HandlerOutcomeType ==
  ASSUME NEW c, NEW m, NEW h
  PROVE  HandlerOutcome(c, m, h) \in Outcome
BY DEF HandlerOutcome, Outcome

LEMMA StepInOutbox == [LeadNext]_allVars => [Next]_vars
<1> SUFFICES ASSUME [LeadNext]_allVars
             PROVE  [Next]_vars
  OBVIOUS
<1> USE DEF Next, WorkerStep
<1>1. CASE OutboxStep
  BY <1>1 DEF OutboxStep
<1>2. ASSUME NEW w \in Worker, NEW e \in Event, Load(w, e)
      PROVE  [Next]_vars
  BY <1>2 DEF Load
<1>3. ASSUME NEW w \in Worker, NEW e \in Event, Return(w, e)
      PROVE  [Next]_vars
  <2>1. OutcomeOf(w) \in Outcome
    BY HandlerOutcomeType DEF OutcomeOf
  <2>2. QED
    BY <1>3, <2>1 DEF Return
<1>4. ASSUME NEW w \in Worker, HandlerStep(w),
             ~\E e \in Event : Load(w, e) \/ Return(w, e)
      PROVE  UNCHANGED vars
  BY <1>4 DEF HandlerStep, CrmRequest, CrmSave, MailHeld, MailFails, MailSend,
     MailMark, HookSkip, HookPost, HookSent, HookFails
<1>5. ASSUME NEW w \in Worker, WorkerCrash(w)
      PROVE  [Next]_vars
  BY <1>5 DEF WorkerCrash
<1>6. ASSUME NEW t \in Turn, NEW active \in BOOLEAN, NEW paused \in BOOLEAN,
             Qualify(t, active, paused)
      PROVE  [Next]_vars
  <2>1. LeadOf[t] \in Event
    OBVIOUS
  <2>2. CASE active /\ status[LeadOf[t]] = "absent"
    BY <1>6, <2>1, <2>2 DEF Qualify
  <2>3. CASE ~(active /\ status[LeadOf[t]] = "absent")
    BY <1>6, <2>3 DEF Qualify
  <2>4. QED
    BY <2>2, <2>3
<1>7. ASSUME NEW t \in Turn, ReadMemory(t) \/ SaveMemory(t)
      PROVE  UNCHANGED vars
  BY <1>7 DEF ReadMemory, SaveMemory
<1>8. ASSUME NEW e \in Event, ClaimLost(e)
      PROVE  [Next]_vars
  BY <1>8 DEF ClaimLost
<1>9. ASSUME NEW e \in Event,
             MarkFailed(e) \/ AdminExecute(e) \/ \E at \in {"portal", "admin"} : RetryCheck(e, at)
      PROVE  UNCHANGED vars
  BY <1>9 DEF MarkFailed, RetryCheck, AdminExecute
<1>10. ASSUME NEW e \in Event, PortalExecute(e)
       PROVE  [Next]_vars
  BY <1>10 DEF PortalExecute
<1>11. CASE UNCHANGED allVars
  BY <1>11 DEF allVars
<1>12. QED
  BY <1>1, <1>2, <1>3, <1>4, <1>5, <1>6, <1>7, <1>8, <1>9, <1>10, <1>11 DEF LeadNext, HandlerStep

(* The lead's deliveries run inside the outbox: its retry budget, fencing  *)
(* and refinement of the ledger hold of the composition too.               *)
THEOREM RunsInOutbox == LeadSpec => Spec
<1>1. LeadInit => Init
  BY DEF LeadInit
<1>2. QED
  BY <1>1, StepInOutbox, PTL DEF LeadSpec, Spec

(* The types of the outbox's variables carry over. *)
THEOREM LeadKeepsOutboxTypes == LeadSpec => []TypeOK
BY RunsInOutbox, TypeCorrect, PTL

-----------------------------------------------------------------------------
LEMMA CrmColumnsType ==
  ASSUME NEW r \in Lead, NEW c \in Lead, NEW answer
  PROVE  /\ CrmColumns(r, c, answer) \in Lead
         /\ CrmColumns(r, c, answer).data = r.data
BY DEF CrmColumns, Lead, LeadStatus, DispatchStatus

LEMMA NoLeadType == NoLead \in Lead
BY DEF NoLead, Lead, LeadStatus, DispatchStatus, Key

LEMMA OneMoreType ==
  ASSUME NEW n \in 0..2
  PROVE  OneMore(n) \in 0..2 /\ OneMore(n) > 0
BY DEF OneMore

(* The updates of one column that actions make. *)
LEMMA LeadUpdateType ==
  ASSUME NEW r \in Lead
  PROVE  /\ r.data \in SUBSET Key
         /\ \A d \in SUBSET Key : [r EXCEPT !.data = d] \in Lead
         /\ \A s \in LeadStatus : [r EXCEPT !.status = s] \in Lead
         /\ \A s \in LeadStatus, p \in DispatchStatus, d \in SUBSET Key :
              [r EXCEPT !.status = s, !.dispatch = p, !.data = d] \in Lead
BY DEF Lead

LEMMA SaveDataType ==
  ASSUME LeadTypeOK, NEW w \in Worker, NEW d \in SUBSET Key, SaveData(w, d)
  PROVE  (lead \in [Event -> Lead])' /\ (copy \in [Worker -> Lead])'
<1> USE DEF LeadTypeOK
<1>1. \A e \in Event : [lead[e] EXCEPT !.data = d] \in Lead
  BY LeadUpdateType
<1>2. \A v \in Worker : [copy[v] EXCEPT !.data = d] \in Lead
  BY LeadUpdateType
<1>3. /\ lead' = [lead EXCEPT ![handling[w]] = [lead[handling[w]] EXCEPT !.data = d]]
      /\ copy' = [copy EXCEPT ![w] = [copy[w] EXCEPT !.data = d]]
  BY DEF SaveData
<1>4. QED
  BY <1>1, <1>2, <1>3

(* The two ways to hold a mail back: without a trace, ... *)
MailSkip(w) ==
  /\ step[w] = "mail"
  /\ \/ "active" \notin copy[w].data
     \/ AlreadySent(copy[w].data)
     \/ MailMode = "off"
     \/ MailMode = "dry_run" /\ "dry_run" \in copy[w].data
  /\ mail' = [mail EXCEPT ![w] = "skipped"]
  /\ step' = [step EXCEPT ![w] = "hooks"]
  /\ unready' = [unready EXCEPT ![handling[w]] = @ \/ "active" \notin copy[w].data]
  /\ UNCHANGED <<vars, lead, copy, crm, hooks, hook_done, turnVars, retry, crm_taken, mails,
                 posts, slips>>

(* ... or simulated, with the flag of it. *)
MailDryRun(w) ==
  /\ MayMail(w)
  /\ MailMode = "dry_run"
  /\ "dry_run" \notin copy[w].data
  /\ SaveData(w, copy[w].data \cup {"dry_run"})
  /\ mail' = [mail EXCEPT ![w] = "done"]
  /\ step' = [step EXCEPT ![w] = "hooks"]
  /\ UNCHANGED <<vars, crm, hooks, hook_done, turnVars, retry, received, slips>>

(* A handler in progress has an event in hand, and has posted to a webhook *)
(* only in its last stage.                                                 *)
InHand ==
  \A w \in Worker :
    /\ step[w] # "none" => handling[w] \in Event
    /\ step[w] # "hooks" => \A c \in Config : hooks[w][c] = "none"

LEMMA HeldCases ==
  ASSUME LeadTypeOK, NEW w \in Worker, MailHeld(w)
  PROVE  MailSkip(w) \/ MailDryRun(w)
<1> DEFINE d == copy[w].data
<1>1. unready \in [Event -> BOOLEAN]
  BY DEF LeadTypeOK
<1>2. CASE MayMail(w) /\ MailMode = "dry_run" /\ "dry_run" \notin d
  <2>1. "active" \in d
    BY <1>2 DEF MayMail
  <2>2. unready' = [unready EXCEPT ![handling[w]] = unready[handling[w]] \/ "active" \notin d]
    BY DEF MailHeld
  <2>3. unready' = unready
    <3>1. CASE handling[w] \in Event
      BY <1>1, <2>1, <2>2, <3>1
    <3>2. CASE handling[w] \notin Event
      BY <1>1, <2>2, <3>2
    <3>3. QED
      BY <3>1, <3>2
  <2>4. QED
    BY <1>2, <2>3 DEF MailHeld, MailDryRun, received
<1>3. CASE ~(MayMail(w) /\ MailMode = "dry_run" /\ "dry_run" \notin d)
  BY <1>3 DEF MailHeld, MailSkip, MayMail, Mode
<1>4. QED
  BY <1>2, <1>3

LEMMA OutboxStepKeepsHandling == OutboxStep => UNCHANGED <<handling, leadVars>>
BY DEF OutboxStep, RecoverAbandonedLocks, Claim, BackoffElapses, AdminSelect, workerVars

(* The steps of turns and operators leave every handler where it is. *)
LEMMA OthersKeepHandlers ==
  ASSUME \/ \E t \in Turn :
              \/ \E active, paused \in BOOLEAN : Qualify(t, active, paused)
              \/ ReadMemory(t)
              \/ SaveMemory(t)
         \/ \E e \in Event :
              \/ ClaimLost(e) \/ MarkFailed(e) \/ PortalExecute(e) \/ AdminExecute(e)
              \/ \E at \in {"portal", "admin"} : RetryCheck(e, at)
  PROVE  UNCHANGED <<handling, handlerVars>>
BY DEF Qualify, ReadMemory, SaveMemory, ClaimLost, MarkFailed, RetryCheck, PortalExecute,
   AdminExecute, AdminSave,
   Enqueue, LockTimeoutElapses, PortalRetry, workerVars, vars

LEMMA InHandInit == LeadInit => InHand
BY DEF LeadInit, InHand

LEMMA InHandStep == TypeOK /\ LeadTypeOK /\ InHand /\ [LeadNext]_allVars => InHand'
<1> SUFFICES ASSUME TypeOK, LeadTypeOK, InHand, [LeadNext]_allVars
             PROVE  InHand'
  OBVIOUS
<1>a. /\ handling \in [Worker -> Event \cup {NoOne}]
      /\ step \in [Worker -> {"none", "crm", "crm_save", "mail", "mail_mark", "hooks"}]
      /\ hooks \in [Worker -> [Config -> {"none", "posted", "sent", "skipped",
                                          "temporary", "permanent"}]]
  BY DEF TypeOK, LeadTypeOK
<1> USE DEF InHand
<1>1. CASE OutboxStep
  BY <1>1, OutboxStepKeepsHandling DEF leadVars, handlerVars
<1>2. ASSUME NEW w \in Worker, NEW e \in Event, Load(w, e)
      PROVE  InHand'
  BY <1>2, <1>a DEF Load, Handle
<1>3. ASSUME NEW w \in Worker, NEW e \in Event, Return(w, e)
      PROVE  InHand'
  BY <1>3, <1>a DEF Return, Forget, Finalize, FinalizeRejected, EndOfEvent
<1>4. ASSUME NEW w \in Worker, HandlerStep(w),
             ~\E e \in Event : Load(w, e) \/ Return(w, e)
      PROVE  InHand'
  BY <1>4, <1>a DEF HandlerStep, CrmRequest, CrmSave, MailHeld, MailFails, MailSend,
     MailMark, MayMail, HookSkip, HookPost, HookSent, HookFails, vars, workerVars
<1>5. ASSUME NEW w \in Worker, WorkerCrash(w)
      PROVE  InHand'
  BY <1>5, <1>a DEF WorkerCrash, Crash, Forget
<1>6. CASE UNCHANGED <<handling, handlerVars>>
  BY <1>6 DEF handlerVars
<1>7. CASE UNCHANGED allVars
  BY <1>7 DEF allVars, vars, workerVars, leadVars, handlerVars
<1>8. QED
  BY <1>1, <1>2, <1>3, <1>4, <1>5, <1>6, <1>7, OthersKeepHandlers DEF LeadNext, HandlerStep

LEMMA LeadTypeInit == LeadInit => LeadTypeOK
BY NoLeadType DEF LeadInit, LeadTypeOK, Init

LEMMA LeadTypeStep == TypeOK /\ LeadTypeOK /\ InHand /\ [LeadNext]_allVars => LeadTypeOK'
<1> SUFFICES ASSUME TypeOK, LeadTypeOK, InHand, [LeadNext]_allVars
             PROVE  LeadTypeOK'
  OBVIOUS
<1> USE DEF LeadTypeOK
<1>a. \A w \in Worker : step[w] # "none" => handling[w] \in Event
  BY DEF InHand
<1>b. \A w \in Worker : \A c \in Config : hooks[w][c] = "posted" => step[w] = "hooks"
  BY DEF InHand
<1>1. CASE OutboxStep
  BY <1>1 DEF OutboxStep, leadVars, handlerVars, turnVars, received
<1>2. ASSUME NEW w \in Worker, NEW e \in Event, Load(w, e)
      PROVE  LeadTypeOK'
  BY <1>2 DEF Load, turnVars, received
<1>3. ASSUME NEW w \in Worker, NEW e \in Event, Return(w, e)
      PROVE  LeadTypeOK'
  BY <1>3, NoLeadType DEF Return, Forget, turnVars, received
<1>4. ASSUME NEW w \in Worker, NEW answer \in CrmAnswer \cup {"off"}, CrmRequest(w, answer)
      PROVE  LeadTypeOK'
  BY <1>4 DEF CrmRequest, turnVars
<1>5. ASSUME NEW w \in Worker, CrmSave(w)
      PROVE  LeadTypeOK'
  <2>1. (lead \in [Event -> Lead])'
    BY <1>5, CrmColumnsType DEF CrmSave
  <2>2. (copy \in [Worker -> Lead])'
    BY <1>5, CrmColumnsType DEF CrmSave
  <2>3. QED
    BY <1>5, <2>1, <2>2 DEF CrmSave, turnVars, received
<1>6. ASSUME NEW w \in Worker, MailSkip(w)
      PROVE  LeadTypeOK'
  BY <1>6 DEF MailSkip, turnVars
<1>7. ASSUME NEW w \in Worker, MailDryRun(w)
      PROVE  LeadTypeOK'
  <2>1. copy[w].data \cup {"dry_run"} \in SUBSET Key
    BY DEF Lead, Key
  <2>2. SaveData(w, copy[w].data \cup {"dry_run"})
    BY <1>7 DEF MailDryRun
  <2>3. QED
    BY <1>7, <2>1, <2>2, SaveDataType DEF MailDryRun, turnVars, received
<1>8. ASSUME NEW w \in Worker, NEW taken \in BOOLEAN, MailFails(w, taken)
      PROVE  LeadTypeOK'
  <2>1. (mails \in [Event -> 0..2])'
    BY <1>8, OneMoreType DEF MailFails
  <2>2. handling[w] \in Event
    BY <1>8, <1>a DEF MailFails, MayMail
  <2>3. QED
    BY <1>8, <2>1, <2>2 DEF MailFails, turnVars, Channel
<1>9. ASSUME NEW w \in Worker, MailSend(w)
      PROVE  LeadTypeOK'
  <2>1. (mails \in [Event -> 0..2])'
    BY <1>9, OneMoreType DEF MailSend
  <2>2. QED
    BY <1>9, <2>1 DEF MailSend, turnVars
<1>10. ASSUME NEW w \in Worker, MailMark(w)
       PROVE  LeadTypeOK'
  <2>1. WithSentFlag(copy[w].data) \in SUBSET Key
    BY DEF Lead, Key, WithSentFlag
  <2>2. SaveData(w, WithSentFlag(copy[w].data))
    BY <1>10 DEF MailMark
  <2>3. QED
    BY <1>10, <2>1, <2>2, SaveDataType DEF MailMark, turnVars, received
<1>11. ASSUME NEW w \in Worker, NEW c \in Config, HookSkip(w, c)
       PROVE  LeadTypeOK'
  BY <1>11 DEF HookSkip, turnVars, received
<1>12. ASSUME NEW w \in Worker, NEW c \in Config, HookPost(w, c)
       PROVE  LeadTypeOK'
  <2>1. (posts \in [Event -> [Config -> 0..2]])'
    BY <1>12, OneMoreType DEF HookPost
  <2>2. QED
    BY <1>12, <2>1 DEF HookPost, turnVars
<1>13. ASSUME NEW w \in Worker, NEW c \in Config, HookSent(w, c)
       PROVE  LeadTypeOK'
  BY <1>13 DEF HookSent, turnVars, received
<1>14. ASSUME NEW w \in Worker, NEW c \in Config, NEW kind \in {"temporary", "permanent"},
              HookFails(w, c, kind)
       PROVE  LeadTypeOK'
  <2>1. handling[w] \in Event
    BY <1>14, <1>a, <1>b DEF HookFails
  <2>2. QED
    BY <1>14, <2>1 DEF HookFails, turnVars, received, Channel
<1>15. ASSUME NEW w \in Worker, WorkerCrash(w)
       PROVE  LeadTypeOK'
  <2>1. (slips \subseteq Event \X (Channel \cup {"flag"}))'
    BY <1>15, <1>a, <1>b DEF WorkerCrash, Channel
  <2>2. QED
    BY <1>15, <2>1, NoLeadType DEF WorkerCrash, Forget, turnVars, received
<1>16. ASSUME NEW t \in Turn, NEW active \in BOOLEAN, NEW paused \in BOOLEAN,
              Qualify(t, active, paused)
       PROVE  LeadTypeOK'
  <2> DEFINE e == LeadOf[t]
  <2>1. e \in Event /\ lead[e] \in Lead
    OBVIOUS
  <2>2. PICK s \in LeadStatus, p \in DispatchStatus, d \in SUBSET Key :
          lead' = [lead EXCEPT ![e] = [lead[e] EXCEPT !.status = s, !.dispatch = p, !.data = d]]
    <3> DEFINE s == IF lead[e].status \in {"sent_to_crm", "failed"} THEN lead[e].status
                    ELSE "qualified"
               p == IF lead[e].dispatch = "not_queued" /\ s = "qualified"
                    THEN "pending" ELSE lead[e].dispatch
               d == (lead[e].data \ {"active"}) \cup {t}
                      \cup (IF active /\ ~paused THEN {"active"} ELSE {})
    <3>1. lead' = [lead EXCEPT ![e] = [lead[e] EXCEPT !.status = s, !.dispatch = p, !.data = d]]
      BY <1>16, <2>1 DEF Qualify
    <3>2. /\ lead[e].status \in LeadStatus
          /\ lead[e].dispatch \in DispatchStatus
          /\ lead[e].data \in SUBSET Key
      BY <2>1 DEF Lead
    <3>3. s \in LeadStatus /\ p \in DispatchStatus /\ d \in SUBSET Key
      BY <3>2 DEF LeadStatus, DispatchStatus, Key
    <3>4. QED
      BY <3>1, <3>3
  <2>3. [lead[e] EXCEPT !.status = s, !.dispatch = p, !.data = d] \in Lead
    BY <2>1, LeadUpdateType
  <2>4. (lead \in [Event -> Lead])'
    BY <2>2, <2>3
  <2>5. QED
    BY <1>16, <2>4 DEF Qualify, handlerVars, received
<1>17. ASSUME NEW t \in Turn, ReadMemory(t)
       PROVE  LeadTypeOK'
  BY <1>17 DEF ReadMemory, handlerVars, received, Lead
<1>18. ASSUME NEW t \in Turn, SaveMemory(t)
       PROVE  LeadTypeOK'
  <2>1. LeadOf[t] \in Event
    OBVIOUS
  <2>2. memory[t] \cup {t} \in SUBSET Key
    BY DEF Key
  <2>3. [lead[LeadOf[t]] EXCEPT !.data = memory[t] \cup {t}] \in Lead
    BY <2>1, <2>2, LeadUpdateType
  <2>4. lead' = [lead EXCEPT ![LeadOf[t]] = [lead[LeadOf[t]] EXCEPT !.data = memory[t] \cup {t}]]
    BY <1>18 DEF SaveMemory
  <2>5. (lead \in [Event -> Lead])'
    BY <2>3, <2>4
  <2>6. QED
    BY <1>18, <2>1, <2>5 DEF SaveMemory, handlerVars, received
<1>19. ASSUME NEW e \in Event, ClaimLost(e)
       PROVE  LeadTypeOK'
  BY <1>19 DEF ClaimLost, handlerVars, turnVars, received
<1>20. ASSUME NEW e \in Event, MarkFailed(e)
       PROVE  LeadTypeOK'
  <2>1. [lead[e] EXCEPT !.status = "failed"] \in Lead
    BY LeadUpdateType DEF LeadStatus
  <2>2. lead' = [lead EXCEPT ![e] = [lead[e] EXCEPT !.status = "failed"]]
    BY <1>20 DEF MarkFailed
  <2>3. QED
    BY <1>20, <2>1, <2>2 DEF MarkFailed, handlerVars, turnVars, received
<1>21. ASSUME NEW e \in Event, NEW at \in {"portal", "admin"}, RetryCheck(e, at)
       PROVE  LeadTypeOK'
  BY <1>21 DEF RetryCheck, handlerVars, turnVars, received
<1>22. ASSUME NEW e \in Event, PortalExecute(e) \/ AdminExecute(e)
       PROVE  LeadTypeOK'
  <2>1. [lead[e] EXCEPT !.status = "qualified"] \in Lead
    BY LeadUpdateType DEF LeadStatus
  <2>2. \/ lead' = lead
        \/ lead' = [lead EXCEPT ![e] = [lead[e] EXCEPT !.status = "qualified"]]
    BY <1>22 DEF PortalExecute, AdminExecute
  <2>3. (lead \in [Event -> Lead])'
    BY <2>1, <2>2
  <2>4. (retry \in [Event -> {"nobody", "portal", "admin"}])'
    BY <1>22 DEF PortalExecute, AdminExecute
  <2>5. UNCHANGED <<handlerVars, hook_done, turnVars, received, slips>>
    BY <1>22 DEF PortalExecute, AdminExecute
  <2>6. QED
    BY <2>3, <2>4, <2>5 DEF handlerVars, turnVars, received
<1>23. CASE UNCHANGED allVars
  BY <1>23 DEF allVars, leadVars, handlerVars, turnVars, received
<1>24. ASSUME NEW w \in Worker, HandlerStep(w)
       PROVE  LeadTypeOK'
  <2> HIDE DEF LeadTypeOK
  <2>1. QED
    BY <1>2, <1>3, <1>4, <1>5, <1>6, <1>7, <1>8, <1>9, <1>10, <1>11, <1>12, <1>13, <1>14, <1>24,
       HeldCases DEF HandlerStep
<1>25. QED
  <2> HIDE DEF LeadTypeOK
  <2>1. QED
    BY <1>1, <1>15, <1>16, <1>17, <1>18, <1>19, <1>20, <1>21, <1>22, <1>23, <1>24 DEF LeadNext

LEMMA LeadTypesAndHands == LeadSpec => [](TypeOK /\ LeadTypeOK /\ InHand)
<1>1. LeadInit => LeadTypeOK /\ InHand
  BY LeadTypeInit, InHandInit
<1>2. QED
  BY <1>1, LeadTypeStep, InHandStep, LeadKeepsOutboxTypes, PTL DEF LeadSpec

(* Every reachable state of the leads and their deliveries is well typed. *)
THEOREM LeadTypeCorrect == LeadSpec => []LeadTypeOK
BY LeadTypesAndHands, PTL

-----------------------------------------------------------------------------
(* What happened does not unhappen. *)
LEMMA DeliveriesStay ==
  ASSUME LeadTypeOK, [LeadNext]_allVars, NEW e \in Event
  PROVE  /\ crm_taken[e] => crm_taken'[e]
         /\ mails[e] > 0 => mails'[e] > 0
         /\ unready[e] => unready'[e]
         /\ hook_done[e] \subseteq hook_done'[e]
<1>1. CASE UNCHANGED received /\ UNCHANGED hook_done
  BY <1>1 DEF received
<1>2. ASSUME NEW w \in Worker, NEW answer, CrmRequest(w, answer)
      PROVE  UNCHANGED <<mails, unready, hook_done>> /\ (crm_taken[e] => crm_taken'[e])
  BY <1>2 DEF CrmRequest, LeadTypeOK
<1>3. ASSUME NEW w \in Worker, MailSkip(w)
      PROVE  UNCHANGED <<mails, crm_taken, hook_done>> /\ (unready[e] => unready'[e])
  BY <1>3 DEF MailSkip, LeadTypeOK
<1>4. ASSUME NEW w \in Worker, MailSend(w) \/ \E taken \in BOOLEAN : MailFails(w, taken)
      PROVE  UNCHANGED <<unready, crm_taken, hook_done>> /\ (mails[e] > 0 => mails'[e] > 0)
  <2>1. mails \in [Event -> 0..2]
    BY DEF LeadTypeOK
  <2>2. OneMore(mails[e]) > 0
    BY <2>1, OneMoreType
  <2>3. \/ mails' = mails
        \/ mails' = [mails EXCEPT ![handling[w]] = OneMore(mails[handling[w]])]
    BY <1>4, <2>1 DEF MailSend, MailFails
  <2>4. mails[e] > 0 => mails'[e] > 0
    BY <2>1, <2>2, <2>3
  <2>5. QED
    BY <1>4, <2>4 DEF MailSend, MailFails
<1>5. ASSUME NEW w \in Worker, NEW c \in Config, HookSkip(w, c) \/ HookSent(w, c)
      PROVE  UNCHANGED received /\ hook_done[e] \subseteq hook_done'[e]
  <2>1. hook_done \in [Event -> SUBSET Config]
    BY DEF LeadTypeOK
  <2>2. PICK D \in SUBSET Config :
          hook_done' = [hook_done EXCEPT ![handling[w]] = hook_done[handling[w]] \cup D]
    <3>1. CASE HookSkip(w, c)
      <4>1. PICK D \in SUBSET Config : D = IF HookMode[c] = "dry_run" THEN {c} ELSE {}
        OBVIOUS
      <4>2. QED
        BY <3>1, <4>1 DEF HookSkip
    <3>2. CASE HookSent(w, c)
      BY <3>2 DEF HookSent
    <3>3. QED
      BY <1>5, <3>1, <3>2
  <2>3. hook_done[e] \subseteq hook_done'[e]
    BY <2>1, <2>2
  <2>4. QED
    BY <1>5, <2>3 DEF HookSkip, HookSent
<1>6. ASSUME NEW w \in Worker, NEW c \in Config, HookPost(w, c)
      PROVE  UNCHANGED <<crm_taken, mails, unready, hook_done>>
  BY <1>6 DEF HookPost
<1>7. ASSUME NEW w \in Worker,
             \/ \E f \in Event : Load(w, f) \/ Return(w, f)
             \/ CrmSave(w) \/ MailDryRun(w) \/ MailMark(w)
             \/ \E c \in Config : \E kind \in {"temporary", "permanent"} : HookFails(w, c, kind)
             \/ WorkerCrash(w)
      PROVE  UNCHANGED received /\ UNCHANGED hook_done
  BY <1>7 DEF Load, Return, CrmSave, MailDryRun, MailMark, HookFails, WorkerCrash
<1>8. ASSUME \/ \E t \in Turn :
                  \/ \E active, paused \in BOOLEAN : Qualify(t, active, paused)
                  \/ ReadMemory(t)
                  \/ SaveMemory(t)
             \/ \E f \in Event :
                  \/ ClaimLost(f) \/ MarkFailed(f) \/ PortalExecute(f) \/ AdminExecute(f)
                  \/ \E at \in {"portal", "admin"} : RetryCheck(f, at)
             \/ OutboxStep
             \/ UNCHANGED allVars
      PROVE  UNCHANGED received /\ UNCHANGED hook_done
  BY <1>8 DEF Qualify, ReadMemory, SaveMemory, ClaimLost, MarkFailed, RetryCheck,
     PortalExecute, AdminExecute, OutboxStep, allVars, leadVars
<1>9. QED
  BY <1>1, <1>2, <1>3, <1>4, <1>5, <1>6, <1>7, <1>8, HeldCases DEF LeadNext, HandlerStep, received

(* A flag "sent", in the row or in a copy of it, stands for a mail. *)
FlagsAreTrue ==
  /\ \A e \in Event : "sent" \in lead[e].data => mails[e] > 0
  /\ \A t \in Turn : "sent" \in memory[t] => mails[LeadOf[t]] > 0
  /\ \A w \in Worker : step[w] # "none" /\ "sent" \in copy[w].data => mails[handling[w]] > 0

(* What a running handler knows of Smart360, ... *)
CrmKnown(w) ==
  step[w] \notin {"none", "crm"} =>
    /\ crm[w] # "none"
    /\ crm[w] = "off" => CrmMode = "off"
    /\ crm[w] = "accepted" => CrmMode = "dry_run" \/ crm_taken[handling[w]]

(* ... of the mail, ... *)
MailKnown(w) ==
  /\ step[w] = "mail_mark" => mails[handling[w]] > 0
  /\ step[w] = "hooks" =>
       /\ mail[w] # "none"
       /\ mail[w] # "failed" => \/ MailMode # "real"
                                \/ mails[handling[w]] > 0
                                \/ unready[handling[w]]

(* ... and of the webhooks. *)
HooksKnown(w) ==
  \A c \in Config : hooks[w][c] \in {"sent", "skipped"} =>
    HookMode[c] # "real" \/ c \in hook_done[handling[w]]

(* The inductive invariant. *)
Evidence ==
  /\ FlagsAreTrue
  /\ \A w \in Worker : CrmKnown(w) /\ MailKnown(w) /\ HooksKnown(w)
  /\ DeliveredWasTaken
  /\ SuccessIsComplete

LEMMA EvidenceInit == LeadInit => Evidence
BY DEF LeadInit, Init, Evidence, FlagsAreTrue, CrmKnown, MailKnown, HooksKnown,
   DeliveredWasTaken, SuccessIsComplete, NoLead

(* The flags "sent": only _mark_delivered makes one. *)
LEMMA FlagsStep ==
  ASSUME TypeOK, LeadTypeOK, InHand, Evidence, [LeadNext]_allVars
  PROVE  FlagsAreTrue'
<1> USE DEF FlagsAreTrue
<1>a. /\ lead \in [Event -> Lead] /\ copy \in [Worker -> Lead] /\ memory \in [Turn -> SUBSET Key]
      /\ handling \in [Worker -> Event \cup {NoOne}]
      /\ step \in [Worker -> {"none", "crm", "crm_save", "mail", "mail_mark", "hooks"}]
  BY DEF TypeOK, LeadTypeOK
<1>b. \A e \in Event : mails[e] > 0 => mails'[e] > 0
  BY DeliveriesStay
<1>c. \A w \in Worker : step[w] # "none" => handling[w] \in Event
  BY DEF InHand
<1>d. FlagsAreTrue
  BY DEF Evidence
<1>e. "sent" \notin Turn
  OBVIOUS
<1> HIDE DEF FlagsAreTrue
<1>1. CASE UNCHANGED <<lead, memory, copy, handling, step>>
  BY <1>1, <1>a, <1>b, <1>c, <1>d DEF FlagsAreTrue
<1>2. ASSUME NEW w \in Worker, NEW e \in Event, Load(w, e)
      PROVE  FlagsAreTrue'
  <2>1. /\ handling' = [handling EXCEPT ![w] = e] /\ copy' = [copy EXCEPT ![w] = lead[e]]
        /\ step' = [step EXCEPT ![w] = "crm"] /\ UNCHANGED <<lead, memory>>
    BY <1>2 DEF Load, Handle, turnVars
  <2>2. QED
    BY <2>1, <1>a, <1>b, <1>c, <1>d DEF FlagsAreTrue
<1>3. ASSUME NEW w \in Worker,
             (\E e \in Event : Return(w, e)) \/ WorkerCrash(w)
      PROVE  FlagsAreTrue'
  <2>1. /\ \A v \in Worker \ {w} : handling'[v] = handling[v]
        /\ copy' = [copy EXCEPT ![w] = NoLead]
        /\ step' = [step EXCEPT ![w] = "none"] /\ UNCHANGED <<lead, memory>>
    BY <1>3, <1>a DEF Return, WorkerCrash, Forget, Finalize, FinalizeRejected, EndOfEvent, Crash,
       turnVars
  <2>2. QED
    BY <2>1, <1>a, <1>b, <1>c, <1>d DEF FlagsAreTrue
<1>4. ASSUME NEW w \in Worker, NEW answer \in CrmAnswer \cup {"off"}, CrmRequest(w, answer)
      PROVE  FlagsAreTrue'
  <2>1. /\ UNCHANGED <<lead, memory, copy, handling>>
        /\ step[w] # "none"
        /\ step' = [step EXCEPT ![w] = IF answer \in {"off", "raised"} THEN "mail" ELSE "crm_save"]
    BY <1>4 DEF CrmRequest, turnVars, vars, workerVars
  <2>2. QED
    BY <2>1, <1>a, <1>b, <1>c, <1>d DEF FlagsAreTrue
<1>5. ASSUME NEW w \in Worker, CrmSave(w)
      PROVE  FlagsAreTrue'
  <2>1. /\ UNCHANGED <<memory, handling>>
        /\ step[w] # "none"
        /\ step' = [step EXCEPT ![w] = "mail"]
        /\ lead' = [lead EXCEPT ![handling[w]] = CrmColumns(lead[handling[w]], copy[w], crm[w])]
        /\ copy' = [copy EXCEPT ![w] = CrmColumns(copy[w], copy[w], crm[w])]
    BY <1>5 DEF CrmSave, turnVars, vars, workerVars
  <2>2. /\ \A e \in Event : lead'[e].data = lead[e].data
        /\ \A v \in Worker : copy'[v].data = copy[v].data
    BY <2>1, <1>a, CrmColumnsType
  <2>3. QED
    BY <2>1, <2>2, <1>a, <1>b, <1>c, <1>d DEF FlagsAreTrue
<1>6. ASSUME NEW w \in Worker,
             \/ MailSkip(w) \/ MailSend(w)
             \/ \E taken \in BOOLEAN : MailFails(w, taken)
      PROVE  FlagsAreTrue'
  <2>1. /\ UNCHANGED <<lead, memory, copy, handling>>
        /\ step[w] # "none"
        /\ \A v \in Worker \ {w} : step'[v] = step[v]
    BY <1>6, <1>a DEF MailSkip, MailSend, MailFails, MayMail, turnVars, vars, workerVars
  <2>2. QED
    BY <2>1, <1>a, <1>b, <1>c, <1>d DEF FlagsAreTrue
<1>7. ASSUME NEW w \in Worker, NEW d, SaveData(w, d), step[w] # "none",
             "sent" \in d => "sent" \in copy[w].data \/ mails[handling[w]] > 0,
             UNCHANGED <<memory, handling>>, \A v \in Worker \ {w} : step'[v] = step[v]
      PROVE  FlagsAreTrue'
  <2>1. /\ lead' = [lead EXCEPT ![handling[w]] = [lead[handling[w]] EXCEPT !.data = d]]
        /\ copy' = [copy EXCEPT ![w] = [copy[w] EXCEPT !.data = d]]
    BY <1>7 DEF SaveData
  <2>2. "sent" \in d => mails[handling[w]] > 0
    BY <1>7, <1>d DEF FlagsAreTrue
  <2>3. /\ \A e \in Event : "sent" \in lead'[e].data => mails[e] > 0
        /\ \A v \in Worker : step[v] # "none" /\ "sent" \in copy'[v].data => mails[handling[v]] > 0
    BY <2>1, <2>2, <1>a, <1>d DEF FlagsAreTrue, Lead
  <2>4. QED
    BY <2>3, <1>7, <1>a, <1>b, <1>c, <1>d DEF FlagsAreTrue
<1>8. ASSUME NEW w \in Worker, MailDryRun(w)
      PROVE  FlagsAreTrue'
  <2>1. /\ SaveData(w, copy[w].data \cup {"dry_run"}) /\ UNCHANGED <<memory, handling>>
        /\ step[w] # "none" /\ \A v \in Worker \ {w} : step'[v] = step[v]
    BY <1>8, <1>a DEF MailDryRun, MayMail, turnVars, vars, workerVars
  <2>2. QED
    BY <2>1, <1>7
<1>9. ASSUME NEW w \in Worker, MailMark(w)
      PROVE  FlagsAreTrue'
  <2>1. /\ SaveData(w, WithSentFlag(copy[w].data)) /\ UNCHANGED <<memory, handling>>
        /\ step[w] # "none" /\ \A v \in Worker \ {w} : step'[v] = step[v]
    BY <1>9, <1>a DEF MailMark, turnVars, vars, workerVars
  <2>2. mails[handling[w]] > 0
    BY <1>9 DEF MailMark, Evidence, MailKnown
  <2>3. QED
    BY <2>1, <2>2, <1>7
<1>10. ASSUME NEW w \in Worker, NEW c \in Config,
              \/ HookSkip(w, c) \/ HookPost(w, c) \/ HookSent(w, c)
              \/ \E kind \in {"temporary", "permanent"} : HookFails(w, c, kind)
       PROVE  FlagsAreTrue'
  <2>1. UNCHANGED <<lead, memory, copy, handling, step>>
    BY <1>10 DEF HookSkip, HookPost, HookSent, HookFails, turnVars, vars, workerVars
  <2>2. QED
    BY <2>1, <1>1
<1>11. ASSUME NEW t \in Turn, NEW active \in BOOLEAN, NEW paused \in BOOLEAN,
              Qualify(t, active, paused)
       PROVE  FlagsAreTrue'
  <2>1. UNCHANGED <<memory, copy, step, handling>>
    BY <1>11, OthersKeepHandlers DEF Qualify, handlerVars
  <2>2. PICK s, p : lead' = [lead EXCEPT ![LeadOf[t]] =
               [lead[LeadOf[t]] EXCEPT !.status = s, !.dispatch = p,
                  !.data = (lead[LeadOf[t]].data \ {"active"}) \cup {t}
                             \cup (IF active /\ ~paused THEN {"active"} ELSE {})]]
    BY <1>11, Zenon DEF Qualify
  <2>3. \A e \in Event : "sent" \in lead'[e].data => "sent" \in lead[e].data
    BY <2>2, <1>a, <1>e DEF Lead
  <2>4. QED
    BY <2>1, <2>3, <1>a, <1>b, <1>c, <1>d DEF FlagsAreTrue
<1>12. ASSUME NEW t \in Turn, ReadMemory(t)
       PROVE  FlagsAreTrue'
  <2>1. /\ UNCHANGED <<lead, copy, step, handling>>
        /\ memory' = [memory EXCEPT ![t] = lead[LeadOf[t]].data]
    BY <1>12 DEF ReadMemory, handlerVars, vars, workerVars
  <2>2. QED
    BY <2>1, <1>a, <1>b, <1>c, <1>d DEF FlagsAreTrue
<1>13. ASSUME NEW t \in Turn, SaveMemory(t)
       PROVE  FlagsAreTrue'
  <2>1. /\ UNCHANGED <<copy, step, handling>>
        /\ memory' = [memory EXCEPT ![t] = {}]
        /\ lead' = [lead EXCEPT ![LeadOf[t]] =
                      [lead[LeadOf[t]] EXCEPT !.data = memory[t] \cup {t}]]
    BY <1>13 DEF SaveMemory, handlerVars, vars, workerVars
  <2>2. /\ \A e \in Event : "sent" \in lead'[e].data => mails[e] > 0
        /\ \A u \in Turn : "sent" \in memory'[u] => mails[LeadOf[u]] > 0
    BY <2>1, <1>a, <1>d, <1>e DEF FlagsAreTrue, Lead
  <2>3. QED
    BY <2>1, <2>2, <1>a, <1>b, <1>c, <1>d DEF FlagsAreTrue
<1>14. ASSUME NEW e \in Event, MarkFailed(e) \/ PortalExecute(e) \/ AdminExecute(e)
       PROVE  FlagsAreTrue'
  <2>a. UNCHANGED <<handling, handlerVars>>
    BY <1>14, OthersKeepHandlers
  <2>b. UNCHANGED memory
    BY <1>14 DEF MarkFailed, PortalExecute, AdminExecute, turnVars
  <2>1. UNCHANGED <<memory, copy, step, handling>>
    BY <2>a, <2>b DEF handlerVars
  <2>2. \/ lead' = lead
        \/ lead' = [lead EXCEPT ![e] = [lead[e] EXCEPT !.status = "failed"]]
        \/ lead' = [lead EXCEPT ![e] = [lead[e] EXCEPT !.status = "qualified"]]
    BY <1>14 DEF MarkFailed, PortalExecute, AdminExecute
  <2>3. \A f \in Event : lead'[f].data = lead[f].data
    <3>1. lead \in [Event -> Lead]
      BY <1>a
    <3>2. TAKE f \in Event
    <3>3. lead[f] \in Lead /\ lead[e] \in Lead
      BY <3>1
    <3>4. /\ [lead[e] EXCEPT !.status = "failed"].data = lead[e].data
          /\ [lead[e] EXCEPT !.status = "qualified"].data = lead[e].data
      BY <3>3 DEF Lead
    <3>5. CASE f # e
      BY <2>2, <3>1, <3>5
    <3>6. CASE f = e
      <4>1. \/ lead'[e] = lead[e]
            \/ lead'[e] = [lead[e] EXCEPT !.status = "failed"]
            \/ lead'[e] = [lead[e] EXCEPT !.status = "qualified"]
        BY <2>2, <3>1
      <4>2. QED
        BY <3>4, <3>6, <4>1
    <3>7. QED
      BY <3>5, <3>6
  <2>4. QED
    BY <2>1, <2>3, <1>a, <1>b, <1>c, <1>d DEF FlagsAreTrue
<1>15. ASSUME NEW e \in Event,
              ClaimLost(e) \/ \E at \in {"portal", "admin"} : RetryCheck(e, at)
       PROVE  FlagsAreTrue'
  <2>a. UNCHANGED <<handling, handlerVars>>
    BY <1>15, OthersKeepHandlers
  <2>1. UNCHANGED <<lead, memory, copy, step, handling>>
    BY <1>15, <2>a DEF ClaimLost, RetryCheck, handlerVars, turnVars
  <2>2. QED
    BY <2>1, <1>1
<1>16. CASE OutboxStep \/ UNCHANGED allVars
  BY <1>16, <1>1, OutboxStepKeepsHandling
     DEF allVars, vars, workerVars, leadVars, handlerVars, turnVars
<1>17. QED
  BY <1>2, <1>3, <1>4, <1>5, <1>6, <1>8, <1>9, <1>10, <1>11, <1>12, <1>13, <1>14, <1>15, <1>16,
     HeldCases DEF LeadNext, HandlerStep

Known(w) == CrmKnown(w) /\ MailKnown(w) /\ HooksKnown(w)

(* A handler that a step leaves where it is keeps what it knows. *)
LEMMA KnownFrame ==
  ASSUME LeadTypeOK, InHand, [LeadNext]_allVars, NEW v \in Worker, Known(v),
         handling'[v] = handling[v], step'[v] = step[v], crm'[v] = crm[v],
         mail'[v] = mail[v], hooks'[v] = hooks[v]
  PROVE  Known(v)'
<1>1. step[v] # "none" => handling[v] \in Event
  BY DEF InHand
<1>2. step[v] = "none" => \A c \in Config : hooks[v][c] = "none"
  BY DEF InHand
<1>3. step[v] # "none" => /\ crm_taken[handling[v]] => crm_taken'[handling[v]]
                          /\ mails[handling[v]] > 0 => mails'[handling[v]] > 0
                          /\ unready[handling[v]] => unready'[handling[v]]
                          /\ hook_done[handling[v]] \subseteq hook_done'[handling[v]]
  BY <1>1, DeliveriesStay
<1>4. CrmKnown(v)'
  BY <1>3 DEF Known, CrmKnown
<1>5. MailKnown(v)'
  BY <1>3 DEF Known, MailKnown
<1>6. HooksKnown(v)'
  BY <1>2, <1>3 DEF Known, HooksKnown
<1>7. QED
  BY <1>4, <1>5, <1>6 DEF Known

LEMMA KnownStep ==
  ASSUME TypeOK, LeadTypeOK, InHand, Evidence, [LeadNext]_allVars, NEW v \in Worker
  PROVE  Known(v)'
<1> DEFINE Same(w) == /\ handling'[w] = handling[w] /\ step'[w] = step[w] /\ crm'[w] = crm[w]
                      /\ mail'[w] = mail[w] /\ hooks'[w] = hooks[w]
<1>a. /\ handling \in [Worker -> Event \cup {NoOne}]
      /\ step \in [Worker -> {"none", "crm", "crm_save", "mail", "mail_mark", "hooks"}]
      /\ crm \in [Worker -> CrmAnswer \cup {"none", "off"}]
      /\ mail \in [Worker -> {"none", "skipped", "done", "failed"}]
      /\ hooks \in [Worker -> [Config -> {"none", "posted", "sent", "skipped",
                                          "temporary", "permanent"}]]
  BY DEF TypeOK, LeadTypeOK
<1>b. /\ crm_taken \in [Event -> BOOLEAN] /\ mails \in [Event -> 0..2]
      /\ unready \in [Event -> BOOLEAN] /\ hook_done \in [Event -> SUBSET Config]
  BY DEF LeadTypeOK
<1>c. \A w \in Worker : /\ step[w] # "none" => handling[w] \in Event
                        /\ step[w] # "hooks" => \A c \in Config : hooks[w][c] = "none"
  BY DEF InHand
<1>d. Known(v)
  BY DEF Evidence, Known
<1>e. Same(v) => Known(v)'
  BY <1>d, KnownFrame
<1>1. ASSUME NEW w \in Worker, NEW e \in Event, Load(w, e)
      PROVE  Known(v)'
  <2>1. CASE v # w
    <3>1. Same(v)
      BY <1>1, <1>a, <2>1 DEF Load, Handle
    <3>2. QED
      BY <3>1, <1>e
  <2>2. CASE v = w
    <3>1. step'[v] = "crm"
      BY <1>1, <1>a, <2>2 DEF Load
    <3>2. InHand'
      BY InHandStep
    <3>3. \A c \in Config : hooks'[v][c] = "none"
      BY <3>1, <3>2 DEF InHand
    <3>4. QED
      BY <3>1, <3>3 DEF Known, CrmKnown, MailKnown, HooksKnown
  <2>3. QED
    BY <2>1, <2>2
<1>2. ASSUME NEW w \in Worker, (\E e \in Event : Return(w, e)) \/ WorkerCrash(w)
      PROVE  Known(v)'
  <2>1. CASE v # w
    <3>1. Same(v)
      BY <1>2, <1>a, <2>1 DEF Return, WorkerCrash, Forget, Finalize, FinalizeRejected,
         EndOfEvent, Crash
    <3>2. QED
      BY <3>1, <1>e
  <2>2. CASE v = w
    <3>1. step'[v] = "none" /\ \A c \in Config : hooks'[v][c] = "none"
      BY <1>2, <1>a, <2>2 DEF Return, WorkerCrash, Forget
    <3>2. QED
      BY <3>1 DEF Known, CrmKnown, MailKnown, HooksKnown
  <2>3. QED
    BY <2>1, <2>2
<1>3. ASSUME NEW w \in Worker, NEW answer \in CrmAnswer \cup {"off"}, CrmRequest(w, answer)
      PROVE  Known(v)'
  <2>a. UNCHANGED <<handling, mail, hooks>>
    BY <1>3 DEF CrmRequest, vars, workerVars
  <2>1. CASE v # w
    <3>1. Same(v)
      BY <1>3, <1>a, <2>1, <2>a DEF CrmRequest
    <3>2. QED
      BY <3>1, <1>e
  <2>2. CASE v = w
    <3>1. /\ step[v] = "crm" /\ step'[v] \in {"mail", "crm_save"}
          /\ crm'[v] = answer
          /\ crm_taken'[handling[v]] = (\/ crm_taken[handling[v]]
                                        \/ CrmMode = "real" /\ answer = "accepted")
      BY <1>3, <1>a, <1>b, <1>c, <2>2 DEF CrmRequest
    <3>2. (answer = "off" => CrmMode = "off") /\ (answer = "accepted" => CrmMode # "off")
      <4>1. CASE CrmMode = "off"
        BY <4>1, <1>3, Zenon DEF CrmRequest
      <4>2. CASE CrmMode = "dry_run"
        BY <4>2, <1>3, Zenon DEF CrmRequest
      <4>3. CASE CrmMode = "real"
        <5>1. answer \in CrmAnswer
          BY <4>3, <1>3, Zenon DEF CrmRequest
        <5>2. QED
          BY <4>3, <5>1 DEF CrmAnswer
      <4>4. QED
        BY <4>1, <4>2, <4>3 DEF Mode
    <3>3. CrmKnown(v)'
      BY <3>1, <3>2, <2>a DEF CrmKnown, CrmAnswer, Mode
    <3>4. MailKnown(v)'
      BY <3>1 DEF MailKnown
    <3>5. HooksKnown(v)'
      BY <3>1, <2>a, <1>c DEF HooksKnown
    <3>6. QED
      BY <3>3, <3>4, <3>5 DEF Known
  <2>3. QED
    BY <2>1, <2>2
<1>4. ASSUME NEW w \in Worker, CrmSave(w)
      PROVE  Known(v)'
  <2>a. /\ UNCHANGED <<handling, crm, mail, hooks, received, hook_done>>
        /\ step[w] = "crm_save" /\ step' = [step EXCEPT ![w] = "mail"]
    BY <1>4 DEF CrmSave, vars, workerVars
  <2>1. CASE v # w
    BY <2>1, <2>a, <1>a, <1>e
  <2>2. CASE v = w
    <3>1. step[v] = "crm_save" /\ step'[v] = "mail"
      BY <2>2, <2>a, <1>a
    <3>2. QED
      BY <3>1, <2>a, <1>c, <1>d DEF Known, CrmKnown, MailKnown, HooksKnown, received
  <2>3. QED
    BY <2>1, <2>2
<1>5. ASSUME NEW w \in Worker, MailSkip(w) \/ MailDryRun(w) \/ MailSend(w) \/ MailMark(w)
                               \/ \E taken \in BOOLEAN : MailFails(w, taken)
      PROVE  Known(v)'
  <2>a. /\ UNCHANGED <<handling, crm, hooks, crm_taken, hook_done>>
        /\ step[w] \in {"mail", "mail_mark"}
    BY <1>5 DEF MailSkip, MailDryRun, MailSend, MailMark, MailFails, MayMail, vars, workerVars,
       received
  <2>1. CASE v # w
    <3>1. Same(v)
      BY <1>5, <1>a, <2>1, <2>a DEF MailSkip, MailDryRun, MailSend, MailMark, MailFails
    <3>2. QED
      BY <3>1, <1>e
  <2>2. CASE v = w
    <3>1. step'[v] \in {"mail_mark", "hooks"}
      BY <1>5, <1>a, <2>2 DEF MailSkip, MailDryRun, MailSend, MailMark, MailFails
    <3>2. CrmKnown(v)'
      BY <3>1, <2>2, <2>a, <1>d DEF Known, CrmKnown
    <3>3. HooksKnown(v)'
      BY <2>2, <2>a, <1>d DEF Known, HooksKnown
    <3>4. handling[v] \in Event
      BY <2>2, <2>a, <1>c
    <3>5. MailKnown(v)'
      <4>1. CASE MailSkip(w)
        <5>1. /\ step'[v] = "hooks" /\ mail'[v] = "skipped"
              /\ \/ "active" \notin copy[v].data /\ unready'[handling[v]]
                 \/ "sent" \in copy[v].data
                 \/ MailMode # "real"
              /\ mails' = mails
          BY <4>1, <2>2, <1>a, <1>b, <3>4 DEF MailSkip, AlreadySent
        <5>2. "sent" \in copy[v].data => mails[handling[v]] > 0
          BY <2>2, <2>a DEF Evidence, FlagsAreTrue
        <5>3. QED
          BY <5>1, <5>2, <2>a DEF MailKnown
      <4>2. CASE MailDryRun(w)
        BY <4>2, <2>2, <1>a DEF MailDryRun, MailKnown
      <4>3. CASE MailSend(w)
        <5>1. mails' = [mails EXCEPT ![handling[v]] = OneMore(mails[handling[v]])]
          BY <4>3, <2>2 DEF MailSend
        <5>2. OneMore(mails[handling[v]]) > 0
          BY <1>b, <3>4, OneMoreType
        <5>3. step'[v] = "mail_mark"
          BY <4>3, <2>2, <1>a DEF MailSend
        <5>4. mails'[handling[v]] > 0
          BY <5>1, <5>2, <1>b, <3>4
        <5>5. QED
          BY <5>3, <5>4, <2>a DEF MailKnown
      <4>4. CASE MailMark(w)
        <5>1. step'[v] = "hooks" /\ mail'[v] = "done" /\ mails' = mails
          BY <4>4, <2>2, <1>a DEF MailMark, received
        <5>2. mails[handling[v]] > 0
          BY <4>4, <2>2, <1>d DEF MailMark, Known, MailKnown
        <5>3. QED
          BY <5>1, <5>2, <2>a DEF MailKnown
      <4>5. CASE \E taken \in BOOLEAN : MailFails(w, taken)
        <5>1. step'[v] = "hooks" /\ mail'[v] = "failed"
          BY <4>5, <2>2, <1>a DEF MailFails
        <5>2. QED
          BY <5>1 DEF MailKnown
      <4>6. QED
        BY <1>5, <4>1, <4>2, <4>3, <4>4, <4>5
    <3>6. QED
      BY <3>2, <3>3, <3>5 DEF Known
  <2>3. QED
    BY <2>1, <2>2
<1>6. ASSUME NEW w \in Worker, NEW c \in Config,
             \/ HookSkip(w, c) \/ HookPost(w, c) \/ HookSent(w, c)
             \/ \E kind \in {"temporary", "permanent"} : HookFails(w, c, kind)
      PROVE  Known(v)'
  <2>a. UNCHANGED <<handling, step, crm, mail, crm_taken, mails, unready>>
    BY <1>6 DEF HookSkip, HookPost, HookSent, HookFails, vars, workerVars, received
  <2>1. CASE v # w
    <3>1. Same(v)
      BY <1>6, <1>a, <2>1, <2>a DEF HookSkip, HookPost, HookSent, HookFails
    <3>2. QED
      BY <3>1, <1>e
  <2>2. CASE v = w
    <3>1. CrmKnown(v)' /\ MailKnown(v)'
      BY <2>a, <1>d DEF Known, CrmKnown, MailKnown
    <3>2. handling[v] \in Event
      <4>1. step[v] = "hooks"
        BY <1>6, <1>c, <2>2 DEF HookSkip, HookPost, HookSent, HookFails
      <4>2. QED
        BY <4>1, <1>c
    <3>3. hook_done[handling[v]] \subseteq hook_done'[handling[v]]
      BY <3>2, DeliveriesStay
    <3>4. \A d \in Config \ {c} : hooks'[v][d] = hooks[v][d]
      BY <1>6, <1>a, <2>2 DEF HookSkip, HookPost, HookSent, HookFails
    <3>5. hooks'[v][c] \in {"sent", "skipped"} =>
            HookMode[c] # "real" \/ c \in hook_done'[handling[v]]
      <4>1. CASE HookSkip(w, c)
        BY <4>1, <2>2, <3>2, <3>3, <1>b DEF HookSkip, AlreadyDelivered
      <4>2. CASE HookSent(w, c)
        BY <4>2, <2>2, <3>2, <1>b DEF HookSent
      <4>3. CASE HookPost(w, c) \/ \E kind \in {"temporary", "permanent"} : HookFails(w, c, kind)
        BY <4>3, <2>2, <1>a DEF HookPost, HookFails
      <4>4. QED
        BY <1>6, <4>1, <4>2, <4>3
    <3>6. HooksKnown(v)'
      BY <3>3, <3>4, <3>5, <2>a, <1>d DEF Known, HooksKnown
    <3>7. QED
      BY <3>1, <3>6 DEF Known
  <2>3. QED
    BY <2>1, <2>2
<1>7. CASE \/ \E t \in Turn :
                \/ \E active, paused \in BOOLEAN : Qualify(t, active, paused)
                \/ ReadMemory(t)
                \/ SaveMemory(t)
           \/ \E e \in Event :
                \/ ClaimLost(e) \/ MarkFailed(e) \/ PortalExecute(e) \/ AdminExecute(e)
                \/ \E at \in {"portal", "admin"} : RetryCheck(e, at)
  <2>1. UNCHANGED <<handling, handlerVars>>
    BY <1>7, OthersKeepHandlers
  <2>2. QED
    BY <2>1, <1>e DEF handlerVars
<1>8. CASE OutboxStep \/ UNCHANGED allVars
  <2>1. UNCHANGED <<handling, handlerVars>>
    BY <1>8, OutboxStepKeepsHandling DEF allVars, vars, workerVars, leadVars, handlerVars
  <2>2. QED
    BY <2>1, <1>e DEF handlerVars
<1>9. QED
  BY <1>1, <1>2, <1>3, <1>4, <1>5, <1>6, <1>7, <1>8, HeldCases DEF LeadNext, HandlerStep

LEMMA CrmColumnsDelivered ==
  ASSUME NEW r \in Lead, NEW c \in Lead, NEW answer,
         CrmColumns(r, c, answer).dispatch = "delivered"
  PROVE  r.dispatch = "delivered" \/ (answer = "accepted" /\ CrmMode # "dry_run")
BY DEF CrmColumns, Lead

LEMMA DeliveredStep ==
  ASSUME TypeOK, LeadTypeOK, InHand, Evidence, [LeadNext]_allVars
  PROVE  DeliveredWasTaken'
<1> SUFFICES ASSUME NEW e \in Event, lead'[e].dispatch = "delivered"
             PROVE  crm_taken'[e]
  BY DEF DeliveredWasTaken
<1>a. lead \in [Event -> Lead] /\ copy \in [Worker -> Lead]
  BY DEF LeadTypeOK
<1>b. lead[e].dispatch = "delivered" => crm_taken'[e]
  BY DeliveriesStay DEF Evidence, DeliveredWasTaken
<1>1. ASSUME NEW w \in Worker, CrmSave(w)
      PROVE  crm_taken'[e]
  <2>1. lead' = [lead EXCEPT ![handling[w]] = CrmColumns(lead[handling[w]], copy[w], crm[w])]
    BY <1>1 DEF CrmSave
  <2>2. CASE handling[w] # e
    BY <2>1, <2>2, <1>a, <1>b
  <2>3. CASE handling[w] = e
    <3>1. CrmColumns(lead[e], copy[w], crm[w]).dispatch = "delivered"
      BY <2>1, <2>3, <1>a
    <3>2. lead[e].dispatch = "delivered" \/ (crm[w] = "accepted" /\ CrmMode # "dry_run")
      BY <3>1, <1>a, CrmColumnsDelivered
    <3>3. crm[w] = "accepted" => CrmMode = "dry_run" \/ crm_taken[e]
      BY <1>1, <2>3 DEF CrmSave, Evidence, CrmKnown
    <3>4. crm_taken[e] => crm_taken'[e]
      BY DeliveriesStay
    <3>5. QED
      BY <3>2, <3>3, <3>4, <1>b
  <2>4. QED
    BY <2>2, <2>3
<1>2. ASSUME NEW w \in Worker, NEW d, SaveData(w, d)
      PROVE  crm_taken'[e]
  <2>1. lead'[e].dispatch = lead[e].dispatch
    BY <1>2, <1>a DEF SaveData, Lead
  <2>2. QED
    BY <2>1, <1>b
<1>3. ASSUME NEW t \in Turn, NEW active \in BOOLEAN, NEW paused \in BOOLEAN,
             Qualify(t, active, paused)
      PROVE  crm_taken'[e]
  <2> DEFINE f == LeadOf[t]
             s == IF lead[f].status \in {"sent_to_crm", "failed"} THEN lead[f].status
                  ELSE "qualified"
             p == IF lead[f].dispatch = "not_queued" /\ s = "qualified"
                  THEN "pending" ELSE lead[f].dispatch
             d == (lead[f].data \ {"active"}) \cup {t}
                    \cup (IF active /\ ~paused THEN {"active"} ELSE {})
  <2>1. lead' = [lead EXCEPT ![f] = [lead[f] EXCEPT !.status = s, !.dispatch = p, !.data = d]]
    BY <1>3, <1>a DEF Qualify
  <2>2. p = "delivered" => lead[f].dispatch = "delivered"
    OBVIOUS
  <2> HIDE DEF s, p, d
  <2>3. f \in Event /\ lead[f] \in Lead
    BY <1>a
  <2>4. CASE f # e
    BY <2>1, <2>4, <1>a, <1>b
  <2>5. CASE f = e
    <3>1. lead'[e] = [lead[e] EXCEPT !.status = s, !.dispatch = p, !.data = d]
      BY <2>1, <2>5, <1>a
    <3>2. lead'[e].dispatch = p
      BY <3>1, <2>3, <2>5 DEF Lead
    <3>3. QED
      BY <2>2, <2>5, <3>2, <1>b
  <2>6. QED
    BY <2>4, <2>5
<1>4. ASSUME NEW t \in Turn, SaveMemory(t)
      PROVE  crm_taken'[e]
  <2>1. lead'[e].dispatch = lead[e].dispatch
    BY <1>4, <1>a DEF SaveMemory, Lead
  <2>2. QED
    BY <2>1, <1>b
<1>5. ASSUME NEW f \in Event, MarkFailed(f) \/ PortalExecute(f) \/ AdminExecute(f)
      PROVE  crm_taken'[e]
  <2>1. \/ lead' = lead
        \/ lead' = [lead EXCEPT ![f] = [lead[f] EXCEPT !.status = "failed"]]
        \/ lead' = [lead EXCEPT ![f] = [lead[f] EXCEPT !.status = "qualified"]]
    BY <1>5 DEF MarkFailed, PortalExecute, AdminExecute
  <2>2. /\ [lead[f] EXCEPT !.status = "failed"].dispatch = lead[f].dispatch
        /\ [lead[f] EXCEPT !.status = "qualified"].dispatch = lead[f].dispatch
    BY <1>a DEF Lead
  <2>3. \/ lead'[e] = lead[e]
        \/ e = f /\ lead'[e] = [lead[f] EXCEPT !.status = "failed"]
        \/ e = f /\ lead'[e] = [lead[f] EXCEPT !.status = "qualified"]
    BY <2>1, <1>a
  <2>4. QED
    BY <2>2, <2>3, <1>b
<1>6. CASE lead' = lead
  BY <1>6, <1>b
<1>7. ASSUME NEW w \in Worker, HandlerStep(w), ~CrmSave(w)
      PROVE  lead' = lead \/ \E d : SaveData(w, d)
  BY <1>7 DEF HandlerStep, Load, Return, CrmRequest, MailHeld, MailFails, MailSend,
     MailMark, HookSkip, HookPost, HookSent, HookFails
<1>8. ASSUME \/ OutboxStep \/ UNCHANGED allVars
             \/ \E w \in Worker : WorkerCrash(w)
             \/ \E t \in Turn : ReadMemory(t)
             \/ \E f \in Event :
                  ClaimLost(f) \/ \E at \in {"portal", "admin"} : RetryCheck(f, at)
      PROVE  lead' = lead
  BY <1>8 DEF OutboxStep, allVars, leadVars, WorkerCrash, ReadMemory, ClaimLost, RetryCheck
<1>9. QED
  BY <1>1, <1>2, <1>3, <1>4, <1>5, <1>6, <1>7, <1>8 DEF LeadNext

(* An event becomes succeeded only when a handler returns with success. *)
LEMMA SuccessIsReturned ==
  ASSUME TypeOK, [LeadNext]_allVars, NEW e \in Event,
         status'[e] = "succeeded", status[e] # "succeeded"
  PROVE  \E w \in Worker : /\ handling[w] = e
                           /\ HooksAnswered(w)
                           /\ OutcomeOf(w) = "succeeded"
                           /\ UNCHANGED <<received, hook_done>>
<1>a. status \in [Event -> {"absent", "pending", "processing", "retry",
                            "succeeded", "skipped", "dead_letter"}]
  BY DEF TypeOK, Status, Terminal
<1>1. ASSUME NEW w \in Worker, NEW f \in Event, Return(w, f)
      PROVE  /\ handling[w] = e /\ HooksAnswered(w) /\ OutcomeOf(w) = "succeeded"
             /\ UNCHANGED <<received, hook_done>>
  <2>1. CASE Finalize(w, f, OutcomeOf(w))
    <3>1. /\ handling[w] = f
          /\ status' = [status EXCEPT ![f] = FinalStatus(OutcomeOf(w), attempts[f] + 1)]
      BY <2>1 DEF Finalize
    <3>2. e = f /\ FinalStatus(OutcomeOf(w), attempts[f] + 1) = "succeeded"
      BY <3>1, <1>a
    <3>3. OutcomeOf(w) = "succeeded"
      BY <3>2 DEF FinalStatus
    <3>4. QED
      BY <1>1, <3>1, <3>2, <3>3 DEF Return
  <2>2. CASE FinalizeRejected(w, f)
    BY <2>2 DEF FinalizeRejected, eventVars
  <2>3. QED
    BY <1>1, <2>1, <2>2 DEF Return
<1>3. ASSUME NEW w \in Worker, WorkerCrash(w) \/ \E f \in Event : Load(w, f)
      PROVE  FALSE
  BY <1>3 DEF WorkerCrash, Crash, Load, Handle, eventVars, vars
<1>4. ASSUME OutboxStep
      PROVE  FALSE
  BY <1>4, <1>a DEF OutboxStep, RecoverAbandonedLocks, Claim, BackoffElapses, AdminSelect,
     eventVars
<1>5. ASSUME NEW f \in Event, PortalRetry(f) \/ Enqueue(f)
      PROVE  FALSE
  BY <1>5, <1>a DEF PortalRetry, ManualRequeue, Enqueue
<1>6. ASSUME NEW w \in Worker, HandlerStep(w),
             ~\E f \in Event : Load(w, f) \/ Return(w, f)
      PROVE  UNCHANGED vars
  BY <1>6 DEF HandlerStep, CrmRequest, CrmSave, MailHeld, MailFails, MailSend,
     MailMark, HookSkip, HookPost, HookSent, HookFails
<1>7. ASSUME NEW t \in Turn,
             \/ \E active, paused \in BOOLEAN : Qualify(t, active, paused)
             \/ ReadMemory(t) \/ SaveMemory(t)
      PROVE  UNCHANGED vars \/ Enqueue(LeadOf[t])
  BY <1>7 DEF Qualify, ReadMemory, SaveMemory
<1>8. ASSUME NEW f \in Event,
             \/ MarkFailed(f) \/ PortalExecute(f) \/ AdminExecute(f)
             \/ \E at \in {"portal", "admin"} : RetryCheck(f, at)
      PROVE  UNCHANGED vars \/ PortalRetry(f)
  BY <1>8 DEF MarkFailed, RetryCheck, PortalExecute, AdminExecute
<1>9. ASSUME UNCHANGED vars
      PROVE  FALSE
  BY <1>9 DEF vars, eventVars
<1>10. ASSUME NEW f \in Event, ClaimLost(f)
       PROVE  FALSE
  BY <1>10, <1>a DEF ClaimLost, LockTimeoutElapses, AdminSave, ManualRequeue, eventVars
<1>11. CASE UNCHANGED allVars
  BY <1>9, <1>11 DEF allVars
<1>12. \A t \in Turn : LeadOf[t] \in Event
  OBVIOUS
<1>13. QED
  BY <1>1, <1>3, <1>4, <1>5, <1>6, <1>7, <1>8, <1>9, <1>10, <1>11, <1>12 DEF LeadNext, HandlerStep

(* A success means that every channel has been reported done; each report  *)
(* is true.                                                                *)
LEMMA OutcomeSucceeds ==
  ASSUME LeadTypeOK, NEW w \in Worker, OutcomeOf(w) = "succeeded", HooksAnswered(w)
  PROVE  /\ crm[w] \in {"none", "off", "accepted"}
         /\ mail[w] # "failed"
         /\ \A c \in Config : hooks[w][c] \in {"sent", "skipped"}
<1>1. /\ crm[w] \notin CrmRetryable /\ crm[w] \notin CrmPermanent
      /\ mail[w] # "failed"
      /\ "temporary" \notin {hooks[w][c] : c \in Config}
      /\ "permanent" \notin {hooks[w][c] : c \in Config}
  BY DEF OutcomeOf, HandlerOutcome
<1>2. crm[w] \in {"none", "off", "accepted"}
  BY <1>1 DEF LeadTypeOK, CrmAnswer, CrmRetryable, CrmPermanent
<1>3. \A c \in Config : hooks[w][c] \in {"sent", "skipped"}
  BY <1>1 DEF LeadTypeOK, HooksAnswered
<1>4. QED
  BY <1>1, <1>2, <1>3

LEMMA SuccessStep ==
  ASSUME TypeOK, LeadTypeOK, InHand, Evidence, [LeadNext]_allVars
  PROVE  SuccessIsComplete'
<1> SUFFICES ASSUME NEW e \in Event, status'[e] = "succeeded"
             PROVE  /\ CrmMode = "real" => crm_taken'[e]
                    /\ MailMode = "real" => mails'[e] > 0 \/ unready'[e]
                    /\ \A c \in Config : HookMode[c] = "real" => c \in hook_done'[e]
  BY DEF SuccessIsComplete
<1>1. CASE status[e] = "succeeded"
  BY <1>1, DeliveriesStay DEF Evidence, SuccessIsComplete
<1>2. CASE status[e] # "succeeded"
  <2>1. PICK w \in Worker : /\ handling[w] = e /\ HooksAnswered(w) /\ OutcomeOf(w) = "succeeded"
                            /\ UNCHANGED <<received, hook_done>>
    BY <1>2, SuccessIsReturned
  <2>2. step[w] = "hooks"
    BY <2>1 DEF HooksAnswered
  <2>3. CrmKnown(w) /\ MailKnown(w) /\ HooksKnown(w)
    BY DEF Evidence
  <2>4. CrmMode = "real" => crm_taken[e]
    BY <2>1, <2>2, <2>3, OutcomeSucceeds DEF CrmKnown
  <2>5. MailMode = "real" => mails[e] > 0 \/ unready[e]
    BY <2>1, <2>2, <2>3, OutcomeSucceeds DEF MailKnown
  <2>6. \A c \in Config : HookMode[c] = "real" => c \in hook_done[e]
    BY <2>1, <2>3, OutcomeSucceeds DEF HooksKnown
  <2>7. QED
    BY <2>1, <2>4, <2>5, <2>6 DEF received
<1>3. QED
  BY <1>1, <1>2

LEMMA EvidenceStep ==
  TypeOK /\ LeadTypeOK /\ InHand /\ Evidence /\ [LeadNext]_allVars => Evidence'
BY FlagsStep, KnownStep, DeliveredStep, SuccessStep DEF Evidence, Known

(* What a running handler knows of its three channels, what the flags and  *)
(* logs say and what a success stands for are true of what was received.   *)
THEOREM EvidenceHolds == LeadSpec => []Evidence
BY LeadTypesAndHands, EvidenceInit, EvidenceStep, PTL DEF LeadSpec

(* No success forgets a delivery, whatever fails, crashes, is overtaken or *)
(* is overwritten: for any workers, turns and webhooks, in every mode.     *)
THEOREM SuccessHolds == LeadSpec => []SuccessIsComplete
<1>1. Evidence => SuccessIsComplete
  BY DEF Evidence
<1>2. QED
  BY <1>1, EvidenceHolds, PTL

(* The row's "delivered" is true: Smart360 has got the lead. *)
THEOREM DeliveredHolds == LeadSpec => []DeliveredWasTaken
<1>1. Evidence => DeliveredWasTaken
  BY DEF Evidence
<1>2. QED
  BY <1>1, EvidenceHolds, PTL

(* The outbox's retry budget holds of the leads' events, with whatever the *)
(* handlers, the turns and the operators do.                               *)
THEOREM LeadBudget == LeadSpec => []RetryBudget
BY RunsInOutbox, BudgetHolds, PTL

-----------------------------------------------------------------------------
(***************************************************************************)
(* Deliveries that repeat.  Until something may excuse it (slips), an      *)
(* event is in the batch of its claimant alone, so that its handlers come  *)
(* one after the other: each finds in the webhook's log, or in the flag of *)
(* the row it loads, what the one before it has delivered.  Worker ids may *)
(* be shared: a shared id does harm only after a lock was lost, and that   *)
(* is a slip.                                                              *)
(***************************************************************************)
Sole == \A e \in Event : \A ch \in Channel : <<e, ch>> \notin slips => Held(e)

PostLogged(e, c) ==
  posts[e][c] > 0 =>
    /\ posts[e][c] = 1
    /\ c \in hook_done[e] \/ \E w \in Worker : handling[w] = e /\ hooks[w][c] = "posted"

MailFlagged(e) ==
  /\ mails[e] > 0 =>
       /\ mails[e] = 1
       /\ "sent" \in lead[e].data \/ \E w \in Worker : handling[w] = e /\ step[w] = "mail_mark"
  /\ \A t \in Turn : LeadOf[t] = e /\ "sent" \in memory[t] => "sent" \in lead[e].data
  /\ \A w \in Worker :
       handling[w] = e /\ step[w] \in {"crm", "crm_save", "mail"} /\ "sent" \in lead[e].data =>
         "sent" \in copy[w].data

Traces ==
  /\ Sole
  /\ \A e \in Event : \A c \in Config : <<e, c>> \notin slips => PostLogged(e, c)
  /\ \A e \in Event : <<e, "mail">> \notin slips /\ <<e, "flag">> \notin slips => MailFlagged(e)

LEMMA TracesInit == LeadInit => Traces
BY DEF LeadInit, Init, Traces, Sole, Held, PostLogged, MailFlagged

(* A slip is never forgotten. *)
LEMMA SlipsStay ==
  ASSUME [LeadNext]_allVars
  PROVE  slips \subseteq slips'
<1>1. ASSUME NEW w \in Worker, HandlerStep(w)
      PROVE  slips \subseteq slips'
  BY <1>1 DEF HandlerStep, Load, Return, CrmRequest, CrmSave, MailHeld, MailFails, MailSend,
     MailMark, HookSkip, HookPost, HookSent, HookFails
<1>2. ASSUME NEW w \in Worker, WorkerCrash(w)
      PROVE  slips \subseteq slips'
  BY <1>2 DEF WorkerCrash
<1>3. ASSUME NEW t \in Turn,
             \/ \E active, paused \in BOOLEAN : Qualify(t, active, paused)
             \/ ReadMemory(t) \/ SaveMemory(t)
      PROVE  slips \subseteq slips'
  BY <1>3 DEF Qualify, ReadMemory, SaveMemory
<1>4. ASSUME NEW e \in Event,
             \/ ClaimLost(e) \/ MarkFailed(e) \/ PortalExecute(e) \/ AdminExecute(e)
             \/ \E at \in {"portal", "admin"} : RetryCheck(e, at)
      PROVE  slips \subseteq slips'
  BY <1>4 DEF ClaimLost, MarkFailed, PortalExecute, AdminExecute, RetryCheck
<1>5. CASE OutboxStep \/ UNCHANGED allVars
  BY <1>5 DEF OutboxStep, allVars, leadVars
<1>6. QED
  BY <1>1, <1>2, <1>3, <1>4, <1>5 DEF LeadNext

(* A lock that is lost is a slip of every channel. *)
LEMMA SoleStep ==
  ASSUME TypeOK, Structure, Sole, [LeadNext]_allVars
  PROVE  Sole'
<1> SUFFICES ASSUME NEW e \in Event, NEW ch \in Channel, <<e, ch>> \notin slips'
             PROVE  Held(e)'
  BY DEF Sole
<1>1. Held(e)
  BY SlipsStay DEF Sole
<1>2. ASSUME NEW f \in Event, ClaimLost(f)
      PROVE  Held(e)'
  <2>1. slips' = slips \cup (IF claimant[f] # NoOne THEN {f} \X Channel ELSE {})
    BY <1>2 DEF ClaimLost
  <2>2. CASE f = e
    <3>1. claimant[e] = NoOne
      BY <2>1, <2>2
    <3>2. \A w \in Worker : e \notin batch[w]
      BY <1>1, <3>1 DEF Held
    <3>3. batch' = batch
      BY <1>2 DEF ClaimLost, LockTimeoutElapses, AdminSave, workerVars
    <3>4. QED
      BY <3>2, <3>3 DEF Held
  <2>3. CASE f # e
    <3>1. /\ batch' = batch
          /\ status'[e] = status[e] /\ lock_expired'[e] = lock_expired[e]
          /\ locked_by'[e] = locked_by[e] /\ claimant'[e] = claimant[e]
      BY <1>2, <2>3 DEF ClaimLost, LockTimeoutElapses, AdminSave, ManualRequeue, workerVars, TypeOK
    <3>2. QED
      BY <1>1, <3>1 DEF Held, Processing
  <2>4. QED
    BY <2>2, <2>3
<1>3. CASE OutboxStep
  BY <1>1, <1>3, HeldStep DEF OutboxStep
<1>4. ASSUME NEW w \in Worker, NEW f \in Event, Load(w, f) \/ Return(w, f)
      PROVE  Held(e)'
  <2>1. OutcomeOf(w) \in Outcome
    BY HandlerOutcomeType DEF OutcomeOf
  <2>2. QED
    BY <1>1, <1>4, <2>1, HeldStep DEF Load, Return
<1>5. ASSUME NEW w \in Worker, HandlerStep(w), ~\E f \in Event : Load(w, f) \/ Return(w, f)
      PROVE  UNCHANGED vars
  BY <1>5 DEF HandlerStep, CrmRequest, CrmSave, MailHeld, MailFails, MailSend,
     MailMark, HookSkip, HookPost, HookSent, HookFails
<1>6. ASSUME NEW w \in Worker, WorkerCrash(w)
      PROVE  Held(e)'
  BY <1>1, <1>6, HeldStep DEF WorkerCrash
<1>7. ASSUME NEW t \in Turn,
             \/ \E active, paused \in BOOLEAN : Qualify(t, active, paused)
             \/ ReadMemory(t) \/ SaveMemory(t)
      PROVE  UNCHANGED vars \/ Enqueue(LeadOf[t])
  BY <1>7 DEF Qualify, ReadMemory, SaveMemory
<1>8. ASSUME NEW f \in Event,
             \/ MarkFailed(f) \/ PortalExecute(f) \/ AdminExecute(f)
             \/ \E at \in {"portal", "admin"} : RetryCheck(f, at)
      PROVE  UNCHANGED vars \/ PortalRetry(f)
  BY <1>8 DEF MarkFailed, RetryCheck, PortalExecute, AdminExecute
<1>9. ASSUME \/ UNCHANGED vars
             \/ \E f \in Event : Enqueue(f) \/ PortalRetry(f)
      PROVE  Held(e)'
  BY <1>1, <1>9, HeldStep
<1>10. CASE UNCHANGED allVars
  BY <1>9, <1>10 DEF allVars
<1>11. \A t \in Turn : LeadOf[t] \in Event
  OBVIOUS
<1>12. QED
  BY <1>2, <1>3, <1>4, <1>5, <1>6, <1>7, <1>8, <1>9, <1>10, <1>11 DEF LeadNext, HandlerStep

(* The webhooks: a request that nothing excuses was logged, or is about to *)
(* be, by the one handler that made it.                                    *)
LEMMA PostsStep ==
  ASSUME TypeOK, LeadTypeOK, InHand, Structure, Traces, [LeadNext]_allVars,
         NEW e \in Event, NEW c \in Config, <<e, c>> \notin slips'
  PROVE  PostLogged(e, c)'
<1>a. /\ posts \in [Event -> [Config -> 0..2]]
      /\ hook_done \in [Event -> SUBSET Config]
      /\ handling \in [Worker -> Event \cup {NoOne}]
      /\ step \in [Worker -> {"none", "crm", "crm_save", "mail", "mail_mark", "hooks"}]
      /\ hooks \in [Worker -> [Config -> {"none", "posted", "sent", "skipped",
                                          "temporary", "permanent"}]]
  BY DEF TypeOK, LeadTypeOK
<1>b. c \in Channel /\ <<e, c>> \notin slips
  BY SlipsStay DEF Channel
<1>c. PostLogged(e, c) /\ Held(e)
  BY <1>b DEF Traces, Sole
<1>d. hook_done[e] \subseteq hook_done'[e]
  BY DeliveriesStay
<1>e. \A w \in Worker : hooks[w][c] = "posted" => handling[w] \in Event /\ step[w] = "hooks"
  BY DEF InHand
(* No request is made; who was posting goes on, or has logged. *)
<1>1. ASSUME posts'[e][c] = posts[e][c],
             \A w \in Worker : handling[w] = e /\ hooks[w][c] = "posted" =>
               c \in hook_done'[e] \/ (handling'[w] = e /\ hooks'[w][c] = "posted")
      PROVE  PostLogged(e, c)'
  BY <1>1, <1>c, <1>d DEF PostLogged
<1>2. ASSUME NEW w \in Worker, NEW f \in Event, Load(w, f)
      PROVE  PostLogged(e, c)'
  <2>1. /\ UNCHANGED <<posts, hooks>> /\ handling[w] = NoOne
        /\ handling' = [handling EXCEPT ![w] = f]
    BY <1>2 DEF Load, Handle, received
  <2>2. NoOne \notin Event
    OBVIOUS
  <2>3. QED
    BY <1>1, <1>a, <2>1, <2>2
<1>3. ASSUME NEW w \in Worker, NEW f \in Event, Return(w, f)
      PROVE  PostLogged(e, c)'
  <2>1. /\ posts' = posts /\ hooks[w][c] # "posted"
        /\ \A v \in Worker \ {w} : handling'[v] = handling[v] /\ hooks'[v] = hooks[v]
    BY <1>3, <1>a DEF Return, HooksAnswered, Forget, Finalize, FinalizeRejected, EndOfEvent, received
  <2>2. QED
    BY <1>1, <2>1
<1>4. ASSUME NEW w \in Worker, WorkerCrash(w)
      PROVE  PostLogged(e, c)'
  <2>1. /\ posts' = posts
        /\ \A v \in Worker \ {w} : handling'[v] = handling[v] /\ hooks'[v] = hooks[v]
    BY <1>4, <1>a DEF WorkerCrash, Crash, Forget, received
  <2>2. ~(handling[w] = e /\ hooks[w][c] = "posted")
    BY <1>4 DEF WorkerCrash
  <2>3. QED
    BY <1>1, <2>1, <2>2
<1>5. ASSUME NEW w \in Worker, NEW d \in Config, HookPost(w, d)
      PROVE  PostLogged(e, c)'
  <2>1. /\ posts' = [posts EXCEPT ![handling[w]][d] = OneMore(posts[handling[w]][d])]
        /\ hooks' = [hooks EXCEPT ![w][d] = "posted"]
        /\ handling' = handling /\ hook_done' = hook_done
        /\ step[w] = "hooks" /\ hooks[w][d] = "none" /\ d \notin hook_done[handling[w]]
    BY <1>5 DEF HookPost, AlreadyDelivered, vars, workerVars
  <2>2. handling[w] \in Event
    BY <2>1 DEF InHand
  <2>3. CASE handling[w] = e /\ d = c
    <3>1. posts[e][c] = 0
      <4>1. ASSUME posts[e][c] > 0
            PROVE  FALSE
        <5>1. PICK v \in Worker : handling[v] = e /\ hooks[v][c] = "posted"
          BY <1>c, <2>1, <2>3, <4>1 DEF PostLogged
        <5>2. v = w
          BY <1>c, <2>3, <5>1, HeldAlone
        <5>3. QED
          BY <2>1, <2>3, <5>1, <5>2
      <4>2. QED
        BY <1>a, <4>1
    <3>2. posts'[e][c] = 1
      BY <1>a, <2>1, <2>3, <3>1 DEF OneMore
    <3>3. handling'[w] = e /\ hooks'[w][c] = "posted"
      BY <1>a, <2>1, <2>3
    <3>4. QED
      BY <3>2, <3>3 DEF PostLogged
  <2>4. CASE ~(handling[w] = e /\ d = c)
    <3>1. posts'[e][c] = posts[e][c]
      BY <1>a, <2>1, <2>2, <2>4
    <3>2. \A v \in Worker : hooks[v][c] = "posted" => hooks'[v][c] = "posted"
      BY <1>a, <2>1
    <3>3. QED
      BY <1>1, <2>1, <3>1, <3>2
  <2>5. QED
    BY <2>3, <2>4
<1>6. ASSUME NEW w \in Worker, NEW d \in Config, HookSent(w, d)
      PROVE  PostLogged(e, c)'
  <2>1. /\ posts' = posts /\ handling' = handling
        /\ hooks' = [hooks EXCEPT ![w][d] = "sent"]
        /\ hook_done' = [hook_done EXCEPT ![handling[w]] = hook_done[handling[w]] \cup {d}]
    BY <1>6 DEF HookSent, vars, workerVars, received
  <2>2. QED
    BY <1>1, <1>a, <2>1
<1>7. ASSUME NEW w \in Worker, NEW d \in Config,
             HookSkip(w, d) \/ \E kind \in {"temporary", "permanent"} : HookFails(w, d, kind)
      PROVE  PostLogged(e, c)'
  <2>1. posts' = posts /\ handling' = handling
    BY <1>7 DEF HookSkip, HookFails, vars, workerVars, received
  <2>2. ASSUME NEW v \in Worker, handling[v] = e, hooks[v][c] = "posted"
        PROVE  hooks'[v][c] = "posted"
    <3>1. CASE v = w /\ d = c
      BY <1>7, <2>2, <3>1 DEF HookSkip, HookFails
    <3>2. CASE ~(v = w /\ d = c)
      BY <1>7, <1>a, <2>2, <3>2 DEF HookSkip, HookFails
    <3>3. QED
      BY <3>1, <3>2
  <2>3. QED
    BY <1>1, <2>1, <2>2
<1>8. ASSUME NEW w \in Worker,
             \/ \E answer \in CrmAnswer \cup {"off"} : CrmRequest(w, answer)
             \/ CrmSave(w) \/ MailHeld(w) \/ MailSend(w) \/ MailMark(w)
             \/ \E taken \in BOOLEAN : MailFails(w, taken)
      PROVE  PostLogged(e, c)'
  <2>1. UNCHANGED <<posts, handling, hooks>>
    BY <1>8 DEF CrmRequest, CrmSave, MailHeld, MailFails, MailSend, MailMark, vars, workerVars,
       received
  <2>2. QED
    BY <1>1, <2>1
<1>9. CASE \/ \E t \in Turn :
                \/ \E active, paused \in BOOLEAN : Qualify(t, active, paused)
                \/ ReadMemory(t)
                \/ SaveMemory(t)
           \/ \E f \in Event :
                \/ ClaimLost(f) \/ MarkFailed(f) \/ PortalExecute(f) \/ AdminExecute(f)
                \/ \E at \in {"portal", "admin"} : RetryCheck(f, at)
  <2>1. UNCHANGED <<handling, handlerVars>>
    BY <1>9, OthersKeepHandlers
  <2>2. posts' = posts
    BY <1>9 DEF Qualify, ReadMemory, SaveMemory, ClaimLost, MarkFailed, PortalExecute,
       AdminExecute, RetryCheck, received
  <2>3. QED
    BY <1>1, <2>1, <2>2 DEF handlerVars
<1>10. CASE OutboxStep \/ UNCHANGED allVars
  <2>1. UNCHANGED <<handling, leadVars>>
    BY <1>10, OutboxStepKeepsHandling DEF allVars, vars, workerVars
  <2>2. QED
    BY <1>1, <2>1 DEF leadVars, handlerVars, received
<1>11. QED
  BY <1>2, <1>3, <1>4, <1>5, <1>6, <1>7, <1>8, <1>9, <1>10 DEF LeadNext, HandlerStep

(* The mails: one that nothing excuses has its flag in the row, or is      *)
(* about to, and a handler that may still mail has the row's flag.         *)
LEMMA MailsStep ==
  ASSUME TypeOK, LeadTypeOK, InHand, Structure, Traces, [LeadNext]_allVars,
         NEW e \in Event, <<e, "mail">> \notin slips', <<e, "flag">> \notin slips'
  PROVE  MailFlagged(e)'
<1> DEFINE Open(w) == handling[w] = e /\ step[w] \in {"crm", "crm_save", "mail"}
           Flag == "sent" \in lead[e].data
<1>a. /\ mails \in [Event -> 0..2]
      /\ lead \in [Event -> Lead] /\ copy \in [Worker -> Lead]
      /\ memory \in [Turn -> SUBSET Key]
      /\ handling \in [Worker -> Event \cup {NoOne}]
      /\ step \in [Worker -> {"none", "crm", "crm_save", "mail", "mail_mark", "hooks"}]
  BY DEF TypeOK, LeadTypeOK
<1>b. "mail" \in Channel /\ <<e, "mail">> \notin slips /\ <<e, "flag">> \notin slips
  BY SlipsStay DEF Channel
<1>c. MailFlagged(e) /\ Held(e)
  BY <1>b DEF Traces, Sole
<1>d. \A w \in Worker : step[w] # "none" => handling[w] \in Event
  BY DEF InHand
<1>e. NoOne \notin Event /\ "sent" \notin Turn
  OBVIOUS
(* No mail is sent, and the row's flag stays as it is. *)
<1>1. ASSUME mails'[e] = mails[e], Flag' <=> Flag,
             \A t \in Turn : LeadOf[t] = e /\ "sent" \in memory'[t] =>
               "sent" \in memory[t] \/ Flag,
             \A w \in Worker :
               /\ handling[w] = e /\ step[w] = "mail_mark" =>
                    handling'[w] = e /\ step'[w] = "mail_mark"
               /\ Open(w)' /\ Flag => \/ Open(w) /\ ("sent" \in copy[w].data =>
                                                      "sent" \in copy'[w].data)
                                      \/ "sent" \in copy'[w].data
      PROVE  MailFlagged(e)'
  <2>1. mails'[e] > 0 =>
          /\ mails'[e] = 1
          /\ Flag' \/ \E w \in Worker : handling'[w] = e /\ step'[w] = "mail_mark"
    BY <1>1, <1>c DEF MailFlagged
  <2>2. \A t \in Turn : LeadOf[t] = e /\ "sent" \in memory'[t] => Flag'
    BY <1>1, <1>c DEF MailFlagged
  <2>3. \A w \in Worker : Open(w)' /\ Flag' => "sent" \in copy'[w].data
    BY <1>1, <1>c DEF MailFlagged
  <2>4. QED
    BY <2>1, <2>2, <2>3 DEF MailFlagged
(* So it is when rows, copies and memories stay, and a handler steps on    *)
(* from anywhere but between the mail and its flag.                        *)
<1>2. ASSUME UNCHANGED <<mails, lead, memory, handling, copy>>, NEW w \in Worker,
             \A v \in Worker \ {w} : step'[v] = step[v],
             step[w] # "mail_mark", step'[w] \in {"crm", "crm_save", "mail"} => Open(w) \/ handling[w] # e
      PROVE  MailFlagged(e)'
  BY <1>1, <1>2
<1>3. ASSUME UNCHANGED <<mails, lead, memory, handling, copy, step>>
      PROVE  MailFlagged(e)'
  BY <1>1, <1>3
<1>4. ASSUME NEW w \in Worker, NEW f \in Event, Load(w, f)
      PROVE  MailFlagged(e)'
  <2>1. /\ UNCHANGED <<mails, lead, memory>> /\ handling[w] = NoOne
        /\ handling' = [handling EXCEPT ![w] = f]
        /\ copy' = [copy EXCEPT ![w] = lead[f]]
        /\ step' = [step EXCEPT ![w] = "crm"]
    BY <1>4 DEF Load, Handle, received, turnVars
  <2>2. \A v \in Worker \ {w} : handling'[v] = handling[v] /\ copy'[v] = copy[v] /\ step'[v] = step[v]
    BY <1>a, <2>1
  <2>3. handling'[w] = f /\ copy'[w] = lead[f] /\ step'[w] = "crm"
    BY <1>a, <2>1
  <2>4. QED
    BY <1>1, <1>e, <2>1, <2>2, <2>3
<1>5. ASSUME NEW w \in Worker, (\E f \in Event : Return(w, f)) \/ WorkerCrash(w)
      PROVE  MailFlagged(e)'
  <2>1. /\ UNCHANGED <<mails, lead, memory>>
        /\ \A v \in Worker \ {w} : handling'[v] = handling[v]
        /\ copy' = [copy EXCEPT ![w] = NoLead]
        /\ step' = [step EXCEPT ![w] = "none"]
    BY <1>5, <1>a DEF Return, WorkerCrash, Forget, Finalize, FinalizeRejected, EndOfEvent, Crash,
       turnVars, received
  <2>2. ~(handling[w] = e /\ step[w] = "mail_mark")
    BY <1>5 DEF Return, HooksAnswered, WorkerCrash
  <2>3. \A v \in Worker \ {w} : copy'[v] = copy[v] /\ step'[v] = step[v]
    BY <1>a, <2>1
  <2>4. step'[w] = "none"
    BY <1>a, <2>1
  <2>5. QED
    BY <1>1, <2>1, <2>2, <2>3, <2>4
<1>6. ASSUME NEW w \in Worker, NEW answer \in CrmAnswer \cup {"off"}, CrmRequest(w, answer)
      PROVE  MailFlagged(e)'
  <2>1. /\ UNCHANGED <<mails, lead, memory, handling, copy>> /\ step[w] = "crm"
        /\ \A v \in Worker \ {w} : step'[v] = step[v]
    BY <1>6, <1>a DEF CrmRequest, turnVars, vars, workerVars
  <2>2. QED
    BY <1>2, <2>1
<1>7. ASSUME NEW w \in Worker, CrmSave(w)
      PROVE  MailFlagged(e)'
  <2>1. /\ UNCHANGED <<mails, memory, handling>> /\ step[w] = "crm_save"
        /\ step' = [step EXCEPT ![w] = "mail"]
        /\ lead' = [lead EXCEPT ![handling[w]] = CrmColumns(lead[handling[w]], copy[w], crm[w])]
        /\ copy' = [copy EXCEPT ![w] = CrmColumns(copy[w], copy[w], crm[w])]
    BY <1>7 DEF CrmSave, turnVars, vars, workerVars, received
  <2>2. lead'[e].data = lead[e].data /\ \A v \in Worker : copy'[v].data = copy[v].data
    BY <2>1, <1>a, CrmColumnsType
  <2>3. \A v \in Worker \ {w} : step'[v] = step[v]
    BY <1>a, <2>1
  <2>4. QED
    BY <1>1, <2>1, <2>2, <2>3
<1>8. ASSUME NEW w \in Worker, MailSkip(w)
      PROVE  MailFlagged(e)'
  <2>1. /\ UNCHANGED <<mails, lead, memory, handling, copy>> /\ step[w] = "mail"
        /\ step' = [step EXCEPT ![w] = "hooks"]
    BY <1>8 DEF MailSkip, turnVars, vars, workerVars
  <2>2. step'[w] = "hooks" /\ \A v \in Worker \ {w} : step'[v] = step[v]
    BY <1>a, <2>1
  <2>3. QED
    BY <1>2, <2>1, <2>2
<1>9. ASSUME NEW w \in Worker, MailDryRun(w)
      PROVE  MailFlagged(e)'
  <2> DEFINE d == copy[w].data \cup {"dry_run"}
  <2>1. /\ UNCHANGED <<mails, memory, handling>> /\ step[w] = "mail"
        /\ step' = [step EXCEPT ![w] = "hooks"]
        /\ lead' = [lead EXCEPT ![handling[w]] = [lead[handling[w]] EXCEPT !.data = d]]
        /\ copy' = [copy EXCEPT ![w] = [copy[w] EXCEPT !.data = d]]
        /\ "sent" \notin copy[w].data
    BY <1>9 DEF MailDryRun, MayMail, AlreadySent, SaveData, turnVars, vars, workerVars, received
  <2>2. step'[w] = "hooks" /\ \A v \in Worker \ {w} : step'[v] = step[v] /\ copy'[v] = copy[v]
    BY <1>a, <2>1
  <2>3. Flag' <=> Flag
    <3>1. CASE handling[w] = e
      <4>1. ~Flag
        BY <1>c, <2>1, <3>1 DEF MailFlagged
      <4>2. lead'[e].data = d
        BY <1>a, <2>1, <3>1 DEF Lead
      <4>3. QED
        BY <2>1, <4>1, <4>2
    <3>2. CASE handling[w] # e
      BY <1>a, <2>1, <3>2
    <3>3. QED
      BY <3>1, <3>2
  <2>4. QED
    BY <1>1, <2>1, <2>2, <2>3
<1>10. ASSUME NEW w \in Worker, NEW taken \in BOOLEAN, MailFails(w, taken)
       PROVE  MailFlagged(e)'
  <2>1. /\ UNCHANGED <<lead, memory, handling, copy>> /\ step[w] = "mail"
        /\ step' = [step EXCEPT ![w] = "hooks"]
        /\ taken => handling[w] # e
        /\ taken => mails' = [mails EXCEPT ![handling[w]] = OneMore(mails[handling[w]])]
        /\ ~taken => mails' = mails
    BY <1>10, <1>a, <1>d DEF MailFails, MayMail, turnVars, vars, workerVars
  <2>2. step'[w] = "hooks" /\ \A v \in Worker \ {w} : step'[v] = step[v]
    BY <1>a, <2>1
  <2>3. mails'[e] = mails[e]
    BY <1>a, <2>1
  <2>4. QED
    BY <1>1, <2>1, <2>2, <2>3
<1>11. ASSUME NEW w \in Worker, MailSend(w)
       PROVE  MailFlagged(e)'
  <2>1. /\ UNCHANGED <<lead, memory, handling, copy>> /\ step[w] = "mail"
        /\ step' = [step EXCEPT ![w] = "mail_mark"]
        /\ mails' = [mails EXCEPT ![handling[w]] = OneMore(mails[handling[w]])]
        /\ "sent" \notin copy[w].data
    BY <1>11 DEF MailSend, MayMail, AlreadySent, turnVars, vars, workerVars
  <2>2. step'[w] = "mail_mark" /\ \A v \in Worker \ {w} : step'[v] = step[v]
    BY <1>a, <2>1
  <2>3. CASE handling[w] # e
    <3>1. mails'[e] = mails[e]
      BY <1>a, <2>1, <2>3
    <3>2. QED
      BY <1>1, <2>1, <2>2, <2>3, <3>1
  <2>4. CASE handling[w] = e
    <3>1. ~Flag
      BY <1>c, <2>1, <2>4 DEF MailFlagged
    <3>2. \A v \in Worker : ~(handling[v] = e /\ step[v] = "mail_mark")
      BY <1>c, <2>1, <2>4, HeldAlone
    <3>3. mails[e] = 0
      BY <1>a, <1>c, <3>1, <3>2 DEF MailFlagged
    <3>4. mails'[e] = 1
      BY <1>a, <2>1, <2>4, <3>3 DEF OneMore
    <3>5. QED
      BY <1>c, <2>1, <2>2, <2>4, <3>1, <3>4 DEF MailFlagged
  <2>5. QED
    BY <2>3, <2>4
<1>12. ASSUME NEW w \in Worker, MailMark(w)
       PROVE  MailFlagged(e)'
  <2> DEFINE d == copy[w].data \cup {"sent"}
  <2>1. /\ UNCHANGED <<mails, memory, handling>> /\ step[w] = "mail_mark"
        /\ step' = [step EXCEPT ![w] = "hooks"]
        /\ lead' = [lead EXCEPT ![handling[w]] = [lead[handling[w]] EXCEPT !.data = d]]
        /\ copy' = [copy EXCEPT ![w] = [copy[w] EXCEPT !.data = d]]
    BY <1>12 DEF MailMark, WithSentFlag, SaveData, turnVars, vars, workerVars, received
  <2>2. step'[w] = "hooks" /\ \A v \in Worker \ {w} : step'[v] = step[v] /\ copy'[v] = copy[v]
    BY <1>a, <2>1
  <2>3. CASE handling[w] # e
    <3>1. lead'[e] = lead[e]
      BY <1>a, <2>1, <2>3
    <3>2. QED
      BY <1>1, <2>1, <2>2, <2>3, <3>1
  <2>4. CASE handling[w] = e
    <3>1. Flag'
      BY <1>a, <2>1, <2>4 DEF Lead
    <3>2. \A v \in Worker : handling[v] = e => v = w
      BY <1>c, <2>4, HeldAlone
    <3>3. QED
      BY <1>c, <2>1, <2>2, <3>1, <3>2 DEF MailFlagged
  <2>5. QED
    BY <2>3, <2>4
<1>13. ASSUME NEW w \in Worker, NEW c \in Config,
              \/ HookSkip(w, c) \/ HookPost(w, c) \/ HookSent(w, c)
              \/ \E kind \in {"temporary", "permanent"} : HookFails(w, c, kind)
       PROVE  MailFlagged(e)'
  <2>1. UNCHANGED <<mails, lead, memory, copy, handling, step>>
    BY <1>13 DEF HookSkip, HookPost, HookSent, HookFails, turnVars, vars, workerVars, received
  <2>2. QED
    BY <1>3, <2>1
(* Turns and operators: only what they write to the row matters. *)
<1>14. ASSUME UNCHANGED <<mails, handling, handlerVars>>, Flag' <=> Flag,
              \A t \in Turn : LeadOf[t] = e /\ "sent" \in memory'[t] => "sent" \in memory[t] \/ Flag
       PROVE  MailFlagged(e)'
  BY <1>1, <1>14 DEF handlerVars
<1>15. ASSUME NEW t \in Turn, NEW active \in BOOLEAN, NEW paused \in BOOLEAN,
              Qualify(t, active, paused)
       PROVE  MailFlagged(e)'
  <2>1. UNCHANGED <<mails, handling, handlerVars, memory>>
    BY <1>15, OthersKeepHandlers DEF Qualify, received
  <2>2. PICK s, p : lead' = [lead EXCEPT ![LeadOf[t]] =
               [lead[LeadOf[t]] EXCEPT !.status = s, !.dispatch = p,
                  !.data = (lead[LeadOf[t]].data \ {"active"}) \cup {t}
                             \cup (IF active /\ ~paused THEN {"active"} ELSE {})]]
    BY <1>15, Zenon DEF Qualify
  <2>3. Flag' <=> Flag
    BY <2>2, <1>a, <1>e DEF Lead
  <2>4. QED
    BY <1>14, <2>1, <2>3
<1>16. ASSUME NEW t \in Turn, ReadMemory(t)
       PROVE  MailFlagged(e)'
  <2>1. /\ UNCHANGED <<mails, handling, handlerVars, lead>>
        /\ memory' = [memory EXCEPT ![t] = lead[LeadOf[t]].data]
    BY <1>16, OthersKeepHandlers DEF ReadMemory, received
  <2>2. \A u \in Turn : LeadOf[u] = e /\ "sent" \in memory'[u] => "sent" \in memory[u] \/ Flag
    BY <1>a, <2>1
  <2>3. QED
    BY <1>14, <2>1, <2>2
<1>17. ASSUME NEW t \in Turn, SaveMemory(t)
       PROVE  MailFlagged(e)'
  <2>1. /\ UNCHANGED <<mails, handling, handlerVars>>
        /\ memory' = [memory EXCEPT ![t] = {}]
        /\ lead' = [lead EXCEPT ![LeadOf[t]] = [lead[LeadOf[t]] EXCEPT !.data = memory[t] \cup {t}]]
        /\ LeadOf[t] = e /\ Flag => "sent" \in memory[t]
    BY <1>17, OthersKeepHandlers DEF SaveMemory, received
  <2>2. Flag' <=> Flag
    <3>1. CASE LeadOf[t] = e
      <4>1. lead'[e].data = memory[t] \cup {t}
        BY <1>a, <2>1, <3>1 DEF Lead
      <4>2. "sent" \in memory[t] => Flag
        BY <1>c, <3>1 DEF MailFlagged
      <4>3. QED
        BY <1>e, <2>1, <3>1, <4>1, <4>2
    <3>2. CASE LeadOf[t] # e
      BY <1>a, <2>1, <3>2
    <3>3. QED
      BY <3>1, <3>2
  <2>3. \A u \in Turn : LeadOf[u] = e /\ "sent" \in memory'[u] => "sent" \in memory[u]
    BY <1>a, <2>1
  <2>4. QED
    BY <1>14, <2>1, <2>2, <2>3
<1>18. ASSUME NEW f \in Event,
              \/ ClaimLost(f) \/ MarkFailed(f) \/ PortalExecute(f) \/ AdminExecute(f)
              \/ \E at \in {"portal", "admin"} : RetryCheck(f, at)
       PROVE  MailFlagged(e)'
  <2>1. UNCHANGED <<mails, handling, handlerVars, memory>>
    BY <1>18, OthersKeepHandlers DEF ClaimLost, MarkFailed, PortalExecute, AdminExecute, RetryCheck,
       received, turnVars
  <2>2. PICK s : lead' = lead \/ lead' = [lead EXCEPT ![f] = [lead[f] EXCEPT !.status = s]]
    BY <1>18 DEF ClaimLost, MarkFailed, PortalExecute, AdminExecute, RetryCheck
  <2>3. lead'[e].data = lead[e].data
    BY <1>a, <2>2 DEF Lead
  <2>4. QED
    BY <1>14, <2>1, <2>3
<1>19. CASE OutboxStep \/ UNCHANGED allVars
  <2>1. UNCHANGED <<handling, leadVars>>
    BY <1>19, OutboxStepKeepsHandling DEF allVars, vars, workerVars
  <2>2. QED
    BY <1>3, <2>1 DEF leadVars, handlerVars, received, turnVars
<1>20. QED
  BY <1>4, <1>5, <1>6, <1>7, <1>8, <1>9, <1>10, <1>11, <1>12, <1>13, <1>15, <1>16, <1>17,
     <1>18, <1>19, HeldCases DEF LeadNext, HandlerStep

LEMMA TracesStep ==
  TypeOK /\ LeadTypeOK /\ InHand /\ Structure /\ Traces /\ [LeadNext]_allVars => Traces'
<1> SUFFICES ASSUME TypeOK, LeadTypeOK, InHand, Structure, Traces, [LeadNext]_allVars
             PROVE  Traces'
  OBVIOUS
<1>1. Sole'
  BY SoleStep DEF Traces
<1>2. \A e \in Event : \A c \in Config : <<e, c>> \notin slips' => PostLogged(e, c)'
  BY PostsStep
<1>3. \A e \in Event : <<e, "mail">> \notin slips' /\ <<e, "flag">> \notin slips' => MailFlagged(e)'
  BY MailsStep
<1>4. QED
  BY <1>1, <1>2, <1>3 DEF Traces

(* Until something may excuse a repetition (slips), an event is its        *)
(* claimant's alone and each delivery has left the trace by which the next *)
(* attempt knows that it was made.                                         *)
THEOREM TracesHold == LeadSpec => []Traces
<1>1. LeadInit => Structure
  BY StructureInit DEF LeadInit
<1>2. TypeOK /\ Structure /\ [LeadNext]_allVars => Structure'
  BY StepInOutbox, StructureStep
<1>3. QED
  BY <1>1, <1>2, TracesInit, TracesStep, LeadTypesAndHands, PTL DEF LeadSpec

(* A second mail needs a crash or an SMTP error between the mail and its   *)
(* flag, a lost lock, or a turn that overwrote the flag                    *)
(* (LeadNotificationService.notify).                                       *)
THEOREM MailsRepeatForCause == LeadSpec => []MailRepeatsForCause
<1>1. LeadTypeOK /\ Traces => MailRepeatsForCause
  <2> SUFFICES ASSUME LeadTypeOK, Traces, NEW e \in Event, mails[e] > 1,
                      <<e, "mail">> \notin slips, <<e, "flag">> \notin slips
               PROVE  FALSE
    BY DEF MailRepeatsForCause
  <2>1. mails[e] \in 0..2
    BY DEF LeadTypeOK
  <2>2. MailFlagged(e)
    BY DEF Traces
  <2>3. QED
    BY <2>1, <2>2 DEF MailFlagged
<1>2. QED
  BY <1>1, LeadTypeCorrect, TracesHold, PTL

(* A webhook's receiver gets the event twice only for an error or a lost   *)
(* answer, a crash before the log, or a lost lock                          *)
(* (WebhookDispatchService._dispatch_to_config).                           *)
THEOREM PostsRepeatForCause == LeadSpec => []PostRepeatsForCause
<1>1. LeadTypeOK /\ Traces => PostRepeatsForCause
  <2> SUFFICES ASSUME LeadTypeOK, Traces, NEW e \in Event, NEW c \in Config,
                      posts[e][c] > 1, <<e, c>> \notin slips
               PROVE  FALSE
    BY DEF PostRepeatsForCause
  <2>1. posts[e][c] \in 0..2
    BY DEF LeadTypeOK
  <2>2. PostLogged(e, c)
    BY DEF Traces
  <2>3. QED
    BY <2>1, <2>2 DEF PostLogged
<1>2. QED
  BY <1>1, LeadTypeCorrect, TracesHold, PTL
=============================================================================
