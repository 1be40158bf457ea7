--------------------------- MODULE HandoffProofs ---------------------------
(***************************************************************************)
(* Theorems about HandoffDelivery, for any handoffs, conversations,        *)
(* workers, operators and deployments.                                     *)
(*                                                                         *)
(* Every step is a step of Outbox or leaves it alone.  That a success told *)
(* somebody rests on Evidence: a key in the row or in a copy, and what a   *)
(* handler believes it has done, stand for a mail or a webhook that went   *)
(* out.  That a mail repeats for a cause only rests on Keys: until its     *)
(* lock is lost, a handoff's handlers come one after the other and each    *)
(* finds the key of the one before.  OneActiveHandoff is inductive once a  *)
(* portal's form is known to hold an existing target.                      *)
(***************************************************************************)
EXTENDS HandoffDelivery, OutboxProofs

USE OutboxAssumption, HandoffAssumption

(* A handler at work has its event in hand; a portal's request has loaded  *)
(* a handoff and asks for a status that the form offers.                   *)
InHand == \A w \in Worker : step[w] # "none" => handling[w] \in Event

Forms ==
  \A o \in Operator : form[o] # NoForm =>
    form[o].handoff \in Event /\ form[o].target # "pending"

(* What has mails has an event; so has what is in a batch. *)
Enqueued ==
  /\ \A e \in Event : mails[e] > 0 => Exists(e)
  /\ \A w \in Worker : \A e \in batch[w] : Exists(e)

Real == settings.notify = "real"

(* Keys stand for mails in a real deployment, ... *)
KeysAreTrue ==
  Real => /\ \A e \in Event : handoff[e].key => mails[e] > 0
          /\ \A w \in Worker : step[w] # "none" /\ copy[w].key => mails[handling[w]] > 0

(* ... and so does what a handler believes. *)
Known(w) ==
  /\ step[w] = "mail_mark" => Real /\ mails[handling[w]] > 0
  /\ step[w] \in {"status", "hook", "dispatch", "return"} =>
       /\ note[w] = "told" => mails[handling[w]] > 0
       /\ Real => note[w] \in {"told", "missing"}
  /\ step[w] \in {"dispatch", "return"} =>
       /\ hook[w] = "sent" => handling[w] \in hook_taken
       /\ hook[w] # "none"

Evidence ==
  /\ KeysAreTrue
  /\ \A w \in Worker : Known(w)
  /\ SuccessToldSomeone
  /\ DeliveredWasTold

(* A mail that nothing excuses has its key, or is about to have it, and a  *)
(* handler that may still mail knows the row's key.                        *)
MailKeyed(e) ==
  /\ mails[e] > 0 =>
       /\ mails[e] = 1
       /\ handoff[e].key \/ \E w \in Worker : handling[w] = e /\ step[w] = "mail_mark"
  /\ \A w \in Worker :
       handling[w] = e /\ step[w] = "notify" /\ handoff[e].key => copy[w].key

Keys == \A e \in Event : e \notin slips => Held(e) /\ MailKeyed(e)

-----------------------------------------------------------------------------
LEMMA OutcomeType ==
  ASSUME NEW n, NEW h
  PROVE  HandlerOutcome(n, h) \in Outcome
BY DEF HandlerOutcome, Outcome

LEMMA StepInOutbox == [HandoffNext]_allVars => [Next]_vars
<1> SUFFICES ASSUME [HandoffNext]_allVars
             PROVE  [Next]_vars
  OBVIOUS
<1> USE DEF Next, WorkerStep
<1>1. CASE OutboxStep
  BY <1>1 DEF OutboxStep
<1>2. ASSUME NEW w \in Worker, NEW e \in Event, Load(w, e)
      PROVE  [Next]_vars
  BY <1>2 DEF Load
<1>3. ASSUME NEW w \in Worker, NEW e \in Event, Return(w, e)
      PROVE  [Next]_vars
  BY <1>3, OutcomeType DEF Return
<1>4. ASSUME NEW w \in Worker, NEW e \in Event, NEW taken \in BOOLEAN, MailFails(w, e, taken)
      PROVE  [Next]_vars
  BY <1>4 DEF MailFails, Outcome
<1>5. ASSUME NEW w \in Worker, HandlerStep(w),
             ~\E e \in Event : \/ Load(w, e) \/ Return(w, e)
                              \/ \E taken \in BOOLEAN : MailFails(w, e, taken)
      PROVE  UNCHANGED vars
  BY <1>5 DEF HandlerStep, NotifySkip, NotifyDryRun, MailSend, MailMark, MarkNotified, HookSkip,
     HookPost, SaveDispatch
<1>6. ASSUME NEW w \in Worker, WorkerCrash(w)
      PROVE  [Next]_vars
  BY <1>6 DEF WorkerCrash
<1>7. ASSUME NEW e \in Event, CreateHandoff(e) \/ ClaimLost(e)
      PROVE  [Next]_vars
  BY <1>7 DEF CreateHandoff, ClaimLost
<1>8. ASSUME NEW o \in Operator,
             PortalSave(o) \/ \E e \in Event, target \in HandoffStatus : PortalLoad(o, e, target)
      PROVE  UNCHANGED vars
  BY <1>8 DEF PortalSave, PortalLoad
<1>9. ASSUME NEW S \in SUBSET Event, NEW target \in Closed, AdminClose(S, target)
      PROVE  UNCHANGED vars
  BY <1>9 DEF AdminClose
<1>10. CASE UNCHANGED allVars
  BY <1>10 DEF allVars
<1>11. QED
  BY <1>1, <1>2, <1>3, <1>4, <1>5, <1>6, <1>7, <1>8, <1>9, <1>10 DEF HandoffNext

(* A handoff's delivery runs inside the outbox, whose retry budget,        *)
(* fencing and refinement of the ledger hold here too.                     *)
THEOREM RunsInOutbox == HandoffSpec => Spec
<1>1. HandoffInit => Init
  BY DEF HandoffInit
<1>2. QED
  BY <1>1, StepInOutbox, PTL DEF HandoffSpec, Spec

-----------------------------------------------------------------------------
LEMMA OutboxStepKeepsHandling == OutboxStep => UNCHANGED <<handling, handoffVars>>
BY DEF OutboxStep, RecoverAbandonedLocks, Claim, BackoffElapses, AdminSelect, workerVars

(* Turns, people and timeouts leave every handler where it is. *)
LEMMA OthersKeepHandlers ==
  ASSUME \/ \E e \in Event :
              \/ CreateHandoff(e) \/ ClaimLost(e)
              \/ \E o \in Operator, target \in HandoffStatus : PortalLoad(o, e, target)
         \/ \E o \in Operator : PortalSave(o)
         \/ \E S \in SUBSET Event, target \in Closed : AdminClose(S, target)
  PROVE  UNCHANGED <<handling, handlerVars>>
BY DEF CreateHandoff, ClaimLost, PortalLoad, PortalSave, AdminClose, Enqueue, AdminSave,
   LockTimeoutElapses, workerVars, vars

LEMMA InHandStep == TypeOK /\ HandoffTypeOK /\ InHand /\ [HandoffNext]_allVars => InHand'
<1> SUFFICES ASSUME TypeOK, HandoffTypeOK, InHand, [HandoffNext]_allVars
             PROVE  InHand'
  OBVIOUS
<1>a. /\ handling \in [Worker -> Event \cup {NoOne}]
      /\ step \in [Worker -> {"none", "notify", "mail_mark", "status", "hook", "dispatch",
                              "return"}]
  BY DEF TypeOK, HandoffTypeOK
<1> USE DEF InHand
<1>1. CASE OutboxStep
  BY <1>1, OutboxStepKeepsHandling DEF handoffVars, handlerVars
<1>2. ASSUME NEW w \in Worker, NEW e \in Event, Load(w, e)
      PROVE  InHand'
  BY <1>2, <1>a DEF Load, Handle
<1>3. ASSUME NEW w \in Worker, NEW e \in Event,
             Return(w, e) \/ \E taken \in BOOLEAN : MailFails(w, e, taken)
      PROVE  InHand'
  BY <1>3, <1>a DEF Return, MailFails, Forget, Finalize, FinalizeRejected, EndOfEvent
<1>4. ASSUME NEW w \in Worker, HandlerStep(w),
             ~\E e \in Event : \/ Load(w, e) \/ Return(w, e)
                              \/ \E taken \in BOOLEAN : MailFails(w, e, taken)
      PROVE  InHand'
  BY <1>4, <1>a DEF HandlerStep, NotifySkip, NotifyDryRun, MailSend, MailMark, MarkNotified,
     MayMail, HookSkip, HookPost, SaveDispatch, vars, workerVars
<1>5. ASSUME NEW w \in Worker, WorkerCrash(w)
      PROVE  InHand'
  BY <1>5, <1>a DEF WorkerCrash, Crash, Forget
<1>6. CASE UNCHANGED <<handling, handlerVars>>
  BY <1>6 DEF handlerVars
<1>7. CASE UNCHANGED allVars
  BY <1>6, <1>7 DEF allVars, vars, workerVars, handoffVars
<1>8. QED
  BY <1>1, <1>2, <1>3, <1>4, <1>5, <1>6, <1>7, OthersKeepHandlers DEF HandoffNext, HandlerStep

LEMMA RowType ==
  ASSUME NEW r \in Handoff
  PROVE  /\ r.status \in HandoffStatus /\ r.dispatch \in DispatchState /\ r.key \in BOOLEAN
         /\ [r EXCEPT !.key = TRUE] \in Handoff
         /\ \A s \in HandoffStatus : [r EXCEPT !.status = s] \in Handoff
         /\ \A d \in DispatchState : [r EXCEPT !.dispatch = d] \in Handoff
         /\ \A s \in HandoffStatus, d \in DispatchState :
              [r EXCEPT !.status = s, !.dispatch = d] \in Handoff
BY DEF Handoff

LEMMA NewRowType == NewHandoff \in Handoff
BY DEF NewHandoff, Handoff, HandoffStatus, DispatchState

LEMMA DispatchType ==
  ASSUME NEW n, NEW h
  PROVE  DispatchFor(n, h) \in DispatchState
BY DEF DispatchFor, DispatchState

(* No status leads back to pending. *)
LEMMA TransitionsType ==
  ASSUME NEW s
  PROVE  Transitions(s) \subseteq HandoffStatus \ {"pending"}
BY DEF Transitions, HandoffStatus

LEMMA OneMoreType ==
  ASSUME NEW n \in 0..2
  PROVE  OneMore(n) \in 0..2 /\ OneMore(n) > 0
BY DEF OneMore

LEMMA HandoffTypeInit == HandoffInit => HandoffTypeOK /\ Forms /\ InHand
BY NewRowType DEF HandoffInit, HandoffTypeOK, Forms, InHand, NoForm, HandoffStatus

LEMMA SetKeyType ==
  ASSUME HandoffTypeOK, NEW w \in Worker, SetKey(w)
  PROVE  (handoff \in [Event -> Handoff])' /\ (copy \in [Worker -> Handoff])'
<1> USE DEF HandoffTypeOK
<1>1. /\ handoff' = [handoff EXCEPT ![handling[w]] = [handoff[handling[w]] EXCEPT !.key = TRUE]]
      /\ copy' = [copy EXCEPT ![w] = [copy[w] EXCEPT !.key = TRUE]]
  BY DEF SetKey
<1>2. /\ \A e \in Event : [handoff[e] EXCEPT !.key = TRUE] \in Handoff
      /\ [copy[w] EXCEPT !.key = TRUE] \in Handoff
  BY RowType
<1>3. QED
  BY <1>1, <1>2

LEMMA HandoffTypeStep ==
  TypeOK /\ HandoffTypeOK /\ Forms /\ InHand /\ [HandoffNext]_allVars => HandoffTypeOK' /\ Forms'
<1> SUFFICES ASSUME TypeOK, HandoffTypeOK, Forms, InHand, [HandoffNext]_allVars
             PROVE  HandoffTypeOK' /\ Forms'
  OBVIOUS
<1> USE DEF HandoffTypeOK, Forms
<1>a. \A w \in Worker : step[w] # "none" => handling[w] \in Event
  BY DEF InHand
<1>1. CASE OutboxStep \/ UNCHANGED allVars
  BY <1>1 DEF OutboxStep, allVars, handoffVars, handlerVars, deskVars, told
<1>2. ASSUME NEW w \in Worker, NEW e \in Event, Load(w, e)
      PROVE  HandoffTypeOK' /\ Forms'
  BY <1>2 DEF Load, deskVars, told
<1>3. ASSUME NEW w \in Worker, NEW e \in Event, Return(w, e)
      PROVE  HandoffTypeOK' /\ Forms'
  BY <1>3, NewRowType DEF Return, Forget, deskVars, told
<1>4. ASSUME NEW w \in Worker, NEW e \in Event, NEW taken \in BOOLEAN, MailFails(w, e, taken)
      PROVE  HandoffTypeOK' /\ Forms'
  <2>1. (mails \in [Event -> 0..2])'
    BY <1>4, OneMoreType DEF MailFails
  <2>2. QED
    BY <1>4, <2>1, NewRowType DEF MailFails, Forget, deskVars
<1>5. ASSUME NEW w \in Worker, NEW result \in {"told", "simulated", "missing"}, NotifySkip(w, result)
      PROVE  HandoffTypeOK' /\ Forms'
  BY <1>5 DEF NotifySkip, deskVars, told
<1>6. ASSUME NEW w \in Worker, NotifyDryRun(w)
      PROVE  HandoffTypeOK' /\ Forms'
  BY <1>6, SetKeyType DEF NotifyDryRun, deskVars, told
<1>7. ASSUME NEW w \in Worker, MailSend(w)
      PROVE  HandoffTypeOK' /\ Forms'
  <2>1. (mails \in [Event -> 0..2])'
    BY <1>7, OneMoreType DEF MailSend
  <2>2. QED
    BY <1>7, <2>1 DEF MailSend, deskVars
<1>8. ASSUME NEW w \in Worker, MailMark(w)
      PROVE  HandoffTypeOK' /\ Forms'
  BY <1>8, SetKeyType DEF MailMark, deskVars, told
<1>9. ASSUME NEW w \in Worker, MarkNotified(w)
      PROVE  HandoffTypeOK' /\ Forms'
  <2>1. /\ handoff' = [handoff EXCEPT ![handling[w]] = [handoff[handling[w]] EXCEPT !.status = "sent"]]
        /\ copy' = [copy EXCEPT ![w] = [copy[w] EXCEPT !.status = "sent"]]
    BY <1>9 DEF MarkNotified
  <2>2. /\ \A e \in Event : [handoff[e] EXCEPT !.status = "sent"] \in Handoff
        /\ [copy[w] EXCEPT !.status = "sent"] \in Handoff
    BY RowType DEF HandoffStatus
  <2>3. (handoff \in [Event -> Handoff])' /\ (copy \in [Worker -> Handoff])'
    BY <2>1, <2>2
  <2>4. reopened' \subseteq Event
    BY <1>9, <1>a DEF MarkNotified, Reopens
  <2>5. QED
    BY <1>9, <2>3, <2>4 DEF MarkNotified, deskVars
<1>10. ASSUME NEW w \in Worker, HookSkip(w)
       PROVE  HandoffTypeOK' /\ Forms'
  BY <1>10, <1>a DEF HookSkip, deskVars, told
<1>11. ASSUME NEW w \in Worker, NEW answer \in {"sent", "temporary", "permanent"},
              HookPost(w, answer)
       PROVE  HandoffTypeOK' /\ Forms'
  BY <1>11, <1>a DEF HookPost, deskVars
<1>12. ASSUME NEW w \in Worker, SaveDispatch(w)
       PROVE  HandoffTypeOK' /\ Forms'
  <2> DEFINE d == DispatchFor(note[w], hook[w])
  <2>1. /\ handoff' = [handoff EXCEPT ![handling[w]] = [handoff[handling[w]] EXCEPT !.dispatch = d]]
        /\ copy' = [copy EXCEPT ![w] = [copy[w] EXCEPT !.dispatch = d]]
    BY <1>12 DEF SaveDispatch
  <2>2. d \in DispatchState
    BY DispatchType
  <2>3. /\ \A e \in Event : [handoff[e] EXCEPT !.dispatch = d] \in Handoff
        /\ [copy[w] EXCEPT !.dispatch = d] \in Handoff
    BY <2>2, RowType
  <2>4. (handoff \in [Event -> Handoff])' /\ (copy \in [Worker -> Handoff])'
    BY <2>1, <2>3
  <2>5. QED
    BY <1>12, <2>4 DEF SaveDispatch, deskVars, told
<1>13. ASSUME NEW w \in Worker, WorkerCrash(w)
       PROVE  HandoffTypeOK' /\ Forms'
  BY <1>13, <1>a, NewRowType DEF WorkerCrash, Forget, deskVars
<1>14. ASSUME NEW e \in Event, CreateHandoff(e) \/ ClaimLost(e)
       PROVE  HandoffTypeOK' /\ Forms'
  BY <1>14, NewRowType DEF CreateHandoff, ClaimLost, handlerVars, deskVars, told
<1>15. ASSUME NEW o \in Operator, NEW e \in Event, NEW target \in HandoffStatus,
              PortalLoad(o, e, target)
       PROVE  HandoffTypeOK' /\ Forms'
  <2>1. target # "pending"
    BY <1>15, TransitionsType DEF PortalLoad
  <2>2. QED
    BY <1>15, <2>1 DEF PortalLoad, handlerVars, told
<1>16. ASSUME NEW o \in Operator, PortalSave(o)
       PROVE  HandoffTypeOK' /\ Forms'
  <2> DEFINE e == form[o].handoff
             c == form[o].copy
             d == IF c.dispatch = "pending" THEN "delivered" ELSE c.dispatch
  <2>1. e \in Event /\ c \in Handoff /\ form[o].target \in HandoffStatus
    BY <1>16 DEF PortalSave
  <2>2. \/ handoff' = [handoff EXCEPT ![e] = [handoff[e] EXCEPT !.status = "sent", !.dispatch = d]]
        \/ handoff' = [handoff EXCEPT ![e] = [handoff[e] EXCEPT !.status = form[o].target]]
    <3>1. CASE form[o].target = "sent"
      <4>1. handoff' = [handoff EXCEPT ![e].status = "sent", ![e].dispatch = d]
        BY <1>16, <3>1 DEF PortalSave
      <4>2. QED
        BY <2>1, <4>1 DEF Handoff
    <3>2. CASE form[o].target # "sent"
      BY <1>16, <3>2 DEF PortalSave
    <3>3. QED
      BY <3>1, <3>2
  <2>3. d \in DispatchState
    BY <2>1, RowType DEF DispatchState
  <2>4. /\ [handoff[e] EXCEPT !.status = "sent", !.dispatch = d] \in Handoff
        /\ [handoff[e] EXCEPT !.status = form[o].target] \in Handoff
    BY <2>1, <2>3, RowType DEF HandoffStatus
  <2>5. (handoff \in [Event -> Handoff])'
    BY <2>2, <2>4
  <2>6. /\ form' = [form EXCEPT ![o] = NoForm]
        /\ by_hand' \subseteq Event /\ reopened' \subseteq Event
    BY <1>16, <2>1 DEF PortalSave, Reopens
  <2>7. NoForm \in [handoff : Event \cup {NoOne}, copy : Handoff, target : HandoffStatus]
    BY NewRowType DEF NoForm, HandoffStatus
  <2>8. QED
    BY <1>16, <2>5, <2>6, <2>7 DEF PortalSave, handlerVars
<1>17. ASSUME NEW S \in SUBSET Event, NEW target \in Closed, AdminClose(S, target)
       PROVE  HandoffTypeOK' /\ Forms'
  <2>1. \A e \in Event : [handoff[e] EXCEPT !.status = target] \in Handoff
    BY RowType DEF Closed, HandoffStatus
  <2>2. (handoff \in [Event -> Handoff])'
    BY <1>17, <2>1 DEF AdminClose
  <2>3. QED
    BY <1>17, <2>2 DEF AdminClose, handlerVars, told
<1> HIDE DEF HandoffTypeOK, Forms
<1>18. QED
  BY <1>1, <1>2, <1>3, <1>4, <1>5, <1>6, <1>7, <1>8, <1>9, <1>10, <1>11, <1>12, <1>13, <1>14,
     <1>15, <1>16, <1>17 DEF HandoffNext, HandlerStep

(* What the types rest on holds along with them, in every behaviour.       *)
THEOREM HandoffTypeCorrect == HandoffSpec => [](TypeOK /\ HandoffTypeOK /\ Forms /\ InHand)
<1>1. Init => TypeOK
  BY TypeInit
<1>2. TypeOK /\ [HandoffNext]_allVars => TypeOK'
  BY StepInOutbox, TypeStep
<1>3. HandoffInit => Init
  BY DEF HandoffInit
<1>4. QED
  BY <1>1, <1>2, <1>3, HandoffTypeInit, HandoffTypeStep, InHandStep, PTL DEF HandoffSpec

-----------------------------------------------------------------------------
(* What was delivered stays delivered; the deployment is what it was.      *)
LEMMA DeliveriesStay ==
  ASSUME HandoffTypeOK, InHand, [HandoffNext]_allVars
  PROVE  /\ settings' = settings
         /\ \A e \in Event : mails[e] > 0 => mails'[e] > 0
         /\ hook_taken \subseteq hook_taken'
         /\ by_hand \subseteq by_hand'
         /\ reopened \subseteq reopened'
         /\ slips \subseteq slips'
<1>a. mails \in [Event -> 0..2]
  BY DEF HandoffTypeOK
<1>1. ASSUME NEW e \in Event, mails' = [mails EXCEPT ![e] = OneMore(mails[e])]
      PROVE  \A f \in Event : mails[f] > 0 => mails'[f] > 0
  BY <1>1, <1>a, OneMoreType
<1>2. ASSUME NEW w \in Worker, HandlerStep(w)
      PROVE  \A f \in Event : mails[f] > 0 => mails'[f] > 0
  <2>1. CASE MailSend(w)
    BY <2>1, <1>1 DEF MailSend, MayMail, InHand
  <2>2. ASSUME NEW e \in Event, NEW taken \in BOOLEAN, MailFails(w, e, taken)
        PROVE  \A f \in Event : mails[f] > 0 => mails'[f] > 0
    <3>1. CASE taken
      BY <2>2, <3>1, <1>1 DEF MailFails
    <3>2. CASE ~taken
      BY <2>2, <3>2, <1>a DEF MailFails
    <3>3. QED
      BY <3>1, <3>2
  <2>3. CASE UNCHANGED mails
    BY <2>3
  <2>4. QED
    BY <1>2, <2>1, <2>2, <2>3 DEF HandlerStep, Load, Return, NotifySkip, NotifyDryRun, MailMark,
       MarkNotified, HookSkip, HookPost, SaveDispatch, told
<1>3. ASSUME NEW w \in Worker, HandlerStep(w)
      PROVE  UNCHANGED <<settings, by_hand>> /\ hook_taken \subseteq hook_taken'
               /\ reopened \subseteq reopened' /\ slips \subseteq slips'
  BY <1>3 DEF HandlerStep, Load, Return, MailFails, NotifySkip, NotifyDryRun, MailSend, MailMark,
     MarkNotified, Reopens, HookSkip, HookPost, SaveDispatch, told, deskVars
<1>4. ASSUME NEW w \in Worker, WorkerCrash(w)
      PROVE  UNCHANGED <<settings, mails, hook_taken, by_hand, reopened>> /\ slips \subseteq slips'
  BY <1>4 DEF WorkerCrash, deskVars
<1>5. ASSUME NEW e \in Event, CreateHandoff(e) \/ ClaimLost(e)
      PROVE  UNCHANGED <<settings, mails, hook_taken, by_hand, reopened>> /\ slips \subseteq slips'
  BY <1>5 DEF CreateHandoff, ClaimLost, deskVars, told
<1>6. ASSUME NEW o \in Operator,
             PortalSave(o) \/ \E e \in Event, target \in HandoffStatus : PortalLoad(o, e, target)
      PROVE  /\ UNCHANGED <<settings, mails, hook_taken, slips>>
             /\ by_hand \subseteq by_hand' /\ reopened \subseteq reopened'
  BY <1>6 DEF PortalSave, PortalLoad, Reopens, told
<1>7. ASSUME NEW S \in SUBSET Event, NEW target \in Closed, AdminClose(S, target)
      PROVE  UNCHANGED <<settings, told>>
  BY <1>7 DEF AdminClose
<1>8. CASE OutboxStep \/ UNCHANGED allVars
  BY <1>8 DEF OutboxStep, allVars, handoffVars, deskVars, told
<1> DEFINE Stay == /\ settings' = settings
                   /\ \A e \in Event : mails[e] > 0 => mails'[e] > 0
                   /\ hook_taken \subseteq hook_taken' /\ by_hand \subseteq by_hand'
                   /\ reopened \subseteq reopened' /\ slips \subseteq slips'
<1>9. ASSUME NEW w \in Worker, HandlerStep(w) \/ WorkerCrash(w)
      PROVE  Stay
  BY <1>2, <1>3, <1>4, <1>9
<1>10. (\E e \in Event : CreateHandoff(e) \/ ClaimLost(e)) => Stay
  BY <1>5
<1>11. ASSUME NEW o \in Operator,
              PortalSave(o) \/ \E e \in Event, target \in HandoffStatus : PortalLoad(o, e, target)
       PROVE  Stay
  BY <1>6, <1>11
<1>12. (\E S \in SUBSET Event, target \in Closed : AdminClose(S, target)) => Stay
  BY <1>7 DEF told
<1>13. OutboxStep \/ UNCHANGED allVars => Stay
  BY <1>8
<1> HIDE DEF Stay
<1>14. Stay
  BY <1>9, <1>10, <1>11, <1>12, <1>13 DEF HandoffNext
<1>15. QED
  BY <1>14 DEF Stay

(* The one way an event's status becomes succeeded. *)
LEMMA SuccessIsReturned ==
  ASSUME TypeOK, [HandoffNext]_allVars, NEW e \in Event,
         status'[e] = "succeeded", status[e] # "succeeded"
  PROVE  \E w \in Worker : Return(w, e) /\ HandlerOutcome(note[w], hook[w]) = "succeeded"
<1> USE DEF TypeOK
<1>1. CASE OutboxStep
  BY <1>1 DEF OutboxStep, RecoverAbandonedLocks, Claim, BackoffElapses, AdminSelect, eventVars
<1>2. ASSUME NEW w \in Worker, NEW f \in Event, NEW outcome \in Outcome,
             Finalize(w, f, outcome)
      PROVE  f = e /\ outcome = "succeeded"
  <2>1. FinalStatus(outcome, attempts[f] + 1) = "succeeded" => outcome = "succeeded"
    BY DEF FinalStatus, Outcome
  <2>2. QED
    BY <1>2, <2>1 DEF Finalize
<1>3. ASSUME NEW w \in Worker, NEW f \in Event, Return(w, f)
      PROVE  f = e /\ HandlerOutcome(note[w], hook[w]) = "succeeded"
  BY <1>2, <1>3, OutcomeType DEF Return, FinalizeRejected, eventVars
<1>4. ASSUME NEW w \in Worker, NEW f \in Event, NEW taken \in BOOLEAN, MailFails(w, f, taken)
      PROVE  FALSE
  <2>1. "retryable_failure" \in Outcome
    BY DEF Outcome
  <2>2. QED
    BY <1>2, <1>4, <2>1 DEF MailFails, FinalizeRejected, eventVars
<1>5. ASSUME NEW w \in Worker, HandlerStep(w),
             ~\E f \in Event : \/ Return(w, f) \/ \E taken \in BOOLEAN : MailFails(w, f, taken)
      PROVE  FALSE
  BY <1>5 DEF HandlerStep, Load, Handle, NotifySkip, NotifyDryRun, MailSend, MailMark,
     MarkNotified, HookSkip, HookPost, SaveDispatch, vars, eventVars
<1>6. ASSUME NEW w \in Worker, WorkerCrash(w)
      PROVE  FALSE
  BY <1>6 DEF WorkerCrash, Crash, eventVars
<1>7. ASSUME NEW f \in Event, CreateHandoff(f) \/ ClaimLost(f)
      PROVE  FALSE
  BY <1>7 DEF CreateHandoff, Enqueue, ClaimLost, LockTimeoutElapses, AdminSave, ManualRequeue
<1>8. ASSUME NEW o \in Operator,
             PortalSave(o) \/ \E f \in Event, target \in HandoffStatus : PortalLoad(o, f, target)
      PROVE  FALSE
  BY <1>8 DEF PortalSave, PortalLoad, vars, eventVars
<1>9. ASSUME NEW S \in SUBSET Event, NEW target \in Closed, AdminClose(S, target)
      PROVE  FALSE
  BY <1>9 DEF AdminClose, vars, eventVars
<1>10. CASE UNCHANGED allVars
  BY <1>10 DEF allVars, vars, eventVars
<1>11. ASSUME NEW w \in Worker, HandlerStep(w)
       PROVE  \E v \in Worker : Return(v, e) /\ HandlerOutcome(note[v], hook[v]) = "succeeded"
  BY <1>3, <1>4, <1>5, <1>11
<1> HIDE DEF TypeOK
<1>12. QED
  BY <1>1, <1>6, <1>7, <1>8, <1>9, <1>10, <1>11 DEF HandoffNext

LEMMA EvidenceInit == HandoffInit => Evidence
BY DEF HandoffInit, Init, Evidence, KeysAreTrue, Known, SuccessToldSomeone, DeliveredWasTold,
   NewHandoff

LEMMA EvidenceStep ==
  TypeOK /\ HandoffTypeOK /\ InHand /\ Evidence /\ [HandoffNext]_allVars => Evidence'
<1> SUFFICES ASSUME TypeOK, HandoffTypeOK, InHand, Evidence, [HandoffNext]_allVars
             PROVE  Evidence'
  OBVIOUS
<1>a. /\ step \in [Worker -> {"none", "notify", "mail_mark", "status", "hook", "dispatch",
                              "return"}]
      /\ note \in [Worker -> {"none", "told", "simulated", "missing"}]
      /\ hook \in [Worker -> {"none", "skipped", "sent", "temporary", "permanent"}]
      /\ handling \in [Worker -> Event \cup {NoOne}]
      /\ handoff \in [Event -> Handoff] /\ copy \in [Worker -> Handoff]
      /\ mails \in [Event -> 0..2]
  BY DEF HandoffTypeOK, TypeOK
<1>b. /\ \A w \in Worker : step[w] # "none" => handling[w] \in Event
      /\ KeysAreTrue /\ (\A w \in Worker : Known(w)) /\ SuccessToldSomeone /\ DeliveredWasTold
  BY DEF InHand, Evidence
<1>c. /\ Real' <=> Real
      /\ \A e \in Event : mails[e] > 0 => mails'[e] > 0
      /\ hook_taken \subseteq hook_taken'
      /\ by_hand \subseteq by_hand'
  BY DeliveriesStay DEF Real
<1>d. \A e \in Event : handoff[e].key \in BOOLEAN /\ handoff[e].dispatch \in DispatchState
  BY <1>a DEF Handoff
<1> DEFINE Told(e) == Real => mails'[e] > 0 \/ e \in hook_taken'
<1> DEFINE Same(v) == /\ handling'[v] = handling[v] /\ step'[v] = step[v]
                      /\ copy'[v].key = copy[v].key /\ note'[v] = note[v] /\ hook'[v] = hook[v]
           Sound(v) == /\ Known(v)'
                       /\ Real /\ step'[v] # "none" /\ copy'[v].key => mails'[handling'[v]] > 0
           Row(e) == /\ Real /\ handoff'[e].key => handoff[e].key \/ mails'[e] > 0
                     /\ handoff'[e].dispatch = "delivered" =>
                          \/ handoff[e].dispatch = "delivered" \/ mails'[e] > 0
                          \/ e \in hook_taken' \/ e \in by_hand'
(* A step that touches one handler, or none. *)
<1>1. ASSUME \A v \in Worker : Same(v) \/ Sound(v), \A e \in Event : Row(e),
             \A e \in Event : status'[e] = "succeeded" => status[e] = "succeeded" \/ Told(e)
      PROVE  Evidence'
  <2>1. KeysAreTrue'
    BY <1>1, <1>b, <1>c DEF KeysAreTrue
  <2>2. ASSUME NEW v \in Worker, Same(v)
        PROVE  Known(v)'
    BY <1>b, <1>c, <2>2 DEF Known
  <2>3. SuccessToldSomeone'
    BY <1>1, <1>b, <1>c DEF SuccessToldSomeone, Real
  <2>4. DeliveredWasTold'
    BY <1>1, <1>b, <1>c DEF DeliveredWasTold
  <2>5. QED
    BY <1>1, <2>1, <2>2, <2>3, <2>4 DEF Evidence
<1>2. ASSUME NEW e \in Event, status'[e] = "succeeded", status[e] # "succeeded"
      PROVE  Told(e)
  <2>1. PICK w \in Worker : Return(w, e) /\ HandlerOutcome(note[w], hook[w]) = "succeeded"
    BY <1>2, SuccessIsReturned
  <2>2. step[w] = "return" /\ handling[w] = e
    BY <2>1 DEF Return, Finalize, FinalizeRejected
  <2>3. note[w] # "missing" \/ hook[w] = "sent"
    BY <2>1 DEF HandlerOutcome
  <2>4. QED
    BY <1>b, <1>c, <2>2, <2>3 DEF Known
<1> HIDE DEF Told
<1>3. ASSUME UNCHANGED <<handling, handlerVars>>,
             \A e \in Event : /\ handoff'[e].key => handoff[e].key
                              /\ handoff'[e].dispatch = "delivered" =>
                                   handoff[e].dispatch = "delivered" \/ e \in by_hand'
      PROVE  Evidence'
  BY <1>1, <1>2, <1>3, <1>d DEF handlerVars
<1>4. ASSUME NEW w \in Worker, UNCHANGED handoff,
             \A v \in Worker \ {w} : /\ handling'[v] = handling[v] /\ step'[v] = step[v]
                                     /\ copy'[v] = copy[v] /\ note'[v] = note[v]
                                     /\ hook'[v] = hook[v],
             Known(w)', Real /\ step'[w] # "none" /\ copy'[w].key => mails'[handling'[w]] > 0
      PROVE  Evidence'
  BY <1>1, <1>2, <1>4, <1>d

<1>5. ASSUME NEW w \in Worker, NEW e \in Event, Load(w, e)
      PROVE  Evidence'
  <2>1. /\ handling' = [handling EXCEPT ![w] = e] /\ copy' = [copy EXCEPT ![w] = handoff[e]]
        /\ step' = [step EXCEPT ![w] = "notify"] /\ UNCHANGED <<handoff, note, hook>>
    BY <1>5 DEF Load, Handle
  <2>2. step'[w] = "notify" /\ handling'[w] = e /\ copy'[w] = handoff[e]
    BY <1>a, <2>1
  <2>3. Known(w)'
    BY <2>2 DEF Known
  <2>4. Real /\ copy'[w].key => mails'[handling'[w]] > 0
    BY <1>b, <1>c, <2>2 DEF KeysAreTrue
  <2>5. \A v \in Worker \ {w} : /\ handling'[v] = handling[v] /\ step'[v] = step[v]
                                /\ copy'[v] = copy[v] /\ note'[v] = note[v]
                                /\ hook'[v] = hook[v]
    BY <1>a, <2>1
  <2>6. QED
    BY <1>4, <2>1, <2>3, <2>4, <2>5
<1>6. ASSUME NEW w \in Worker,
             \/ WorkerCrash(w)
             \/ \E e \in Event : Return(w, e) \/ \E taken \in BOOLEAN : MailFails(w, e, taken)
      PROVE  Evidence'
  <2>1. /\ Forget(w) /\ UNCHANGED handoff
        /\ \E x : handling' = [handling EXCEPT ![w] = x]
    BY <1>6 DEF WorkerCrash, Return, MailFails, Crash, Finalize, FinalizeRejected, EndOfEvent
  <2>2. /\ step'[w] = "none"
        /\ \A v \in Worker \ {w} : /\ handling'[v] = handling[v] /\ step'[v] = step[v]
                                   /\ copy'[v] = copy[v] /\ note'[v] = note[v]
                                   /\ hook'[v] = hook[v]
    BY <1>a, <2>1 DEF Forget
  <2>3. Known(w)'
    BY <2>2 DEF Known
  <2>4. QED
    BY <1>4, <2>1, <2>2, <2>3
<1>7. ASSUME NEW w \in Worker, NEW result \in {"told", "simulated", "missing"},
             NotifySkip(w, result)
      PROVE  Evidence'
  <2>1. /\ step[w] = "notify" /\ UNCHANGED <<handling, copy, handoff, hook>>
        /\ note' = [note EXCEPT ![w] = result] /\ step' = [step EXCEPT ![w] = "hook"]
    BY <1>7 DEF NotifySkip, vars, workerVars
  <2>2. /\ result = "told" => Real /\ copy[w].key
        /\ Real => result \in {"told", "missing"}
    BY <1>7 DEF NotifySkip, AlreadySent, Real
  <2>3. step'[w] = "hook" /\ note'[w] = result /\ hook'[w] = hook[w]
    BY <1>a, <2>1
  <2>4. Known(w)' /\ (Real /\ copy'[w].key => mails'[handling'[w]] > 0)
    BY <1>b, <1>c, <2>1, <2>2, <2>3 DEF Known, KeysAreTrue
  <2>5. \A v \in Worker \ {w} : step'[v] = step[v] /\ note'[v] = note[v]
    BY <1>a, <2>1
  <2>6. QED
    BY <1>4, <2>1, <2>4, <2>5
<1>8. ASSUME NEW w \in Worker, SetKey(w), step[w] # "none", UNCHANGED <<handling, hook, status>>,
             step' = [step EXCEPT ![w] = step'[w]], note' = [note EXCEPT ![w] = note'[w]],
             Real => mails[handling[w]] > 0, Known(w)'
      PROVE  Evidence'
  <2>1. /\ handoff' = [handoff EXCEPT ![handling[w]] = [handoff[handling[w]] EXCEPT !.key = TRUE]]
        /\ copy' = [copy EXCEPT ![w] = [copy[w] EXCEPT !.key = TRUE]]
    BY <1>8 DEF SetKey
  <2>2. \A v \in Worker \ {w} : /\ handling'[v] = handling[v] /\ step'[v] = step[v]
                                /\ copy'[v].key = copy[v].key /\ note'[v] = note[v]
                                /\ hook'[v] = hook[v]
    BY <1>8, <1>a, <2>1
  <2>3. \A e \in Event : /\ Real /\ handoff'[e].key => handoff[e].key \/ mails'[e] > 0
                         /\ handoff'[e].dispatch = handoff[e].dispatch
    BY <1>8, <1>a, <1>b, <1>c, <2>1 DEF Handoff
  <2>4. /\ Known(w)'
        /\ Real /\ step'[w] # "none" /\ copy'[w].key => mails'[handling'[w]] > 0
    BY <1>8, <1>b, <1>c
  <2>5. QED
    BY <1>1, <1>8, <2>2, <2>3, <2>4
<1>9. ASSUME NEW w \in Worker, NotifyDryRun(w)
      PROVE  Evidence'
  <2>1. /\ SetKey(w) /\ step[w] = "notify" /\ UNCHANGED <<handling, hook, status>>
        /\ note' = [note EXCEPT ![w] = "simulated"] /\ step' = [step EXCEPT ![w] = "hook"]
        /\ ~Real
    BY <1>9 DEF NotifyDryRun, Real, vars, workerVars, eventVars
  <2>2. step'[w] = "hook" /\ note'[w] = "simulated"
    BY <1>a, <2>1
  <2>3. Known(w)'
    BY <1>c, <2>1, <2>2 DEF Known
  <2>4. QED
    BY <1>8, <2>1, <2>2, <2>3
<1>10. ASSUME NEW w \in Worker, MailSend(w)
       PROVE  Evidence'
  <2>1. /\ step[w] = "notify" /\ ~copy[w].key /\ Real
        /\ UNCHANGED <<handling, copy, handoff, note, hook>>
        /\ mails' = [mails EXCEPT ![handling[w]] = OneMore(mails[handling[w]])]
        /\ step' = [step EXCEPT ![w] = "mail_mark"]
    BY <1>10 DEF MailSend, MayMail, AlreadySent, Real, vars, workerVars
  <2>2. mails'[handling[w]] > 0 /\ step'[w] = "mail_mark"
    BY <1>a, <1>b, <2>1, OneMoreType
  <2>3. Known(w)'
    BY <1>c, <2>1, <2>2 DEF Known
  <2>4. \A v \in Worker \ {w} : step'[v] = step[v]
    BY <1>a, <2>1
  <2>5. QED
    BY <1>4, <2>1, <2>2, <2>3, <2>4
<1>11. ASSUME NEW w \in Worker, MailMark(w)
       PROVE  Evidence'
  <2>1. /\ SetKey(w) /\ step[w] = "mail_mark" /\ UNCHANGED <<handling, hook, status>>
        /\ note' = [note EXCEPT ![w] = "told"]
        /\ step' = [step EXCEPT ![w] = IF copy[w].status = "pending" THEN "status" ELSE "hook"]
    BY <1>11 DEF MailMark, vars, workerVars, eventVars
  <2>2. step'[w] \in {"status", "hook"} /\ note'[w] = "told"
    BY <1>a, <2>1
  <2>3. Real /\ mails[handling[w]] > 0
    BY <1>b, <2>1 DEF Known
  <2>4. Known(w)'
    BY <1>b, <1>c, <2>1, <2>2, <2>3 DEF Known
  <2>5. step' = [step EXCEPT ![w] = step'[w]]
    BY <1>a, <2>1
  <2>6. QED
    BY <1>8, <2>1, <2>2, <2>3, <2>4, <2>5
<1>12. ASSUME NEW w \in Worker, MarkNotified(w)
       PROVE  Evidence'
  <2>1. /\ step[w] = "status" /\ UNCHANGED <<handling, note, hook, status>>
        /\ handoff' = [handoff EXCEPT ![handling[w]] = [handoff[handling[w]] EXCEPT !.status = "sent"]]
        /\ copy' = [copy EXCEPT ![w] = [copy[w] EXCEPT !.status = "sent"]]
        /\ step' = [step EXCEPT ![w] = "hook"]
    BY <1>12 DEF MarkNotified, vars, workerVars, eventVars
  <2>2. /\ \A e \in Event : /\ handoff'[e].key = handoff[e].key
                            /\ handoff'[e].dispatch = handoff[e].dispatch
        /\ \A v \in Worker : copy'[v].key = copy[v].key
    BY <1>a, <1>b, <2>1 DEF Handoff
  <2>3. step'[w] = "hook" /\ \A v \in Worker \ {w} : step'[v] = step[v]
    BY <1>a, <2>1
  <2>4. Known(w)' /\ (Real /\ copy'[w].key => mails'[handling'[w]] > 0)
    BY <1>b, <1>c, <2>1, <2>2, <2>3 DEF Known, KeysAreTrue
  <2>5. QED
    BY <1>1, <2>1, <2>2, <2>3, <2>4
<1>13. ASSUME NEW w \in Worker, NEW answer \in {"skipped", "sent", "temporary", "permanent"},
              step[w] = "hook", UNCHANGED <<handling, copy, handoff, note>>,
              hook' = [hook EXCEPT ![w] = answer], step' = [step EXCEPT ![w] = "dispatch"],
              answer = "sent" => handling[w] \in hook_taken'
       PROVE  Evidence'
  <2>1. step'[w] = "dispatch" /\ hook'[w] = answer
    BY <1>a, <1>13
  <2>2. Known(w)' /\ (Real /\ copy'[w].key => mails'[handling'[w]] > 0)
    BY <1>b, <1>c, <1>13, <2>1 DEF Known, KeysAreTrue
  <2>3. \A v \in Worker \ {w} : step'[v] = step[v] /\ hook'[v] = hook[v]
    BY <1>a, <1>13
  <2>4. QED
    BY <1>4, <1>13, <2>2, <2>3
<1>14. ASSUME NEW w \in Worker,
              HookSkip(w) \/ \E answer \in {"sent", "temporary", "permanent"} : HookPost(w, answer)
       PROVE  Evidence'
  BY <1>13, <1>14 DEF HookSkip, HookPost, vars, workerVars
<1>15. ASSUME NEW w \in Worker, SaveDispatch(w)
       PROVE  Evidence'
  <2> DEFINE d == DispatchFor(note[w], hook[w])
  <2>1. /\ step[w] = "dispatch" /\ UNCHANGED <<handling, note, hook, status>>
        /\ handoff' = [handoff EXCEPT ![handling[w]] = [handoff[handling[w]] EXCEPT !.dispatch = d]]
        /\ copy' = [copy EXCEPT ![w] = [copy[w] EXCEPT !.dispatch = d]]
        /\ step' = [step EXCEPT ![w] = "return"]
    BY <1>15 DEF SaveDispatch, vars, workerVars, eventVars
  <2>2. d = "delivered" => hook[w] = "sent" \/ note[w] = "told"
    BY DEF DispatchFor
  <2>3. /\ \A e \in Event : /\ handoff'[e].key = handoff[e].key
                            /\ e # handling[w] => handoff'[e].dispatch = handoff[e].dispatch
        /\ handoff'[handling[w]].dispatch = d
        /\ \A v \in Worker : copy'[v].key = copy[v].key
    BY <1>a, <1>b, <2>1 DEF Handoff
  <2>4. step'[w] = "return" /\ \A v \in Worker \ {w} : step'[v] = step[v]
    BY <1>a, <2>1
  <2>5. Known(w)' /\ (Real /\ copy'[w].key => mails'[handling'[w]] > 0)
    BY <1>b, <1>c, <2>1, <2>3, <2>4 DEF Known, KeysAreTrue
  <2>6. d = "delivered" => mails'[handling[w]] > 0 \/ handling[w] \in hook_taken'
    BY <1>b, <1>c, <2>1, <2>2 DEF Known
  <2>7. \A e \in Event : handoff'[e].dispatch = "delivered" =>
          handoff[e].dispatch = "delivered" \/ mails'[e] > 0 \/ e \in hook_taken'
    BY <2>3, <2>6
  <2>8. QED
    BY <1>1, <2>1, <2>3, <2>4, <2>5, <2>7
<1>16. ASSUME NEW e \in Event, CreateHandoff(e) \/ ClaimLost(e)
       PROVE  Evidence'
  <2>1. UNCHANGED <<handling, handlerVars>>
    BY <1>16, OthersKeepHandlers
  <2>2. handoff' = handoff \/ handoff' = [handoff EXCEPT ![e] = NewHandoff]
    BY <1>16 DEF CreateHandoff, ClaimLost
  <2>3. QED
    BY <1>3, <1>a, <2>1, <2>2 DEF NewHandoff
<1>17. ASSUME NEW o \in Operator, PortalSave(o)
       PROVE  Evidence'
  <2>1. UNCHANGED <<handling, handlerVars>>
    BY <1>17, OthersKeepHandlers
  <2>2. \A e \in Event : /\ handoff'[e].key = handoff[e].key
                         /\ e \notin by_hand' => handoff'[e].dispatch = handoff[e].dispatch
    BY <1>17, <1>a DEF PortalSave, Handoff
  <2>3. QED
    BY <1>3, <2>1, <2>2
<1>18. ASSUME NEW S \in SUBSET Event, NEW target \in Closed, AdminClose(S, target)
       PROVE  Evidence'
  <2>1. UNCHANGED <<handling, handlerVars>>
    BY <1>18, OthersKeepHandlers
  <2>2. \A e \in Event : handoff'[e].key = handoff[e].key /\ handoff'[e].dispatch = handoff[e].dispatch
    BY <1>18, <1>a DEF AdminClose, Handoff
  <2>3. QED
    BY <1>3, <2>1, <2>2
<1>19. CASE OutboxStep \/ UNCHANGED allVars
       \/ \E o \in Operator, e \in Event, target \in HandoffStatus : PortalLoad(o, e, target)
  <2>1. UNCHANGED <<handling, handlerVars, handoff>>
    BY <1>19, OutboxStepKeepsHandling, OthersKeepHandlers
       DEF allVars, vars, workerVars, handoffVars, PortalLoad
  <2>2. QED
    BY <1>3, <2>1
<1>20. QED
  BY <1>5, <1>6, <1>7, <1>9, <1>10, <1>11, <1>12, <1>14, <1>15, <1>16, <1>17, <1>18, <1>19
     DEF HandoffNext, HandlerStep

(* What a running handler knows of the mail and of the webhook is true of  *)
(* what was mailed and posted, and so is a key, a success or a "delivered" *)
(* that rests on it.                                                       *)
THEOREM EvidenceHolds == HandoffSpec => []Evidence
BY HandoffTypeCorrect, EvidenceInit, EvidenceStep, PTL DEF HandoffSpec

(* Where mails are real, a handoff's event succeeds only when a mail left  *)
(* or the webhook's receiver took it (HandoffCreatedHandler.process).      *)
THEOREM SuccessTellsSomeone == HandoffSpec => []SuccessToldSomeone
<1>1. Evidence => SuccessToldSomeone
  BY DEF Evidence
<1>2. QED
  BY <1>1, EvidenceHolds, PTL

(* dispatch_state says delivered only of what was sent, or marked by hand. *)
THEOREM DeliveredIsTrue == HandoffSpec => []DeliveredWasTold
<1>1. Evidence => DeliveredWasTold
  BY DEF Evidence
<1>2. QED
  BY <1>1, EvidenceHolds, PTL

-----------------------------------------------------------------------------
(* Only a turn makes a handoff exist. *)
LEMMA OnlyTurnsCreate ==
  ASSUME TypeOK, SelectedExist, [HandoffNext]_allVars, NEW e \in Event,
         Exists(e)', ~Exists(e)
  PROVE  CreateHandoff(e)
<1> USE DEF TypeOK, Exists
<1>1. CASE OutboxStep
  BY <1>1 DEF OutboxStep, RecoverAbandonedLocks, Abandoned, Processing, Claim, Eligible,
     BackoffElapses, AdminSelect, eventVars
<1>2. ASSUME NEW w \in Worker, NEW f \in Event,
             (\E outcome \in Outcome : Finalize(w, f, outcome)) \/ FinalizeRejected(w, f)
      PROVE  FALSE
  BY <1>2 DEF Finalize, FinalizeRejected, MayFinalize, Processing, eventVars
<1>3. ASSUME NEW w \in Worker, NEW f \in Event,
             Return(w, f) \/ \E taken \in BOOLEAN : MailFails(w, f, taken)
      PROVE  FALSE
  BY <1>2, <1>3, OutcomeType DEF Return, MailFails, Outcome
<1>4. ASSUME NEW w \in Worker, HandlerStep(w),
             ~\E f \in Event : \/ Return(w, f) \/ \E taken \in BOOLEAN : MailFails(w, f, taken)
      PROVE  FALSE
  BY <1>4 DEF HandlerStep, Load, Handle, NotifySkip, NotifyDryRun, MailSend, MailMark,
     MarkNotified, HookSkip, HookPost, SaveDispatch, vars, eventVars
<1>5. ASSUME NEW w \in Worker, WorkerCrash(w)
      PROVE  FALSE
  BY <1>5 DEF WorkerCrash, Crash, eventVars
<1>6. ASSUME NEW f \in Event, CreateHandoff(f) \/ ClaimLost(f)
      PROVE  f = e /\ CreateHandoff(f)
  BY <1>6 DEF CreateHandoff, Enqueue, ClaimLost, LockTimeoutElapses, AdminSave, ManualRequeue,
     SelectedExist
<1>7. ASSUME \/ \E o \in Operator :
                  \/ PortalSave(o)
                  \/ \E f \in Event, target \in HandoffStatus : PortalLoad(o, f, target)
             \/ \E S \in SUBSET Event, target \in Closed : AdminClose(S, target)
             \/ UNCHANGED allVars
      PROVE  FALSE
  BY <1>7 DEF PortalSave, PortalLoad, AdminClose, allVars, vars, eventVars
<1>8. ASSUME NEW w \in Worker, HandlerStep(w)
      PROVE  FALSE
  BY <1>3, <1>4, <1>8
<1> HIDE DEF TypeOK, Exists
<1>9. QED
  BY <1>1, <1>5, <1>6, <1>7, <1>8 DEF HandoffNext

LEMMA EnqueuedInit == HandoffInit => Enqueued
BY DEF HandoffInit, Init, Enqueued

LEMMA EnqueuedStep ==
  TypeOK /\ HandoffTypeOK /\ InHand /\ Structure /\ Enqueued /\ [HandoffNext]_allVars => Enqueued'
<1> SUFFICES ASSUME TypeOK, HandoffTypeOK, InHand, Structure, Enqueued, [HandoffNext]_allVars
             PROVE  Enqueued'
  OBVIOUS
<1>a. mails \in [Event -> 0..2] /\ batch \in [Worker -> SUBSET Event]
  BY DEF HandoffTypeOK, TypeOK
<1>b. \A e \in Event : Exists(e) => Exists(e)'
  BY StepInOutbox, RowsStay DEF Exists
<1>1. ASSUME NEW e \in Event, mails'[e] > 0
      PROVE  Exists(e)
  <2>1. CASE mails[e] > 0
    BY <2>1 DEF Enqueued
  <2>2. ASSUME NEW w \in Worker, handling[w] = e, step[w] # "none"
        PROVE  Exists(e)
    BY <2>2 DEF Structure, Enqueued
  <2>3. ASSUME NEW w \in Worker, MailSend(w)
        PROVE  Exists(e) \/ mails[e] > 0
    BY <1>1, <1>a, <2>2, <2>3 DEF MailSend, MayMail
  <2>4. ASSUME NEW w \in Worker, NEW f \in Event, NEW taken \in BOOLEAN, MailFails(w, f, taken)
        PROVE  Exists(e) \/ mails[e] > 0
    <3>1. step[w] = "notify" /\ handling[w] = f
      BY <2>4 DEF MailFails, MayMail, Finalize, FinalizeRejected
    <3>2. mails' = mails \/ mails' = [mails EXCEPT ![f] = OneMore(mails[f])]
      BY <2>4, <1>a DEF MailFails
    <3>3. QED
      BY <1>1, <1>a, <2>2, <3>1, <3>2
  <2>5. CASE UNCHANGED mails
    BY <1>1, <2>1, <2>5
  <2>6. ASSUME NEW w \in Worker, HandlerStep(w)
        PROVE  Exists(e) \/ mails[e] > 0 \/ UNCHANGED mails
    BY <2>3, <2>4, <2>6 DEF HandlerStep, Load, Return, NotifySkip, NotifyDryRun, MailMark,
       MarkNotified, HookSkip, HookPost, SaveDispatch, told
  <2>7. QED
    BY <2>1, <2>5, <2>6 DEF HandoffNext, OutboxStep, WorkerCrash, CreateHandoff, ClaimLost,
       PortalLoad, PortalSave, AdminClose, allVars, handoffVars, told
<1>2. ASSUME NEW w \in Worker, NEW e \in batch'[w]
      PROVE  e \in Event /\ Exists(e)
  <2>1. e \in batch[w] \/ \E S \in SUBSET Event : e \in S /\ Claim(w, S)
    <3>1. [Next]_vars
      BY StepInOutbox
    <3>2. QED
      BY <1>2, <1>a, <3>1 DEF Next, WorkerStep, RecoverAbandonedLocks, Claim, Handle, Finalize,
         FinalizeRejected, EndOfEvent, Crash, Enqueue, LockTimeoutElapses, BackoffElapses,
         PortalRetry, AdminSelect, AdminSave, vars, workerVars
  <2>2. QED
    BY <1>a, <2>1 DEF Enqueued, Claim, Eligible, Exists
<1>3. QED
  BY <1>b, <1>1, <1>2 DEF Enqueued

LEMMA OneActiveStep ==
  TypeOK /\ HandoffTypeOK /\ Forms /\ InHand /\ SelectedExist /\ OneActiveHandoff
    /\ [HandoffNext]_allVars => OneActiveHandoff'
<1> SUFFICES ASSUME TypeOK, HandoffTypeOK, Forms, InHand, SelectedExist, OneActiveHandoff,
                    [HandoffNext]_allVars
             PROVE  OneActiveHandoff'
  OBVIOUS
<1>a. handoff \in [Event -> Handoff]
  BY DEF HandoffTypeOK
<1> DEFINE Open(e) == Exists(e) /\ handoff[e].status \notin Closed
(* A handoff opens only in a turn, or when a stale save reopens it. *)
<1>1. ASSUME NEW e \in Event, e \notin reopened', Open(e)', ~Open(e)
      PROVE  CreateHandoff(e)
  <2>1. CASE ~Exists(e)
    BY <1>1, <2>1, OnlyTurnsCreate
  <2>2. CASE Exists(e)
    <3>1. handoff[e].status \in Closed /\ handoff'[e].status \notin Closed
      BY <1>1, <2>2
    <3>2. ASSUME NEW w \in Worker, HandlerStep(w) \/ WorkerCrash(w)
          PROVE  FALSE
      <4>1. CASE MarkNotified(w)
        <5>1. handling[w] \in Event
          BY <4>1 DEF MarkNotified, InHand
        <5>2. handling[w] # e => handoff'[e] = handoff[e]
          BY <1>a, <4>1 DEF MarkNotified
        <5>3. QED
          BY <1>1, <3>1, <4>1, <5>1, <5>2 DEF MarkNotified, Reopens
      <4>2. CASE handoff'[e].status = handoff[e].status
        BY <3>1, <4>2
      <4>3. SetKey(w) \/ SaveDispatch(w) => handoff'[e].status = handoff[e].status
        BY <1>a DEF SetKey, SaveDispatch, Handoff
      <4>4. QED
        BY <3>2, <4>1, <4>2, <4>3 DEF HandlerStep, Load, Return, MailFails, NotifySkip,
           NotifyDryRun, MailSend, MailMark, HookSkip, HookPost, WorkerCrash
    <3>3. ASSUME NEW o \in Operator, PortalSave(o)
          PROVE  FALSE
      <4>1. form[o].handoff = e
        BY <1>a, <3>1, <3>3 DEF PortalSave
      <4>2. form[o].target \in {"sent"} \cup Closed
        BY <3>3 DEF PortalSave, Forms, HandoffTypeOK, HandoffStatus, Closed
      <4>3. CASE form[o].target = "sent"
        BY <1>1, <3>1, <3>3, <4>1, <4>3 DEF PortalSave, Reopens
      <4>4. CASE form[o].target # "sent"
        BY <1>a, <3>1, <3>3, <4>1, <4>2, <4>4 DEF PortalSave, Handoff
      <4>5. QED
        BY <4>3, <4>4
    <3>4. ASSUME NEW S \in SUBSET Event, NEW target \in Closed, AdminClose(S, target)
          PROVE  FALSE
      BY <1>a, <3>1, <3>4 DEF AdminClose, Handoff
    <3>5. ASSUME NEW f \in Event, CreateHandoff(f)
          PROVE  FALSE
      <4>1. f # e
        BY <2>2, <3>5 DEF CreateHandoff, Enqueue, Exists
      <4>2. QED
        BY <1>a, <3>1, <3>5, <4>1 DEF CreateHandoff
    <3>6. ~UNCHANGED handoff
      BY <3>1
    <3>7. QED
      BY <3>2, <3>3, <3>4, <3>5, <3>6
         DEF HandoffNext, OutboxStep, ClaimLost, PortalLoad, allVars, handoffVars
  <2>3. QED
    BY <2>1, <2>2
<1>2. ASSUME NEW e \in Event, NEW f \in Event, CreateHandoff(e), f # e, ConvOf[e] = ConvOf[f]
      PROVE  ~Open(f)'
  <2>1. ~Active(f)
    BY <1>2 DEF CreateHandoff
  <2>2. handoff[f].status \in HandoffStatus
    BY <1>a, RowType
  <2>3. Exists(f)' <=> Exists(f)
    BY <1>2 DEF CreateHandoff, Enqueue, Exists, TypeOK
  <2>4. handoff'[f] = handoff[f]
    BY <1>2, <1>a DEF CreateHandoff
  <2>5. QED
    BY <2>1, <2>2, <2>3, <2>4 DEF Active, ActiveStatuses, HandoffStatus, Closed
<1>3. reopened \subseteq reopened'
  BY DeliveriesStay
<1>4. OneActiveHandoff =
        \A e, f \in Event \ reopened : e # f /\ ConvOf[e] = ConvOf[f] => ~Open(e) \/ ~Open(f)
  BY DEF OneActiveHandoff
<1>5. OneActiveHandoff' =
        \A e, f \in Event \ reopened' : e # f /\ ConvOf[e] = ConvOf[f] => ~Open(e)' \/ ~Open(f)'
  BY DEF OneActiveHandoff
<1> HIDE DEF Open
<1>6. ASSUME NEW e \in Event \ reopened', NEW f \in Event \ reopened',
             e # f, ConvOf[e] = ConvOf[f], Open(e)', Open(f)'
      PROVE  FALSE
  <2>1. Open(e) /\ Open(f)
    BY <1>1, <1>2, <1>6
  <2>2. QED
    BY <1>3, <1>4, <1>6, <2>1
<1>7. QED
  BY <1>5, <1>6

(* A conversation has one active handoff: a turn creates one only when     *)
(* there is none (create_or_update_handoff), and only a save of stale data *)
(* brings a closed one back.                                               *)
THEOREM OneIsActive == HandoffSpec => []OneActiveHandoff
<1>1. HandoffInit => OneActiveHandoff /\ SelectedExist
  BY SelectedInit DEF HandoffInit, Init, OneActiveHandoff, Exists
<1>2. TypeOK /\ SelectedExist /\ [HandoffNext]_allVars => SelectedExist'
  BY SelectedStep, StepInOutbox
<1>3. QED
  BY <1>1, <1>2, HandoffTypeCorrect, OneActiveStep, PTL DEF HandoffSpec

-----------------------------------------------------------------------------
LEMMA KeysInit == HandoffInit => Keys
BY DEF HandoffInit, Init, Keys, Held, MailKeyed, NewHandoff

(* A handoff is held until it is among the slips. *)
LEMMA KeysHeldStep ==
  ASSUME TypeOK, HandoffTypeOK, InHand, Structure, Keys, [HandoffNext]_allVars,
         NEW e \in Event, e \notin slips'
  PROVE  Held(e)'
<1>1. e \notin slips /\ Held(e)
  BY DeliveriesStay DEF Keys
<1>2. CASE OutboxStep \/ UNCHANGED allVars
  <2>1. CASE \E f \in Event : BackoffElapses(f)
    BY <1>1, <2>1, HeldStep
  <2>2. CASE \E w \in Worker : RecoverAbandonedLocks(w) \/ \E S \in SUBSET Event : Claim(w, S)
    BY <1>1, <2>2, HeldStep
  <2>3. CASE UNCHANGED vars \/ \E a \in Admin, S \in SUBSET Event : AdminSelect(a, S)
    BY <1>1, <2>3, HeldStep
  <2>4. QED
    BY <1>2, <2>1, <2>2, <2>3 DEF OutboxStep, allVars
<1>3. ASSUME NEW w \in Worker, NEW f \in Event,
             \/ Load(w, f) \/ Return(w, f)
             \/ \E taken \in BOOLEAN : MailFails(w, f, taken)
      PROVE  Held(e)'
  <2>1. CASE Handle(w, f) \/ FinalizeRejected(w, f)
             \/ \E outcome \in Outcome : Finalize(w, f, outcome)
    BY <1>1, <2>1, HeldStep
  <2>2. QED
    BY <1>3, <2>1, OutcomeType DEF Load, Return, MailFails, Outcome
<1>4. ASSUME NEW w \in Worker, WorkerCrash(w)
      PROVE  Held(e)'
  BY <1>1, <1>4, HeldStep DEF WorkerCrash
<1>5. ASSUME NEW f \in Event, CreateHandoff(f)
      PROVE  Held(e)'
  BY <1>1, <1>5, HeldStep DEF CreateHandoff
<1>6. ASSUME NEW f \in Event, ClaimLost(f)
      PROVE  Held(e)'
  <2>1. \A w \in Worker : f = e => e \notin batch[w]
    BY <1>1, <1>6 DEF ClaimLost, Held
  <2>2. CASE LockTimeoutElapses(f)
    BY <1>1, <2>1, <2>2 DEF Held, LockTimeoutElapses, Processing, TypeOK, workerVars
  <2>3. ASSUME NEW a \in Admin, AdminSave(a, f)
        PROVE  Held(e)'
    BY <1>1, <2>1, <2>3 DEF Held, AdminSave, ManualRequeue, Processing, TypeOK, workerVars
  <2>4. QED
    BY <1>6, <2>2, <2>3 DEF ClaimLost
<1>7. CASE UNCHANGED vars
  BY <1>1, <1>7, HeldStep
<1>8. ASSUME NEW w \in Worker, HandlerStep(w)
      PROVE  Held(e)'
  BY <1>3, <1>7, <1>8 DEF HandlerStep, NotifySkip, NotifyDryRun, MailSend, MailMark, MarkNotified,
     HookSkip, HookPost, SaveDispatch
<1>9. QED
  BY <1>2, <1>4, <1>5, <1>6, <1>7, <1>8 DEF HandoffNext, PortalLoad, PortalSave, AdminClose

LEMMA KeysMailStep ==
  ASSUME TypeOK, HandoffTypeOK, InHand, Structure, Enqueued, Keys, [HandoffNext]_allVars,
         NEW e \in Event, e \notin slips'
  PROVE  MailKeyed(e)'
<1>a. /\ step \in [Worker -> {"none", "notify", "mail_mark", "status", "hook", "dispatch",
                              "return"}]
      /\ handling \in [Worker -> Event \cup {NoOne}]
      /\ handoff \in [Event -> Handoff] /\ copy \in [Worker -> Handoff]
      /\ mails \in [Event -> 0..2]
  BY DEF HandoffTypeOK, TypeOK
<1>b. \A w \in Worker : step[w] # "none" => handling[w] \in Event
  BY DEF InHand
<1>c. e \notin slips /\ Held(e) /\ MailKeyed(e)
  BY DeliveriesStay DEF Keys
<1> DEFINE Same(v) == handling'[v] = handling[v] /\ step'[v] = step[v] /\ copy'[v].key = copy[v].key
           Past(v) == step'[v] \notin {"notify", "mail_mark"}
(* A step that neither mails nor marks; w, if it moved, has no mail to mark. *)
<1>1. ASSUME \A v \in Worker : Same(v) \/ (Past(v) /\ ~(handling[v] = e /\ step[v] = "mail_mark")),
             mails'[e] = mails[e], handoff'[e].key = handoff[e].key
      PROVE  MailKeyed(e)'
  BY <1>1, <1>c DEF MailKeyed
<1>2. ASSUME UNCHANGED <<handling, handlerVars, mails>>, handoff'[e].key = handoff[e].key
      PROVE  MailKeyed(e)'
  BY <1>1, <1>2 DEF handlerVars
<1>3. ASSUME NEW w \in Worker, NEW f \in Event, Load(w, f)
      PROVE  MailKeyed(e)'
  <2>1. /\ handling' = [handling EXCEPT ![w] = f] /\ copy' = [copy EXCEPT ![w] = handoff[f]]
        /\ step' = [step EXCEPT ![w] = "notify"] /\ UNCHANGED <<handoff, mails>>
        /\ handling[w] = NoOne
    BY <1>3 DEF Load, Handle, told
  <2>2. /\ step'[w] = "notify" /\ handling'[w] = f /\ copy'[w] = handoff[f]
        /\ \A v \in Worker \ {w} : Same(v)
    BY <1>a, <2>1
  <2>3. handling[w] # e
    BY <2>1
  <2>4. QED
    BY <1>c, <2>1, <2>2, <2>3 DEF MailKeyed
<1>4. ASSUME NEW w \in Worker,
             \/ WorkerCrash(w)
             \/ \E f \in Event : Return(w, f) \/ \E taken \in BOOLEAN : MailFails(w, f, taken)
      PROVE  MailKeyed(e)'
  <2>1. /\ Forget(w) /\ UNCHANGED handoff
        /\ \E x : handling' = [handling EXCEPT ![w] = x]
    BY <1>4 DEF WorkerCrash, Return, MailFails, Crash, Finalize, FinalizeRejected, EndOfEvent
  <2>2. /\ step'[w] = "none" /\ \A v \in Worker \ {w} : Same(v)
    BY <1>a, <2>1 DEF Forget
  <2>3. ~(handling[w] = e /\ step[w] = "mail_mark")
    BY <1>4 DEF WorkerCrash, Return, MailFails, MayMail
  <2>4. mails'[e] = mails[e]
    <3>1. ASSUME NEW f \in Event, NEW taken \in BOOLEAN, MailFails(w, f, taken)
          PROVE  mails'[e] = mails[e]
      BY <3>1, <1>a DEF MailFails
    <3>2. QED
      BY <1>4, <3>1 DEF WorkerCrash, Return, told
  <2>5. QED
    BY <1>1, <2>1, <2>2, <2>3, <2>4
<1>5. ASSUME NEW w \in Worker,
             \/ \E result \in {"told", "simulated", "missing"} : NotifySkip(w, result)
             \/ HookSkip(w)
             \/ \E answer \in {"sent", "temporary", "permanent"} : HookPost(w, answer)
      PROVE  MailKeyed(e)'
  <2>1. /\ UNCHANGED <<handling, copy, handoff, mails>> /\ step[w] \in {"notify", "hook"}
        /\ step' = [step EXCEPT ![w] = "hook"] \/ step' = [step EXCEPT ![w] = "dispatch"]
    BY <1>5 DEF NotifySkip, HookSkip, HookPost, vars, workerVars, told
  <2>2. step'[w] \in {"hook", "dispatch"} /\ \A v \in Worker \ {w} : Same(v)
    BY <1>a, <2>1
  <2>3. QED
    BY <1>1, <2>1, <2>2
<1>6. ASSUME NEW w \in Worker, MarkNotified(w) \/ SaveDispatch(w)
      PROVE  MailKeyed(e)'
  <2>1. /\ UNCHANGED <<handling, mails>> /\ step[w] \in {"status", "dispatch"}
        /\ step' = [step EXCEPT ![w] = "hook"] \/ step' = [step EXCEPT ![w] = "return"]
    BY <1>6 DEF MarkNotified, SaveDispatch, vars, workerVars, told
  <2>2. handoff'[e].key = handoff[e].key /\ \A v \in Worker : copy'[v].key = copy[v].key
    <3>1. CASE MarkNotified(w)
      BY <3>1, <1>a, <1>b DEF MarkNotified, Handoff
    <3>2. CASE SaveDispatch(w)
      BY <3>2, <1>a, <1>b DEF SaveDispatch, Handoff
    <3>3. QED
      BY <1>6, <3>1, <3>2
  <2>3. step'[w] \in {"hook", "return"} /\ \A v \in Worker \ {w} : Same(v)
    BY <1>a, <2>1, <2>2
  <2>4. QED
    BY <1>1, <2>1, <2>2, <2>3
<1>7. ASSUME NEW w \in Worker, NotifyDryRun(w) \/ MailMark(w)
      PROVE  MailKeyed(e)'
  <2>1. /\ UNCHANGED <<handling, mails>> /\ step[w] \in {"notify", "mail_mark"}
        /\ \E s \in {"status", "hook"} : step' = [step EXCEPT ![w] = s]
        /\ handoff' = [handoff EXCEPT ![handling[w]] = [handoff[handling[w]] EXCEPT !.key = TRUE]]
        /\ copy' = [copy EXCEPT ![w] = [copy[w] EXCEPT !.key = TRUE]]
    BY <1>7 DEF NotifyDryRun, MailMark, SetKey, vars, workerVars, told
  <2>2. step'[w] \in {"status", "hook"} /\ \A v \in Worker \ {w} : Same(v)
    BY <1>a, <2>1
  <2>3. CASE handling[w] # e
    <3>1. handoff'[e] = handoff[e]
      BY <1>a, <2>1, <2>3
    <3>2. QED
      BY <1>1, <2>1, <2>2, <2>3, <3>1
  <2>4. CASE handling[w] = e
    <3>1. handoff'[e].key
      BY <1>a, <2>1, <2>4 DEF Handoff
    <3>2. \A v \in Worker : handling[v] = e => v = w
      BY <1>c, <2>4, HeldAlone
    <3>3. QED
      BY <1>c, <2>1, <2>2, <3>1, <3>2 DEF MailKeyed
  <2>5. QED
    BY <2>3, <2>4
<1>8. ASSUME NEW w \in Worker, MailSend(w)
      PROVE  MailKeyed(e)'
  <2>1. /\ UNCHANGED <<handling, copy, handoff>> /\ step[w] = "notify" /\ ~copy[w].key
        /\ step' = [step EXCEPT ![w] = "mail_mark"]
        /\ mails' = [mails EXCEPT ![handling[w]] = OneMore(mails[handling[w]])]
    BY <1>8 DEF MailSend, MayMail, AlreadySent, vars, workerVars
  <2>2. step'[w] = "mail_mark" /\ \A v \in Worker \ {w} : Same(v)
    BY <1>a, <2>1
  <2>3. CASE handling[w] # e
    <3>1. mails'[e] = mails[e]
      BY <1>a, <2>1, <2>3
    <3>2. QED
      BY <1>c, <2>1, <2>2, <2>3, <3>1 DEF MailKeyed
  <2>4. CASE handling[w] = e
    <3>1. ~handoff[e].key
      BY <1>c, <2>1, <2>4 DEF MailKeyed
    <3>2. \A v \in Worker : ~(handling[v] = e /\ step[v] = "mail_mark")
      BY <1>c, <2>1, <2>4, HeldAlone
    <3>3. mails[e] = 0
      BY <1>a, <1>c, <3>1, <3>2 DEF MailKeyed
    <3>4. mails'[e] = 1
      BY <1>a, <2>1, <2>4, <3>3 DEF OneMore
    <3>5. QED
      BY <1>c, <2>1, <2>2, <2>4, <3>1, <3>4 DEF MailKeyed
  <2>5. QED
    BY <2>3, <2>4
<1>9. ASSUME NEW f \in Event, CreateHandoff(f)
      PROVE  MailKeyed(e)'
  <2>1. /\ UNCHANGED <<handling, handlerVars, mails>> /\ ~Exists(f)
        /\ handoff' = [handoff EXCEPT ![f] = NewHandoff]
    BY <1>9, OthersKeepHandlers DEF CreateHandoff, Enqueue, Exists, told
  <2>2. CASE f # e
    BY <1>2, <1>a, <2>1, <2>2
  <2>3. CASE f = e
    <3>1. mails[e] = 0
      BY <1>a, <2>1, <2>3 DEF Enqueued
    <3>2. ~handoff'[e].key
      BY <1>a, <2>1, <2>3 DEF NewHandoff
    <3>3. QED
      BY <2>1, <3>1, <3>2 DEF MailKeyed
  <2>4. QED
    BY <2>2, <2>3
<1>10. ASSUME \/ \E f \in Event : ClaimLost(f)
              \/ \E o \in Operator :
                   \/ PortalSave(o)
                   \/ \E f \in Event, target \in HandoffStatus : PortalLoad(o, f, target)
              \/ \E S \in SUBSET Event, target \in Closed : AdminClose(S, target)
       PROVE  MailKeyed(e)'
  <2>1. UNCHANGED <<handling, handlerVars, mails>>
    BY <1>10, OthersKeepHandlers DEF ClaimLost, PortalSave, PortalLoad, AdminClose, told
  <2>2. handoff'[e].key = handoff[e].key
    <3>1. ASSUME NEW o \in Operator, PortalSave(o)
          PROVE  handoff'[e].key = handoff[e].key
      BY <3>1, <1>a DEF PortalSave, Handoff
    <3>2. ASSUME NEW S \in SUBSET Event, NEW target \in Closed, AdminClose(S, target)
          PROVE  handoff'[e].key = handoff[e].key
      BY <3>2, <1>a DEF AdminClose, Handoff
    <3>3. QED
      BY <1>10, <3>1, <3>2 DEF ClaimLost, PortalLoad
  <2>3. QED
    BY <1>2, <2>1, <2>2
<1>11. CASE OutboxStep \/ UNCHANGED allVars
  <2>1. UNCHANGED <<handling, handoffVars>>
    BY <1>11, OutboxStepKeepsHandling DEF allVars, vars, workerVars
  <2>2. QED
    BY <1>2, <2>1 DEF handoffVars, told
<1>12. QED
  BY <1>3, <1>4, <1>5, <1>6, <1>7, <1>8, <1>9, <1>10, <1>11 DEF HandoffNext, HandlerStep

(* Until something may excuse a repetition, an event is its claimant's     *)
(* alone and a handoff whose mail left carries the notification's key, or  *)
(* is about to.                                                            *)
THEOREM KeysHold == HandoffSpec => []Keys
<1>1. HandoffInit => Structure
  BY StructureInit DEF HandoffInit
<1>2. TypeOK /\ Structure /\ [HandoffNext]_allVars => Structure'
  BY StepInOutbox, StructureStep
<1>3. TypeOK /\ HandoffTypeOK /\ InHand /\ Structure /\ Enqueued /\ Keys /\ [HandoffNext]_allVars
        => Keys'
  BY KeysHeldStep, KeysMailStep DEF Keys
<1>4. QED
  BY <1>1, <1>2, <1>3, EnqueuedInit, EnqueuedStep, KeysInit, HandoffTypeCorrect, PTL
     DEF HandoffSpec

(* A handoff is mailed twice only for a crash or an SMTP error between the *)
(* mail and its key, or a lost lock: turns and operators cannot cause it   *)
(* (HandoffNotificationService.notify).                                    *)
THEOREM MailsRepeatForCause == HandoffSpec => []MailRepeatsForCause
<1>1. HandoffTypeOK /\ Keys => MailRepeatsForCause
  <2> SUFFICES ASSUME HandoffTypeOK, Keys, NEW e \in Event, mails[e] > 1, e \notin slips
               PROVE  FALSE
    BY DEF MailRepeatsForCause
  <2>1. mails[e] \in 0..2
    BY DEF HandoffTypeOK
  <2>2. MailKeyed(e)
    BY DEF Keys
  <2>3. QED
    BY <2>1, <2>2 DEF MailKeyed
<1>2. QED
  BY <1>1, HandoffTypeCorrect, KeysHold, PTL
=============================================================================
