--------------------------- MODULE ConversationTurn ---------------------------
(* Livia's turns in one conversation: services/chat_processing.py around     *)
(* LiviaDecisionService.generate_reply of services/livia_decision.py.        *)
(*                                                                           *)
(* A turn reads the dialogue memory without a lock, retrieves knowledge, and *)
(* then decides, captures and persists in one transaction under the          *)
(* conversation's lock; when the tenant's AI words the replies, it may       *)
(* rewrite the reply afterwards, again without the lock.  Two turns of one   *)
(* conversation may cross.  What the wording of a reply decides (whether it  *)
(* asks, whether the evidence is enough for an offer) is any.                *)
(*                                                                           *)
(* The outbox's worker and the portal move the lead and the handoff on       *)
(* (LeadDelivery and HandoffDelivery have what they do).                     *)
EXTENDS LeadQualification

CONSTANTS
  Worker,   \* the requests of this conversation handled at the same time
  UsesAI,   \* the tenant's replies are worded by the AI
  MaxTurns  \* bound: turns begun

ASSUME TurnAssumption ==
  /\ IsFiniteSet(Worker)
  /\ UsesAI \in BOOLEAN
  /\ MaxTurns \in Nat

VARIABLES
  conv,     \* the Conversation row
  lead,     \* its LeadDraft row
  handoff,  \* its last HandoffRequest: "none", "active" or "closed"
  events,   \* the outbox events enqueued for it
  said,     \* the visitor's messages of its history
  last,     \* the last of them
  asks,     \* its last reply asks something, and is not the offer
  answered, \* the worker of that reply
  turn,     \* what each worker holds
  turns,    \* turns begun
  turned,   \* turns committed, at most 2 are told apart
  word,     \* history: the visitor's last word on contact, "asked" or "refused",
            \* when no other turn crossed the one that heard it, else "none"
  reopened  \* history: a rewording has restored the flags of a collection that
            \* another turn had paused

rows == <<conv, lead, handoff, events>>
history == <<said, last, turned>>
heard == <<word, reopened>>
turnVars == <<rows, history, asks, answered, turn, turns, heard>>

(* What a reply may be: a question; a text that answers from the evidence,   *)
(* and asks nothing; anything else.                                          *)
Wording == {"asks", "guides", "plain"}

-------------------------------------------------------------------------------

(* The work of one transaction, in the order of its stages.  s has the rows  *)
(* (conv, lead, handoff, events) as the stage finds them, the inputs (m, kb, *)
(* said, last, asked, turned, wording), the handler that answers, the text   *)
(* it qualifies, and what the reply is.                                      *)
(* resolve_offer_response: a bare yes accepts unless the last reply asked. *)
OfferAnswer(s) ==
  IF s.lead.data.offer # "pending" THEN ""
  ELSE IF Trigger(s.m) THEN "accepted"
  ELSE IF "no" \in Says[s.m] THEN "declined"
  ELSE IF "register" \in Says[s.m] THEN "accepted"
  ELSE IF "yes" \in Says[s.m] /\ ~s.asked THEN "accepted"
  ELSE ""

(* The passive capture, then the answer to the offer: one accepted without a *)
(* trigger is qualified with an empty message.                               *)
Settled(s, answer) ==
  [s EXCEPT !.lead = IF answer = "" THEN CapturedPassively(@, s.m)
                     ELSE [CapturedPassively(@, s.m) EXCEPT !.data.offer = answer],
            !.action = IF answer = "accepted" /\ Trigger(s.m) THEN "" ELSE answer,
            !.text = IF answer = "accepted" /\ ~Trigger(s.m) THEN Silence ELSE s.m]

(* The commercial intents that do not open a collection: a question about    *)
(* the need comes first when the profile, the evidence or a vague message    *)
(* call for it.                                                              *)
AsksNeed(s) ==
  /\ ~(s.kb /\ InformationalQuery(s.m))
  /\ \/ "shaped" \in Says[s.m]
     \/ /\ s.kb /\ s.conv.state \in {"discovery", "collect_need"}
        /\ "specs" \notin Says[s.m]
     \/ /\ Discovery[s.m].asks /\ ~Discovery[s.m].answers
        /\ "few" \in Says[s.m]

(* generate_reply, when the offer was not answered: which handler answers.   *)
Handler(s) ==
  IF s.kind = "other" /\ Collects(s.conv, s.lead, s.m) THEN "qualifies"
  ELSE IF s.kind = "name_deferred" THEN "defers"
  ELSE IF s.kind # "other" THEN "context"
  ELSE IF CollectionOpen(s.conv, s.lead) /\ KnowledgeTurn(s.m) THEN "consults"
  ELSE IF Discovery[s.m].intent = "greeting" THEN "greets"
  ELSE IF Discovery[s.m].intent \in {"technical_question", "support_request"}
       THEN "replies"
  ELSE IF Discovery[s.m].intent \in {"quote_request", "commercial_interest"}
       THEN (IF AsksNeed(s) THEN "asks" ELSE "consults")
  ELSE IF Discovery[s.m].intent = "contact_data"
       THEN (IF Gives[s.m] # {} /\ Discovery[s.m].commercial THEN "consults" ELSE "replies")
  ELSE IF "brief" \in Says[s.last] THEN "replies"
  ELSE IF KnowledgeTurn(s.m) THEN "consults"
  ELSE "replies"

(* _handle_consultative_conversation informs, and hands nothing over, when   *)
(* the turn is about knowledge.                                              *)
Informs(s) ==
  LET lockedNeed == (s.conv.qualified \/ s.conv.state = "qualified") /\ NeedDiscovery(s.m)
  IN \/ CollectionOpen(s.conv, s.lead) /\ KnowledgeTurn(s.m)
     \/ /\ "knowledge" \in Says[s.m] \/ Discovery[s.m].product \/ lockedNeed
        /\ ~Discovery[s.m].collects

(* One who declines pauses the collection whichever handler answers, unless  *)
(* the lead is locked.                                                       *)
Paused(s) ==
  [s EXCEPT !.kind = TurnKind(s.conv, s.lead, s.said, s.m),
            !.lead.data =
               IF s.action = "" /\ Exists(s.lead) /\ Declines(s.m) /\ ~Blocked(s.conv, s.m, s.m)
               THEN PausedBy(@) ELSE @]

(* The handler that answers, and whether a collection is open when it starts. *)
Routed(s) ==
  [s EXCEPT !.open = CollectionOpen(s.conv, s.lead),
            !.handler =
              IF s.action = "declined" THEN "declined"
              ELSE IF Blocked(s.conv, s.text, s.m) THEN "locked"
              ELSE IF s.action = "accepted" THEN "qualifies"
              ELSE IF Handler(s) # "consults" THEN Handler(s)
              ELSE IF Informs(s) THEN "informs"
              ELSE "consults"]

-------------------------------------------------------------------------------

(* The handlers that qualify their message and pass the lead on to the       *)
(* handoff; informing qualifies it too while a collection is open.           *)
PassesLead == {"qualifies", "context", "defers", "consults"}
Capturing(s) == s.handler \in PassesLead \/ (s.handler = "informs" /\ s.open)

(* _handle_qualification opens the collection before it captures. *)
Qualifies(s) ==
  IF s.handler = "qualifies"
  THEN [s EXCEPT !.lead = Qualify([Created(s.lead) EXCEPT !.data = Opened(@, TRUE)],
                                  s.said, s.text)]
  ELSE IF Capturing(s) THEN [s EXCEPT !.lead = Qualify(@, s.said, s.text)]
  ELSE s

Captures(s) ==
  IF ~Capturing(s) THEN s
  ELSE [s EXCEPT !.conv = [state |-> Captured(s.conv, s.lead).state,
                           qualified |-> Captured(s.conv, s.lead).qualified],
                 !.events = IF Captured(s.conv, s.lead).told
                            THEN @ \cup {"lead.qualified"} ELSE @]

(* Mutation: what enriches the need pauses the collection too. *)
AddsAndPauses(s) ==
  [s EXCEPT !.prompt = s.handler = "qualifies",
            !.lead.data = IF s.handler \in {"defers", "context"} THEN PausedBy(@) ELSE @]

(* What each handler adds to the capture: _handle_qualification prompts,     *)
(* _handle_contextual_turn defers the name.                                  *)
Adds(s) ==
  [s EXCEPT !.prompt = s.handler = "qualifies",
            !.lead.data = IF s.handler = "defers"
                          THEN [PausedBy(@) EXCEPT !.nameDeferred = TRUE] ELSE @]

(* _ask_discovery_question and _handle_consultative_conversation move the    *)
(* state themselves.                                                         *)
Moves(s) ==
  LET discovers == \/ s.handler = "consults"
                   \/ s.handler = "informs" /\ ~Exists(s.lead)
  IN [s EXCEPT !.conv.state = IF s.handler = "asks" THEN "collect_need"
                              ELSE IF discovers /\ ~s.open THEN "discovery" ELSE @]

(* should_create_handoff: the reason, or "none".  Only a handler that passes *)
(* its lead on can hand a qualified lead over.                               *)
HandoffReason(s) ==
  IF Declines(s.text) THEN "none"
  ELSE IF "human" \in Says[s.text] THEN "explicit"
  ELSE IF s.handler \in PassesLead /\ s.lead.status \in {"qualified", "sent_to_crm"}
       THEN (IF KnowledgeTurn(s.m) \/ NeedDiscovery(s.m) THEN "none" ELSE "qualified_lead")
  ELSE IF "urgent" \in Says[s.text] THEN "urgent"
  ELSE IF "complex" \in Says[s.text] THEN "technical"
  ELSE "none"

(* _finalize_handoff with create_or_update_handoff *)
HandsOff(s) ==
  IF s.handler \notin PassesLead \cup {"replies", "asks"} \/ HandoffReason(s) = "none" THEN s
  ELSE [s EXCEPT !.handoff = "active", !.passes = TRUE, !.explicit = HandoffReason(s) = "explicit",
                 !.events = IF s.handoff = "active" THEN @ ELSE @ \cup {"handoff.created"}]

(* offer_after_guidance, with the conversation as its caller holds it. *)
Offerable(c, row, m, concrete, passes, kb, wording) ==
  /\ ~passes /\ ~c.qualified /\ c.state \notin {"qualified", "closed"}
  /\ ~CollectionOpen(c, row) /\ ~Trigger(m)
  /\ ~row.data.deferred /\ ~row.data.paused
  /\ kb /\ wording = "guides" /\ concrete
  /\ row.data.offer = "" \/ "newNeed" \in Says[m]

WithOffer(row) == [Created(row) EXCEPT !.need = "valid", !.data.offer = "pending"]

(* should_offer_relational_name *)
NameAskable(s) ==
  /\ Exists(s.lead) /\ ~s.prompt /\ ~s.passes /\ ~CollectionOpen(s.conv, s.lead)
  /\ "name" \notin s.lead.has
  /\ ~s.lead.data.nameAsked /\ ~s.lead.data.nameCaptured
  /\ s.lead.data.offer # "pending"
  /\ Says[s.text] \cap {"alarm", "isolated"} = {}
  /\ s.wording = "guides" /\ s.turned >= 2
  /\ s.lead.need # "empty" \/ \E h \in s.said \cup {s.text} : "subject" \in Says[h]

(* _finalize_ai_response: the offer, else the visitor's name is asked for. *)
Finalized(s) ==
  IF s.handler = "declined" THEN s
  ELSE IF Offerable(s.conv, s.lead, s.text, ConcreteNeed(s.text, s.said),
                    s.passes, s.kb, s.wording)
  THEN [s EXCEPT !.lead = WithOffer(@), !.action = "offered"]
  ELSE IF NameAskable(s)
  THEN [s EXCEPT !.lead.data.nameAsked = TRUE, !.names = TRUE]
  ELSE s

(* generate_reply: the outcome of its stages, one after another. *)
Generated(inputs) ==
  LET settled == {Settled(s, OfferAnswer(s)) : s \in {inputs}}
      routed == {Routed(s) : s \in {Paused(t) : t \in settled}}
      captured == {Captures(s) : s \in {Qualifies(t) : t \in routed}}
      moved == {Moves(s) : s \in {Adds(t) : t \in captured}}
  IN {Finalized(s) : s \in {HandsOff(t) : t \in moved}}

-------------------------------------------------------------------------------

Idle ==
  [pc |-> "idle", m |-> Silence, kb |-> FALSE, memory |-> Remembered(NoLead, Silence),
   conv |-> NewConversation, data |-> NoData, named |-> FALSE, concrete |-> FALSE]

TurnsInit ==
  /\ conv = NewConversation /\ lead = NoLead /\ handoff = "none" /\ events = {}
  /\ said = {} /\ last = Silence /\ turned = 0
  /\ asks = FALSE /\ answered \in Worker
  /\ turn = [w \in Worker |-> Idle] /\ turns = 0
  /\ word = "none" /\ reopened = FALSE

(* process_chat_request up to the transaction: the memory is read from the   *)
(* lead as it is, and the retrieval finds knowledge or not.                  *)
Begin(w, m, kb) ==
  /\ turn[w].pc = "idle" /\ turns < MaxTurns
  /\ turn' = [turn EXCEPT ![w] = [Idle EXCEPT !.pc = "read", !.m = m, !.kb = kb,
                                              !.memory = Remembered(lead, m)]]
  /\ turns' = turns + 1
  /\ UNCHANGED <<rows, history, asks, answered, heard>>

Read(w, wording) ==
  [conv |-> conv, lead |-> lead, handoff |-> handoff, events |-> events,
   m |-> turn[w].m, text |-> turn[w].m, said |-> said, last |-> last,
   turned |-> turned, asked |-> asks, kb |-> turn[w].kb, wording |-> wording,
   kind |-> "other", handler |-> "replies", open |-> FALSE, prompt |-> FALSE,
   action |-> "", passes |-> FALSE, explicit |-> FALSE, names |-> FALSE]

(* What the visitor's message says of contact, heard by a turn that prompts. *)
WordAfter(w, s) ==
  LET alone == \A o \in Worker \ {w} : turn[o].pc = "idle"
  IN IF Declines(s.m) THEN IF alone THEN "refused" ELSE "none"
     ELSE IF s.prompt THEN IF alone /\ ~turn[w].memory.paused THEN "asked" ELSE "none"
     ELSE IF "noName" \in Says[s.m] THEN "none"
     ELSE word

(* _persist_chat_processing_state: the reply is generated, the memory is     *)
(* saved over the lead's flags, except when a human is handed over to, and   *)
(* both messages join the history.  The reply may then be reworded, unless   *)
(* it prompts or carries the offer.                                          *)
Commit(w) ==
  /\ turn[w].pc = "read"
  /\ \E wording \in Wording : \E s \in Generated(Read(w, wording)) :
     \E saved \in {IF Exists(s.lead) /\ ~s.explicit
                   THEN [s.lead EXCEPT !.data = Persisted(@, turn[w].memory)]
                   ELSE s.lead} :
       /\ conv' = s.conv /\ lead' = saved
       /\ handoff' = s.handoff /\ events' = s.events
       /\ asks' = (wording = "asks" /\ s.action # "offered")
       /\ turn' = [turn EXCEPT ![w] =
                     IF UsesAI /\ ~s.prompt /\ s.action = ""
                     THEN [@ EXCEPT !.pc = "committed", !.conv = s.conv,
                                    !.named = s.names,
                                    !.data = IF s.names THEN saved.data ELSE NoData,
                                    !.concrete = ConcreteNeed(s.m, said)]
                     ELSE Idle]
       /\ word' = WordAfter(w, s)
  /\ said' = said \cup {turn[w].m} /\ last' = turn[w].m
  /\ turned' = IF turned < 2 THEN turned + 1 ELSE turned
  /\ answered' = w
  /\ UNCHANGED <<turns, reopened>>

(* The AI is not allowed, fails, or its text is not used. *)
KeepReply(w) ==
  /\ turn[w].pc = "committed"
  /\ turn' = [turn EXCEPT ![w] = Idle]
  /\ UNCHANGED <<rows, history, asks, answered, turns, heard>>

(* _refine_response_with_ai_if_enabled with _clear_preempted_relational_name_flag: *)
(* the offer is considered again, with the conversation as it was committed  *)
(* and the lead as it is now; and when the reply it replaces asked for the   *)
(* name, the flags of that moment are saved again, without the name asked.   *)
Reword(w) ==
  /\ turn[w].pc = "committed"
  /\ \E wording \in Wording :
       LET offers == Offerable(turn[w].conv, lead, turn[w].m, turn[w].concrete,
                               FALSE, turn[w].kb, wording)
           offered == IF offers THEN WithOffer(lead) ELSE lead
       IN /\ lead' = IF turn[w].named
                     THEN [offered EXCEPT !.data = [turn[w].data EXCEPT !.nameAsked = FALSE]]
                     ELSE offered
          /\ asks' = IF answered = w THEN wording = "asks" /\ ~offers ELSE asks
          /\ reopened' = (reopened \/ (turn[w].named /\ turn[w].data.active /\ ~lead.data.active))
  /\ turn' = [turn EXCEPT ![w] = Idle]
  /\ UNCHANGED <<conv, handoff, events, history, answered, turns, word>>

(* The lead is told to the CRM, or an operator gives it up. *)
LeadMoves ==
  /\ "lead.qualified" \in events
  /\ \/ lead.status = "qualified" /\ lead' = [lead EXCEPT !.status = "sent_to_crm"]
     \/ lead.status # "failed" /\ lead' = [lead EXCEPT !.status = "failed"]
  /\ UNCHANGED <<conv, handoff, events, history, asks, answered, turn, turns, heard>>

(* mark_resolved, mark_cancelled *)
CloseHandoff ==
  /\ handoff = "active"
  /\ handoff' = "closed"
  /\ UNCHANGED <<conv, lead, events, history, asks, answered, turn, turns, heard>>

TurnsNext ==
  \/ \E w \in Worker :
       \/ \E m \in Message, kb \in BOOLEAN : Begin(w, m, kb)
       \/ Commit(w) \/ KeepReply(w) \/ Reword(w)
  \/ LeadMoves
  \/ CloseHandoff

TurnsSpec == TurnsInit /\ [][TurnsNext]_turnVars

-------------------------------------------------------------------------------

(* Every row is one of the models' rows, and a worker's held state too.      *)
TurnTypeOK ==
  /\ conv \in Conversation /\ lead \in Lead
  /\ handoff \in {"none", "active", "closed"}
  /\ events \subseteq {"lead.qualified", "handoff.created"}
  /\ said \subseteq Message /\ last \in Text /\ turned \in 0..2
  /\ asks \in BOOLEAN /\ answered \in Worker /\ turns \in 0..MaxTurns
  /\ turn \in [Worker -> [pc : {"idle", "read", "committed"}, m : Text, kb : BOOLEAN,
                          memory : Memory, conv : Conversation, data : Data,
                          named : BOOLEAN, concrete : BOOLEAN]]
  /\ word \in {"none", "asked", "refused"} /\ reopened \in BOOLEAN

(* The sales team is told of a lead only when its visitor asked for contact: *)
(* by an explicit request, by accepting the offer, or by giving contact data *)
(* together with a commercial context; no other sequence of turns, however   *)
(* they cross, tells of it.                                                  *)
ToldForCause ==
  "lead.qualified" \in events =>
    \E h \in said : Trigger(h) \/ Volunteers(h) \/ Says[h] \cap {"yes", "register"} # {}

(* A lead that is ready to be told has been: the flags of the collection,    *)
(* written by the handlers, by the memory and by the AI's second pass, never *)
(* leave a ready lead that no turn told of; but where the second pass of one *)
(* turn restored the flags of a collection that another had paused.          *)
ReadyIsTold == Ready(lead) => "lead.qualified" \in events \/ reopened

(* Once a visitor declines to give contact data, nothing but a new request   *)
(* opens the collection again.                                               *)
RefusalStands == word = "refused" => ~CollectionOpen(conv, lead)

(* Once a visitor asked for contact, and no collection had been refused      *)
(* before, the collection stays open until one declines.                     *)
RequestStands == word = "asked" => CollectionOpen(conv, lead)

===============================================================================
