--------------------------- MODULE LeadQualification ---------------------------
(* The rows a turn of the conversation reads and writes, and the policies    *)
(* that decide on them alone: which contact data are missing, whether the    *)
(* collection is open and may open, what a capture makes of a message, when  *)
(* the lead is qualified and when it is ready to be told (leads/services/    *)
(* commercial.py and lead_capture.py, assistant_core/consultative_policy.py, *)
(* relational_collection.py, dialogue_memory.py and state/livia.py).         *)
(*                                                                           *)
(* A contact field is valid or missing; a need summary is empty, too vague,  *)
(* or valid.  The company, the city and the custom fields, which no decision *)
(* of these depends on, are left out.                                        *)
EXTENDS MessageSignals

LeadState ==
  {"discovery", "offer_handoff", "collect_need", "collect_name_company",
   "collect_contact", "qualified", "closed"}

Conversation == [state : LeadState, qualified : BOOLEAN]
NewConversation == [state |-> "discovery", qualified |-> FALSE]

(* qualification_data: the flags of the collection, the offer, the name. *)
Offer == {"", "pending", "accepted", "declined"}
Data ==
  [active : BOOLEAN, paused : BOOLEAN, deferred : BOOLEAN,  \* the collection's
   reason : BOOLEAN, intent : BOOLEAN,                      \* why it was opened
   offer : Offer,                                           \* continuity_offer_status
   nameAsked : BOOLEAN, nameCaptured : BOOLEAN, nameDeferred : BOOLEAN]
NoData ==
  [active |-> FALSE, paused |-> FALSE, deferred |-> FALSE, reason |-> FALSE,
   intent |-> FALSE, offer |-> "", nameAsked |-> FALSE, nameCaptured |-> FALSE,
   nameDeferred |-> FALSE]

Need == {"empty", "vague", "valid"}
LeadStatus == {"none", "draft", "qualified", "sent_to_crm", "failed"}
Lead ==
  [status : LeadStatus,          \* "none": there is no lead yet
   has : SUBSET ContactField, need : Need, data : Data]
NoLead == [status |-> "none", has |-> {}, need |-> "empty", data |-> NoData]

Exists(lead) == lead.status # "none"

(* get_or_create_lead_draft *)
Created(lead) == IF Exists(lead) THEN lead ELSE [lead EXCEPT !.status = "draft"]

-------------------------------------------------------------------------------

(* missing_required_fields, and the first of them *)
Missing(lead) ==
  (ContactField \ lead.has) \cup (IF lead.need = "valid" THEN {} ELSE {"need"})

AskedFirst(fields) ==
  IF fields = {} THEN "none"
  ELSE CHOOSE field \in fields : \A other \in fields : Order[field] <= Order[other]

FirstMissing(lead) == AskedFirst(Missing(lead))

(* pending_collection_fields: the need is never asked for by itself. *)
Pending(lead) == IF lead.data.active THEN ContactField \ lead.has ELSE {}

(* Mutation: a complete lead is ready though nobody asked for contact. *)
ReadyWhenComplete(lead) == Missing(lead) = {}

(* is_ready_for_commercial_notification *)
Ready(lead) ==
  /\ lead.data.active /\ Missing(lead) = {}
  /\ lead.data.offer = "accepted" \/ lead.data.reason \/ lead.data.intent

(* Mutation: the state is looked at without the pause. *)
OpenByState(conv, lead) ==
  lead.data.active \/ conv.state \in {"collect_contact", "offer_handoff"}

(* collection_already_active *)
CollectionOpen(conv, lead) ==
  /\ ~lead.data.paused /\ ~lead.data.deferred
  /\ lead.data.active \/ conv.state \in {"collect_contact", "offer_handoff"}

-------------------------------------------------------------------------------

(* mark_collection_active, pause_collection *)
Opened(data, reason) ==
  [data EXCEPT !.active = TRUE, !.paused = FALSE, !.deferred = FALSE,
               !.reason = @ \/ reason]
PausedBy(data) ==
  [data EXCEPT !.active = FALSE, !.paused = TRUE, !.deferred = TRUE]

(* capture_passive_fields: what a visitor says outside of a collection. *)
CapturedPassively(lead, m) ==
  LET asked == lead.data.nameAsked /\ "name" \in Fills[m]
      named == "selfNamed" \in Says[m] /\ "name" \in Fills[m]
      name == IF "name" \notin lead.has /\ (asked \/ named) THEN {"name"} ELSE {}
  IN IF ~Exists(lead) \/ lead.data.active
     THEN lead
     ELSE [lead EXCEPT !.has = @ \cup name \cup (Fills[m] \cap {"phone", "email"}),
                       !.data.nameCaptured = @ \/ name # {},
                       !.data.nameAsked = @ /\ ~(name # {} /\ asked)]

(* _extract_need_summary: the needs of the history and of this message are   *)
(* appended to the one the lead has.                                         *)
NeedAfter(lead, said, m) ==
  LET adds == /\ ~Question(m) /\ "noName" \notin Says[m]
              /\ Enriches(m) \/ "need" \in Says[m]
      needs == (IF "human" \in Says[m] THEN {} ELSE {h \in said : "need" \in Says[h]})
      all == needs \cup (IF adds /\ "human" \notin Says[m] THEN {m} ELSE {})
  IN IF lead.need = "valid" \/ \E h \in all : "need" \in Says[h] THEN "valid"
     ELSE IF all # {} THEN "vague" ELSE lead.need

(* The first field asked for takes what the message answers it with; an      *)
(* answer of context is not taken for a name or a contact.                   *)
Inferred(lead, m) ==
  LET asked == AskedFirst(Pending(lead))
  IN IF asked \in ContactField /\ ~ContextAnswer(m) /\ asked \in Fills[m]
     THEN {asked} ELSE {}

WithStatus(lead) ==
  [lead EXCEPT !.status =
     IF @ \in {"sent_to_crm", "failed"} THEN @
     ELSE IF Missing(lead) = {} THEN "qualified" ELSE "draft"]

(* qualify_from_message, once the lead exists *)
QualifyNamed(lead, said, m) ==
  WithStatus([lead EXCEPT !.has = @ \cup Inferred(lead, m),
                          !.need = NeedAfter(lead, said, m)])

Qualify(row, said, m) ==
  QualifyNamed([Created(row) EXCEPT !.data.nameDeferred = @ \/ "noName" \in Says[m],
                                    !.has = @ \cup UNION {Gives[h] : h \in said \cup {m}}],
               said, m)

(* next_state_after_message, called with no intent *)
NextState(conv, lead) ==
  LET first == FirstMissing(lead)
  IN IF lead.status \in {"sent_to_crm", "qualified"} \/ conv.qualified THEN "qualified"
     ELSE IF ~lead.data.active /\ ~CollectionOpen(conv, lead) THEN "discovery"
     ELSE CASE first = "none" -> "discovery"
            [] first = "need" -> "collect_need"
            [] first = "name" -> "collect_name_company"
            [] OTHER -> "collect_contact"

(* Mutation: a lead is told when it is first qualified, or never. *)
CapturedOnce(conv, lead) ==
  [state |-> NextState([conv EXCEPT !.qualified = Missing(lead) = {}], lead),
   qualified |-> lead.status \in {"qualified", "sent_to_crm"},
   told |-> Missing(lead) = {} /\ Ready(lead) /\ ~conv.qualified]

(* capture_from_message, once the message is qualified: the state it moves   *)
(* the conversation to, and whether the lead, qualified and ready, is told.  *)
Captured(conv, lead) ==
  [state |-> NextState([conv EXCEPT !.qualified = Missing(lead) = {}], lead),
   qualified |-> lead.status \in {"qualified", "sent_to_crm"},
   told |-> Missing(lead) = {} /\ Ready(lead)]

-------------------------------------------------------------------------------

(* should_block_dialogue_for_locked_lead, for message m of discovery d *)
Blocked(conv, m, d) ==
  /\ conv.qualified \/ conv.state \in {"qualified", "closed"}
  /\ "newCycle" \notin Says[m] /\ ~NeedDiscovery(m)
  /\ ~KnowledgeTurn(d) /\ ~NeedDiscovery(d)
  /\ \/ Trigger(m)
     \/ Discovery[d].collects
     \/ Discovery[d].intent = "contact_data" /\ Discovery[d].contact

(* has_prior_commercial_thread *)
Thread(conv, lead, said) ==
  \/ conv.state \in {"collect_need", "collect_name_company", "collect_contact", "offer_handoff"}
  \/ Exists(lead) /\ (lead.need # "empty" \/ lead.data.nameDeferred)
  \/ \E h \in said : Says[h] \cap {"noName", "thread"} # {}

(* The message answers what is asked for first. *)
AnswersFirst(lead, m) ==
  IF FirstMissing(lead) = "need" THEN AnswersNeed(m) ELSE Answers(m, FirstMissing(lead))

(* classify_conversation_turn *)
TurnKind(conv, lead, said, m) ==
  IF Trigger(m) \/ "knowledge" \in Says[m] THEN "other"
  ELSE IF "noName" \in Says[m] \/ Declines(m) THEN "name_deferred"
  ELSE IF CollectionOpen(conv, lead) /\ Exists(lead) /\ AnswersFirst(lead, m)
       THEN "other"
  ELSE IF Question(m) THEN "direct_question"
  ELSE IF KnowledgeTurn(m) THEN "other"
  ELSE IF Thread(conv, lead, said) /\ (Enriches(m) \/ ContextAnswer(m))
       THEN "need_enrichment"
  ELSE "other"

(* decide_collection while a collection is open *)
CollectsStill(lead, m) ==
  IF Trigger(m) THEN TRUE
  ELSE IF Exists(lead) /\ lead.need # "valid" /\ AnswersNeed(m) THEN TRUE
  ELSE IF "knowledge" \in Says[m] THEN FALSE
  ELSE IF Exists(lead) /\ AnswersFirst(lead, m) THEN TRUE
  ELSE IF ContextAnswer(m) \/ Enriches(m) THEN FALSE
  ELSE ~KnowledgeTurn(m)

(* decide_collection, but for the pause of one who declines *)
Collects(conv, lead, m) ==
  /\ ~Declines(m)
  /\ IF CollectionOpen(conv, lead) THEN CollectsStill(lead, m)
     ELSE Trigger(m) \/ Volunteers(m)

-------------------------------------------------------------------------------

(* What a turn keeps of the dialogue memory. *)
Memory == [deferred : BOOLEAN, paused : BOOLEAN, intent : BOOLEAN]

(* load_dialogue_memory, then update_dialogue_memory_from_turn *)
Remembered(lead, m) ==
  [deferred |-> lead.data.deferred \/ Declines(m),
   paused |-> lead.data.paused \/ Declines(m),
   intent |-> lead.data.intent \/ Trigger(m)]

(* persist_dialogue_memory *)
Persisted(data, memory) ==
  IF data.active /\ ~memory.paused
  THEN [data EXCEPT !.paused = FALSE, !.intent = memory.intent]
  ELSE [data EXCEPT !.deferred = memory.deferred, !.paused = memory.paused,
                    !.intent = memory.intent]

===============================================================================
