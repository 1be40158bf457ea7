---------------------------- MODULE MessageSignals ----------------------------
(* What Livia reads in one message of a visitor, before any state: the      *)
(* intent of assistant_core/discovery/livia.py, the collection trigger of   *)
(* consultative_policy.py, the signals of conversation_turns.py and of      *)
(* decision_outcome.py, and the contact data qualification/livia.py finds.  *)
(*                                                                          *)
(* A message is an opaque value.  Says gives the pattern tables it matches  *)
(* (one marker for each table or test the code makes on the text), Gives    *)
(* the contact fields whose valid value can be extracted from it wherever   *)
(* it stands, and Fills the fields it answers when they are asked for.      *)
(* This module combines the markers, in the order of the code's returns.    *)
EXTENDS Naturals, Sequences, FiniteSets

ContactField == {"name", "phone", "email"}

(* The order in which what is missing is asked for. *)
Order == [name |-> 1, phone |-> 2, email |-> 3, need |-> 4]

(* The tables and tests of discovery/livia.py; "delay" is a question about  *)
(* deadlines, "detailed" _has_substantive_context.                          *)
DiscoveryMarker ==
  {"greeting", "quote", "support", "technical", "commercial", "contact", "visit",
   "informational", "knowledge", "detailed", "generic", "delay"}

(* Those of decision_outcome.py; "specs" are measures. *)
OutcomeMarker == {"topic", "asks", "specs"}

(* Those of consultative_policy.py: the explicit requests ("quoted" by a    *)
(* term, "quoting" by a verb), a price asked for, a question about the      *)
(* quoting process, and words of need.                                      *)
PolicyMarker ==
  {"human", "hire", "quoted", "quoting", "process", "price",
   "needs", "volunteers", "exploratory"}

(* Those of conversation_turns.py: "place" is an answer of context, "adds"  *)
(* what enriches a need, "thread" a word of an earlier commercial thread.   *)
TurnMarker == {"noName", "declines", "question", "place", "adds", "thread"}

(* Those of continuity_policy.py and relational_collection.py: the whole    *)
(* answers to the offer, a concrete need ("project"), one that a quantity   *)
(* completes ("opens"), and what keeps the name from being asked for.       *)
OfferMarker ==
  {"yes", "register", "no", "project", "opens", "quantity", "newNeed",
   "subject", "isolated", "alarm", "selfNamed"}

(* Those of state/livia.py, leads/services/handoff.py and the tenant's      *)
(* profile, and the lengths the code compares: at most 6 or 4 words, at     *)
(* most 18 characters; "need" is a valid need summary.                      *)
OtherMarker ==
  {"newCycle", "urgent", "complex", "shaped", "short", "few", "brief", "need"}

Marker ==
  DiscoveryMarker \cup OutcomeMarker \cup PolicyMarker \cup TurnMarker
    \cup OfferMarker \cup OtherMarker

CONSTANTS
  Message,  \* what visitors say
  Silence,  \* the empty message an accepted offer is qualified with
  Says,     \* the markers of a message
  Gives,    \* the contact fields it always gives
  Fills     \* the fields, or the need, it answers when asked

ASSUME SignalsAssumption ==
  /\ Silence \notin Message
  /\ Says \in [Message \cup {Silence} -> SUBSET Marker]
  /\ Gives \in [Message \cup {Silence} -> SUBSET ContactField]
  /\ Fills \in [Message \cup {Silence} -> SUBSET (ContactField \cup {"need"})]
  /\ Says[Silence] = {} /\ Gives[Silence] = {} /\ Fills[Silence] = {}

Text == Message \cup {Silence}

-------------------------------------------------------------------------------

(* _has_explicit_actionable_budget, is_conceptual_price_question *)
Actionable(m) ==
  \/ Says[m] \cap {"human", "hire"} # {}
  \/ "process" \notin Says[m] /\ Says[m] \cap {"quoted", "quoting"} # {}

PriceQuestion(m) == "price" \in Says[m] /\ ~Actionable(m)

(* detect_collection_trigger *)
TriggerKind(m) ==
  IF "human" \in Says[m] THEN "human"
  ELSE IF PriceQuestion(m) THEN "none"
  ELSE IF "hire" \in Says[m] THEN "hire"
  ELSE IF "quoted" \in Says[m] THEN "budget"
  ELSE IF "process" \in Says[m] THEN "none"
  ELSE IF "quoting" \in Says[m] THEN "budget"
  ELSE "none"

CONSTANT Triggers  \* the messages with a trigger, tabulated

ASSUME TriggersAssumption == Triggers = {m \in Text : TriggerKind(m) # "none"}

Trigger(m) == m \in Triggers

(* is_contact_deferred or wants_consultative_continue *)
Declines(m) == "declines" \in Says[m]

-------------------------------------------------------------------------------

(* What _result leaves at its defaults. *)
Unread ==
  [intent |-> "unknown", collects |-> FALSE, asks |-> FALSE, answers |-> FALSE,
   contact |-> FALSE, quote |-> FALSE, commercial |-> FALSE, product |-> FALSE]

Greeted(m) ==
  [Unread EXCEPT !.intent = "greeting", !.contact = "contact" \in Says[m],
                 !.quote = "quote" \in Says[m], !.commercial = "commercial" \in Says[m]]

AskedAbout ==
  [Unread EXCEPT !.intent = "commercial_interest", !.answers = TRUE,
                 !.commercial = TRUE, !.product = TRUE]

Supported(m, intent) ==
  [Unread EXCEPT !.intent = intent, !.answers = TRUE, !.contact = "contact" \in Says[m]]

Quoted(m) ==
  LET informs == PriceQuestion(m) \/ Says[m] \cap {"informational", "delay"} # {}
      collects == Trigger(m) /\ "generic" \notin Says[m] /\ ~informs
  IN [Unread EXCEPT !.intent = "quote_request", !.collects = collects,
                    !.asks = ~collects /\ ~informs, !.answers = informs,
                    !.contact = "contact" \in Says[m], !.quote = TRUE,
                    !.commercial = TRUE]

Reached(m) ==
  [Unread EXCEPT !.intent = "contact_data", !.collects = "commercial" \in Says[m],
                 !.contact = TRUE, !.commercial = "commercial" \in Says[m]]

Interested(m) ==
  LET informs == PriceQuestion(m) \/ "informational" \in Says[m]
      collects == Trigger(m) /\ ~informs
  IN [Unread EXCEPT !.intent = "commercial_interest", !.collects = collects,
                    !.asks = ~collects /\ ~informs,
                    !.answers = informs \/ "detailed" \in Says[m],
                    !.commercial = TRUE]

(* analyze_message *)
Analyzed(m) ==
  IF "greeting" \in Says[m] THEN Greeted(m)
  ELSE IF "knowledge" \in Says[m] THEN AskedAbout
  ELSE IF "support" \in Says[m] /\ Says[m] \cap {"quote", "visit"} = {}
       THEN Supported(m, "support_request")
  ELSE IF "quote" \in Says[m] THEN Quoted(m)
  ELSE IF "technical" \in Says[m] /\ "visit" \notin Says[m]
       THEN Supported(m, "technical_question")
  ELSE IF "contact" \in Says[m] THEN Reached(m)
  ELSE IF "commercial" \in Says[m] THEN Interested(m)
  ELSE Unread

CONSTANT Discovery  \* what analyze_message returns for each message, tabulated

ASSUME DiscoveryAssumption == Discovery = [m \in Text |-> Analyzed(m)]

-------------------------------------------------------------------------------

(* is_informational_knowledge_query *)
InformationalQueries ==
  {m \in Text :
    \/ "knowledge" \in Says[m]
    \/ Discovery[m].product
    \/ IF Discovery[m].quote
       THEN "delay" \in Says[m]
       ELSE "topic" \in Says[m] \/ ("asks" \in Says[m] /\ ~Discovery[m].collects)}
InformationalQuery(m) == m \in InformationalQueries

(* is_consultative_knowledge_turn *)
KnowledgeTurn(m) ==
  \/ InformationalQuery(m)
  \/ Discovery[m].intent \in {"technical_question", "support_request"}

(* is_consultative_need_discovery *)
NeedDiscoveries ==
  {m \in Message :
    /\ ~Trigger(m)
    /\ ~Discovery[m].collects /\ ~Discovery[m].contact
    /\ Discovery[m].quote => PriceQuestion(m)
    /\ \/ "needs" \in Says[m]
       \/ Discovery[m].commercial /\ (Discovery[m].asks \/ Discovery[m].answers)}
NeedDiscovery(m) == m \in NeedDiscoveries

(* is_direct_question, is_consultative_context_answer, is_need_enrichment *)
Question(m) == "question" \in Says[m]
ContextAnswer(m) == "place" \in Says[m] \/ Question(m)
Enriches(m) == "adds" \in Says[m] /\ Says[m] \cap {"human", "noName", "question"} = {}

(* message_fills_pending_slot *)
Answers(m, field) == "knowledge" \notin Says[m] /\ field \in Fills[m]

(* _is_direct_need_slot_answer *)
AnswersNeed(m) ==
  /\ Answers(m, "need")
  /\ ~Question(m) /\ "exploratory" \notin Says[m]
  /\ ContextAnswer(m) \/ "short" \in Says[m]

(* Contact data offered together with a commercial context, which            *)
(* decide_collection takes for a request.                                    *)
Volunteers(m) ==
  /\ Discovery[m].contact
  /\ Discovery[m].commercial \/ Discovery[m].quote \/ "volunteers" \in Says[m]

(* _needs of continuity_policy.py: a concrete need in the message, or in an  *)
(* earlier one that this message's quantity completes.                       *)
ConcreteNeed(m, said) ==
  \/ "project" \in Says[m]
  \/ /\ ~Question(m) /\ "quantity" \in Says[m]
     /\ \E earlier \in said : "opens" \in Says[earlier] /\ ~Trigger(earlier)

===============================================================================
