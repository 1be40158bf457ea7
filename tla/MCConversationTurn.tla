-------------------------- MODULE MCConversationTurn --------------------------
(* Messages of one conversation, each with the pattern tables of the code it *)
(* matches; the text it stands for is beside it.                             *)
EXTENDS ConversationTurn, TLC

Table ==
  [need |-> {"adds", "commercial", "detailed", "exploratory", "need", "needs", "opens",
             "place", "project", "quantity", "subject", "thread", "volunteers"},
             \* "preciso automatizar a limpeza do nosso galpao com dois robos autonomos"
   quote |-> {"brief", "commercial", "exploratory", "few", "needs", "quote", "quoted",
              "quoting", "short", "subject", "thread", "visit", "volunteers"},
             \* "quero um orcamento"
   human |-> {"adds", "commercial", "detailed", "exploratory", "human", "needs", "short",
              "subject", "thread", "volunteers"},
             \* "quero falar com um atendente"
   refuse |-> {"contact", "declines", "detailed", "short"},
             \* "prefiro nao passar meu telefone"
   data |-> {"contact", "detailed", "opens", "quantity", "selfNamed", "specs"},
             \* "meu nome e Ana Souza, telefone 41999998888, email ana@acme.com.br"
   ask |-> {"adds", "asks", "detailed", "informational", "knowledge", "need", "question",
            "short", "subject", "topic", "volunteers"},
             \* "como funciona o robo duno?"
   name |-> {"brief", "detailed", "few", "selfNamed", "short"},
             \* "me chamo Ana Souza"
   sim |-> {"adds", "brief", "few", "place", "short", "yes"},
             \* "sim"
   again |-> {"adds", "commercial", "detailed", "exploratory", "needs", "newCycle", "quote",
              "quoted", "quoting", "subject", "thread", "visit", "volunteers"},
             \* "quero um orcamento para um novo pedido"
   silence |-> {}]

MCMessage == {"need", "quote", "human", "refuse", "data", "ask", "name", "sim", "again"}
MCSays == [m \in MCMessage \cup {"silence"} |-> Table[m]]
MCGives ==
  [m \in MCMessage \cup {"silence"} |->
    CASE m = "data" -> ContactField
      [] m = "name" -> {"name"}
      [] OTHER -> {}]
MCFills ==
  [m \in MCMessage \cup {"silence"} |->
    CASE m = "data" -> {"phone", "email"}
      [] m = "name" -> {"name"}
      [] m = "need" -> {"need"}
      [] OTHER -> {}]

MCTriggers == {m \in Text : TriggerKind(m) # "none"}
MCDiscovery == [m \in Text |-> Analyzed(m)]

Symmetry == Permutations(Worker)

===============================================================================
