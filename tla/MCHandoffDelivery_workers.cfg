SPECIFICATION HandoffSpec
CONSTANTS
  talk = talk
  Event = {e1, e2}
  Worker = {w1}
  Admin = {}
  WorkerId = {w1}
  IdOf <- DistinctIds
  NoOne = NoOne
  MaxAttempts = 2
  BatchSize = 1
  MaxRequeues = 0
  MaxCrashes = 1
  Operator = {o1}
  Conversation = {talk}
  ConvOf <- OneConversation
  Settings <- RealAndSimulated
  MaxTurns = 2
  MaxCloses = 1
SYMMETRY Symmetry
INVARIANTS
  SuccessToldSomeone
  MailRepeatsForCause
  OneActiveHandoff
