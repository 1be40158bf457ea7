SPECIFICATION LeadSpec
CONSTANTS
  e1 = e1
  Event <- OneEvent
  Worker = {w1}
  Admin = {a1}
  WorkerId = {w1}
  IdOf <- DistinctIds
  NoOne = NoOne
  MaxAttempts = 1
  BatchSize = 1
  MaxRequeues = 1
  MaxCrashes = 1
  Turn = {t1, t2}
  LeadOf <- LeadOfTurn
  Config = {c1}
  CrmMode = "real"
  MailMode = "real"
  HookMode <- AllReal
SYMMETRY Symmetry
INVARIANTS
  SuccessIsComplete
  MailRepeatsForCause
  PostRepeatsForCause
