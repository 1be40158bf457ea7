SPECIFICATION FairSpec
CONSTANTS
  Event = {e1, e2}
  Worker = {w1, w2}
  Admin = {}
  WorkerId = {w1, w2}
  IdOf <- DistinctIds
  NoOne = NoOne
  MaxAttempts = 2
  BatchSize = 2
  MaxRequeues = 1
  MaxCrashes = 1
PROPERTIES
  RecordedByClaimant
  ImplementsLedger
  EventuallySettled
