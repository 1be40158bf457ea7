SPECIFICATION FairSpec
CONSTANTS
  Note = {n1}
  Mandatory = {}
  Enqueuer = {e1}
  Worker = {w1, w2}
  Reader = {r1, r2}
  BatchSize = 1
  NoOne = NoOne
  MaxReads = 2
  MaxCrashes = 1
  MaxOutlived = 1
INVARIANTS
  DeliveredOnce
PROPERTIES
  CancelledStays
  SettledForCause
  NotesSettle
