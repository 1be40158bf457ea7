SPECIFICATION FairSpec
CONSTANTS
  Request = {r1, r2}
  Worker = {w1, w2}
  Command = {}
  NoOne = NoOne
  Operations = {"sync_export"}
  DryRun = {FALSE, TRUE}
  MaxAttempts = 2
  MaxCommands = 0
  MaxOutlived = 1
  MaxCrashes = 1
INVARIANTS
  OneExecution
PROPERTIES
  FinishedForCause
  RequestsSettle
