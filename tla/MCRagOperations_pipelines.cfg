SPECIFICATION Spec
CONSTANTS
  Request = {r1, r2}
  Worker = {w1, w2}
  Command = {c1}
  NoOne = NoOne
  Operations = {"full_reindex"}
  DryRun = {FALSE}
  MaxAttempts = 2
  MaxCommands = 1
  MaxOutlived = 1
  MaxCrashes = 0
CONSTRAINT EveryAudit
SYMMETRY Symmetry
INVARIANTS
  PipelinesExclude
  SucceededIsWhole
