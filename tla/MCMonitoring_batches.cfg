SPECIFICATION FairSpec
CONSTANTS
  Process = {p1, p2}
  Batch = {b1, b2}
  Tenant = {t1, t2}
  None = None
  FailFast = {TRUE, FALSE}
  MaxOutlived = 1
  MaxCrashes = 1
  MaxFailures = 1
INVARIANTS
  LockIdleByFailure
  SuccessIsEveryTenant
PROPERTIES
  RewrittenForCause
  BatchesEnd
