SPECIFICATION FairAlerts
CONSTANTS
  Alert = {a1}
  Member = {m1, o1}
  Manager = {m1}
  Muted = {}
  Monitor = {p1}
  Syncer = {s1}
  Tracked = {"escalated"}
  Shown = {"critical"}
  NonSuppressible = {}
  NoOne = NoOne
  ReopenThreshold = 2
  MaxChanges = 1
  MaxActs = 1
  MaxMishaps = 1
INVARIANTS
  EscalationTold
PROPERTIES
  AlertFollowsCondition
  NeglectReachesAdmin
