CONSTANTS
  k1 = k1
  k2 = k2
  t1 = t1
  t2 = t2
  c1 = c1
  keys = keys
  titles = titles
  open = open
  quiet = quiet
  NoGroup = NoGroup
  Groups <- MCGroups
  GroupOf <- MCGroupOf
  Replacing <- MCReplacing
  Policies <- MCPolicies
  Admits <- MCAdmits
  ShowsBody <- MCShowsBody
  Events <- SafetyEvents
  Ungated <- SafetyEvents
  Capacity = 2
  MaxPending = 2
  MaxBatch = 2
  LastDelay = 1
  MaxBeats = 1
  MaxCrashes = 1
SPECIFICATION Spec
INVARIANTS
  TypeOK
  Conservation
  PromiseKept
  StoredWithinPolicies
  HealthyStoreIsCurrent
PROPERTIES
  CommitsObeyRuling
  ImplementsLog
CHECK_DEADLOCK FALSE
