CONSTANTS
  Retention = 1
  MaxClock = 3
  MaxFailures = 2
  MaxRequests = 1
  Retentions = {1, 2}
  PageLimits = {2}
  QueryLimits = {1}
  MinPageRows = 2
  MaxAppends = 3
  MaxToday = 2
  MaxDeletions = 1
  MaxUpheavals = 1
  MaxSettings = 1
  Openers = {o1, o2}
  Noise = {"paused", "writer", "reader"}
  MaxOpenings = 3
  MaxKeys = 2
  MaxMeddling = 1
  Programs = {"a", "b"}
  MaxRows = 3
  MaxContent = 1
  LastSecond = 3
  IdleGap = 1
  Bounce = 1
  Budgets = {5}
  Editors = {c1, c2}
  Listed = {b1}
  Browser = b1
  RetentionChoices = {1, 2}
  DefaultRetention = 1
  MaxWrites = 3
  Needs <- TwoNeeds
  MaxRecorders = 2
  MaxSurprises = 1
  MaxReports = 1
  Setups = {s1, s2}
  Servers = {other}
  Zanei = zanei
  MaxEdits = 2
  MaxRuns = 2
SPECIFICATION StoreSpec
INVARIANTS
  UpgradeKeeps
  KeysFit
  SessionsExact
PROPERTIES
  ReadersToldTruly
  FilesKept
  ReportsNameTheirOwner
CHECK_DEADLOCK FALSE
