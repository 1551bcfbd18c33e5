CONSTANTS
  Elements = {e1, e2}
  Rulings = {"page", "denied"}
  Denied = {"denied"}
  VersionOf <- PageVersions
  Capacity = 2
  EventCapacity = 1
  Window = 1
  Debounce = 1
  MaxHold = 1
  MaxTime = 1
  MaxAttempts = 4
  MaxChars = 2
  MaxGenerations = 2
  MaxTroubles = 1
  Panes = {p1}
  Nobody = Nobody
  QueueLimit = 1
  CopySpan = 1
  RetrySpan = 1
  WatchSpan = 2
  MaxInputs = 2
  MaxTurmoil = 1
  MaxMoves = 1
  MaxWrites = 2
  Apps = {a1, a2}
  NoApp = NoApp
  CallbackLimit = 1
  ChannelLimit = 1
  MaxAppMoves = 2
  MaxAppTroubles = 1
  Fields = {f1, f2}
  NoField = NoField
  Hush = 2
  Hold = 4
  SettleSpan = 2
  PostLimit = 1
  MaxShifts = 2
  MaxFailures = 1
  Batch = 2
  NodeLimit = 3
  TextLimit = 1
  MaxTree = 3
  Windows = {w1, w2}
  Nowhere = Nowhere
  TriggerCapacity = 2
  Quiet = 1
  MaxSettle = 1
  FocusOutInterval = 1
  SaveInterval = 1
  BackoffFirst = 1
  BackoffMax = 1
  MaxNews = 2
  Refreshes <- RefreshSteps
SPECIFICATION CaptureSpec
INVARIANTS
  TapRecovers
  AppsFollowed
  FieldsHeard
PROPERTIES
  TextStaysGated
  ClipboardInPlace
  SnapshotsSound
CHECK_DEADLOCK FALSE
