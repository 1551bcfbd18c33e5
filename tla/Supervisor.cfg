CONSTANTS
  ax = ax
  Collectors = {ax}
  StopOrder <- MCStopOrder
  Guarded = {ax}
  Discarding = {}
  ChannelSize = 1
  QueueSize = 1
  Delays <- MCDelays
  StableAfter = 2
  MaxEvents = 3
  MaxFailures = 3
  MaxSwitches = 2
SPECIFICATION FairSpec
INVARIANTS
  TypeOK
  EventsAccounted
  EventsInOrder
PROPERTIES
  RestartsPaced
  StopsReturn
CHECK_DEADLOCK FALSE
