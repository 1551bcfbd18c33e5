CONSTANTS
  ax = ax
  tap = tap
  first = first
  second = second
  third = third
  fourth = fourth
  fifth = fifth
  Collectors = {ax, tap}
  StopOrder <- MCStopOrder
  Tap = tap
  Discarding = {}
  Commands = {first, second}
  KindOf <- StartKinds
  MaxTime = 0
  MaxFailures = 0
  MaxDeaths = 0
SPECIFICATION PauseSpec
INVARIANTS
  PauseIsOfASuccess
CHECK_DEADLOCK FALSE
