CONSTANTS
  ax = ax
  tap = tap
  first = first
  second = second
  third = third
  fourth = fourth
  fifth = fifth
  Collectors = {ax, tap}
  StopOrder <- MCStopOrder
  Tap = tap
  Discarding = {}
  Commands = {first, second, third, fourth, fifth}
  KindOf <- PauseKinds
  MaxTime = 2
  MaxFailures = 1
  MaxDeaths = 1
SPECIFICATION PauseSpec
INVARIANTS
  PauseTypeOK
  PauseHolds
PROPERTIES
  PauseIsTheUsers
CHECK_DEADLOCK FALSE
