CONSTANTS
  Openers = {o1, o2}
  Noise = {"waiter"}
  MaxOpenings = 3
  MaxKeys = 2
  MaxMeddling = 0
SPECIFICATION KeysSpec
PROPERTIES
  StartupIsNotAFailure
CHECK_DEADLOCK FALSE
