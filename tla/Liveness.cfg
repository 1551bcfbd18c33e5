CONSTANTS
  Clients = {u1, u2}
  Free = Free
  NoFile = NoFile
  MaxInstances = 3
  Attempts = 2
  StartPolls = 1
  OpenPolls = 2
  MaxCommands = 2
  MaxCrashes = 1
  k1 = k1
  c1 = c1
  keys = keys
  titles = titles
  open = open
  quiet = quiet
  NoGroup = NoGroup
  ax = ax
  tap = tap
  first = first
  second = second
  third = third
  fourth = fourth
SPECIFICATION LivenessSpec
PROPERTIES
  PipelineAnswers
  RequestsTakeEffect
  RecorderComes
  OwnershipKept
CHECK_DEADLOCK FALSE
