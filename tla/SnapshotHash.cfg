CONSTANTS
  w1 = w1
  w2 = w2
  work = work
  bank = bank
  hidden = hidden
  open = open
  strict = strict
  owned = owned
  t = t
  s = s
  NoPage = NoPage
  NoWindow = NoWindow
  Windows = {w1}
  Pages = {work}
  Filters = {open}
  Queried = {open}
  Bodies = {s}
  Private <- MCPrivate
  Allows <- MCAllows
  PolicyOf <- MCPolicyOf
  KindOf <- MCKindOf
  MaxMoves = 0
  MaxTroubles = 1
SPECIFICATION BrowserSpec
INVARIANTS
  HashOnlyAfterReserving
CHECK_DEADLOCK FALSE
