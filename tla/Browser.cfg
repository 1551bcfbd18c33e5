CONSTANTS
  w1 = w1
  w2 = w2
  work = work
  bank = bank
  hidden = hidden
  open = open
  strict = strict
  owned = owned
  t = t
  s = s
  NoPage = NoPage
  NoWindow = NoWindow
  Windows = {w1, w2}
  Pages = {work, bank, hidden}
  Filters = {open, strict, owned}
  Queried = {open, strict, owned}
  Bodies = {t, s}
  Private <- MCPrivate
  Allows <- MCAllows
  PolicyOf <- MCPolicyOf
  KindOf <- MCKindOf
  MaxMoves = 2
  MaxTroubles = 2
SPECIFICATION BrowserSpec
INVARIANTS
  TypeOK
  ShownAfterHold
  VersionPinsPage
  WithinEveryRuling
  RecordsAreCurrent
SYMMETRY WindowSymmetry
CHECK_DEADLOCK FALSE
