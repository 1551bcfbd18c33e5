CONSTANTS
  chromeA = chromeA  chromeB = chromeB  editor = editor  other = other
  chrome = chrome  zed = zed  w1 = w1  w2 = w2  w3 = w3
  safari = safari  w4 = w4
  NoView = NoView
  Views = {chromeA, chromeB, other, editor}
  AppOf <- MCAppOf
  WindowOf <- MCWindowOf
  Browsers = {chrome, safari}
  Demanded = {chromeA}
  Capacity = 1
  MaxGeneration = 3
  MaxDeaths = 1
SPECIFICATION FairSpec
INVARIANTS
  ChainToCurrent
  RecordsAfterWake
PROPERTIES
  HeardWithoutHoles
  FocusFollowed
