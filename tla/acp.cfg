\* Two calls, two processes, two triples, one update; fair.
CONSTANTS
  p1 = p1
  p2 = p2
  k1 = k1
  k2 = k2
  Calls = 2
  Proc = {p1, p2}
  Key = {k1, k2}
  FirstKey = k1
  MaxUpdates = 1
  MaxQueued = 1
  NoCall = NoCall
  NoProc = NoProc
  NoKey = NoKey
SPECIFICATION FairSpec
INVARIANTS
  TypeOK
  NoTextFromLater
  PanelIsAnswered
PROPERTIES
  CallSettles
CHECK_DEADLOCK FALSE
