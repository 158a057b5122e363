\* Liveness: identities are not symmetric here.
CONSTANTS
  t1 = t1
  e1 = e1
  e2 = e2
  c1 = c1
  c2 = c2
  k1 = k1
  k2 = k2
  p1 = p1
  Tunnel = {t1}
  Entry = {e1, e2}
  Conn = {c1, c2}
  Call = {k1, k2}
  Port = {p1}
  RemoteRule = RemoteRule
  NoEntry = NoEntry
  NoConn = NoConn
  MaxReconnectAttempts = 2
SPECIFICATION FairSpec
PROPERTIES
  TransientStatusEnds
CHECK_DEADLOCK FALSE
