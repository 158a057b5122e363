\* Two tunnels (or two generations of one), three clients, two calls in flight.
CONSTANTS
  t1 = t1
  t2 = t2
  e1 = e1
  e2 = e2
  c1 = c1
  c2 = c2
  c3 = c3
  k1 = k1
  k2 = k2
  p1 = p1
  Tunnel = {t1, t2}
  Entry = {e1, e2}
  Conn = {c1, c2, c3}
  Call = {k1, k2}
  Port = {p1}
  RemoteRule = RemoteRule
  NoEntry = NoEntry
  NoConn = NoConn
  MaxReconnectAttempts = 2
SPECIFICATION Spec
INVARIANTS
  TypeOK
  StatusTellsTheTruth
PROPERTIES
  NoResurrection
SYMMETRY Symmetry
CHECK_DEADLOCK FALSE
