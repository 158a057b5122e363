\* Two channels; a public and a loopback generation of one tunnel, and another public tunnel. Fair.
CONSTANTS
  t1 = t1
  t2 = t2
  e1 = e1
  e2 = e2
  e3 = e3
  r1 = r1
  r2 = r2
  a1 = a1
  Request = {r1, r2}
  Entry = {e1, e2, e3}
  Tunnel = {t1, t2}
  Address = {a1}
  NoAddress = NoAddress
  TunnelOf <- Owner
  PublicEntry = {e1, e3}
  NoEntry = NoEntry
  NoRequest = NoRequest
  NoOrigin = NoOrigin
SPECIFICATION FairSpec
INVARIANTS
  TypeOK
  HeldIffPending
  StopWithdrawsTrust
  NoIdleQueue
PROPERTIES
  ConsentGate
  HeldSettles
CHECK_DEADLOCK FALSE
