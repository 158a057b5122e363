\* Two ssh tabs, one through a jumper, three connections, two keys of one type.
CONSTANTS
  t1 = t1
  t2 = t2
  c1 = c1
  c2 = c2
  c3 = c3
  h1 = h1
  h2 = h2
  k1 = k1
  k2 = k2
  Tab = {t1, t2}
  Conn = {c1, c2, c3}
  Host = {h1, h2}
  Key = {k1, k2}
  KeyTypeOf <- OneType
  KindOf <- Kinds
  PathOf <- Paths
  FirstFile <- Pinned
  FirstKeys <- Presented
  OtherFiles <- Shared
  MaxEdits = 1
  NoConn = NoConn
  NoKey = NoKey
  NoPrompt = NoPrompt
SPECIFICATION Spec
INVARIANTS
  TypeOK
  MatchMeansGranted
  RegistryHoldsLive
  CloseReachesLive
  NoIdlePrompts
PROPERTIES
  KeyConsent
CHECK_DEADLOCK FALSE
