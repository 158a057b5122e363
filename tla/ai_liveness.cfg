\* Fairness: one chat, two runs, one approval.
CONSTANTS
  c1 = c1
  c2 = c2
  r1 = r1
  r2 = r2
  r3 = r3
  q1 = q1
  q2 = q2
  Chat = {c1}
  Run = {r1, r2}
  Request = {q1}
  NoJob = NoJob
  NoChat = NoChat
  NoRequest = NoRequest
  MaxDepth = 1
  MaxCalls = 2
  MaxQueue = 1
  MaxMail = 2
SPECIFICATION FairSpec
PROPERTIES
  RunSettles
CHECK_DEADLOCK FALSE
