\* A store masterkey.change leaves out.
CONSTANTS
  profiles = profiles
  secrets = secrets
  tunnels = tunnels
  k1 = k1
  k2 = k2
  blank = blank
  d1 = d1
  File = {profiles, secrets, tunnels}
  EncryptedFiles <- ChangeOrder
  Echoed = {secrets}
  Key = {k1, k2}
  NoKey = NoKey
  Content = {blank, d1}
  Blank = blank
  NoContent = NoContent
  Absent = Absent
  Torn = Torn
  Unset = Unset
  MaxSaves = 1
  MaxLoads = 1
  MaxKeyWork = 2
SPECIFICATION Spec
INVARIANTS
  NothingLeftUnderOldKey
SYMMETRY Symmetry
CHECK_DEADLOCK FALSE
