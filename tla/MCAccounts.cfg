\* Two accounts, two addresses, two institutions, two requests at a time; one failure locks.
SPECIFICATION Spec
CONSTANTS
  Users = {u1, u2}
  Institutions = {i1, i2}
  Emails = {e1, e2}
  Grantable = {"AGENT"}
  Changes <- MCChanges
  Requests = {t1, t2}
  Threshold = 1
  MaxSessions = 1
  MaxLinks = 2
  MaxChanges = 2
  None = None
INVARIANTS
  TypeOK
  OneUsableLink
  AddressesDiffer
PROPERTIES
  RevokedStaysRevoked
  ResetByItsLink
SYMMETRY Symmetry
CHECK_DEADLOCK FALSE
