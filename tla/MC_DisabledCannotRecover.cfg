\* A disabled account, failed log-ins, a link.
SPECIFICATION Spec
CONSTANTS
  Users = {u1, u2}
  Institutions = {i1, i2}
  Emails = {e1, e2}
  Grantable = {"AGENT"}
  Changes <- MCChanges
  Requests = {t1}
  Threshold = 2
  MaxSessions = 1
  MaxLinks = 2
  MaxChanges = 2
  None = None
INVARIANT DisabledCannotRecover
CHECK_DEADLOCK FALSE
