SPECIFICATION TSpec
CONSTANTS
  va = va
  vb = vb
  sys = sys
  none = none
  Users <- MCUsers
  Role <- MCRole
  Institution <- MCInstitution
  Sender = "sender"
  Receiver = "receiver"
  Creator = sys
  NoUser = none
  Circuits <- MCCircuits
  Barred = {}
  MaxTexts = 2
  Requests = {r1, r2}
  Idle = Idle
INVARIANT SentResponseWasApproved
CHECK_DEADLOCK FALSE
