\* One case, handlers in one step each, at most three texts.
SPECIFICATION Spec
CONSTANTS
  sa = sa
  sv = sv
  ra = ra
  rb = rb
  rv = rv
  rw = rw
  ri = ri
  sys = sys
  none = none
  Users <- MCUsers
  Role <- MCRole
  Institution <- MCInstitution
  Sender = "sender"
  Receiver = "receiver"
  Creator = sa
  NoUser = none
  Circuits <- MCCircuits
  Barred <- MCBarred
  MaxTexts = 3
INVARIANTS
  TypeOK
  AnsweredWithConsent
  NeverStuck
  SomebodyAnswers
  WorkflowAgrees
PROPERTY ImplementsLifecycle
CHECK_DEADLOCK FALSE
