\* Three users, two requests at a time, two rows in all.
SPECIFICATION Spec
CONSTANTS
  q1 = q1
  q2 = q2
  ann = ann
  bob = bob
  sue = sue
  Users = {ann, bob, sue}
  Institution <- MCInstitution
  Exempt = {sue}
  Writers = {ann, bob}
  Sender = Sender
  Receiver = Receiver
  RuleKeys <- MCRuleKeys
  RuleValues <- MCRuleValues
  CaseRank = 2
  Codes = {"REQUEST", "EVIDENCE"}
  Defaults = {"REQUEST"}
  Requests = {q1, q2}
  MaxRows = 2
  None = None
INVARIANTS
  TypeOK
  OneAnswer
  ReceiptsAreUnique
  DraftStaysInside
PROPERTY ReceiptsOnlyGrow
SYMMETRY Symmetry
CHECK_DEADLOCK FALSE
