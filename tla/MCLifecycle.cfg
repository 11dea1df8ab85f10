\* Two workers, one run by hand, two cases, a clock that passes one midnight, one fault.
SPECIFICATION Spec
CONSTANTS
  c1 = c1
  c2 = c2
  ia = ia
  sys = sys
  Cases = {c1, c2}
  Closable = {c2}
  DueAt <- MCDueAt
  SoonTicks = 1
  Workers = {w1, w2}
  Runners = {r1}
  Scope = {c1, c2}
  Recipients <- MCRecipients
  LastTick = 1
  MaxFaults = 1
  MaxRuns = 1
  None = None
INVARIANTS
  TypeOK
  OneAlertADay
  NoneForgotten
  EscalatedAfterAlert
  ArchivedOnceWithDate
PROPERTIES
  ClosedIsArchived
  LateIsTold
CHECK_DEADLOCK FALSE
