\* Three uploads, any number of requests to the case, two purges that may overlap,
\* one fault.
SPECIFICATION Spec
CONSTANTS
  MaxDocs = 3
  MaxOriginals = 1
  PurposeOf <- MCPurposeOf
  Required = {"EVIDENCE"}
  LastDay = 1
  ByHand <- MCByHand
  RetentionDays = 1
  Purgers = {"worker", "manual"}
  Worker = "worker"
  MaxFaults = 1
  None = None
  Kept = Kept
INVARIANTS
  TypeOK
  KeptUntilDue
  PurgedIsGone
  VersionHistory
  SentWithDocuments
PROPERTY DueIsPurged
CHECK_DEADLOCK FALSE
