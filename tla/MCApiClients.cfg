\* One client, three versions, one token request, two administrators' requests
\* that may overlap.
SPECIFICATION Spec
CONSTANTS
  bank = bank
  tax = tax
  Clients = {k1}
  Institutions = {bank}
  Scopes = {"cases:read", "documents:read"}
  Parties <- MCParties
  Admins = {a1, a2}
  Machines = {m1}
  System = System
  MaxVersion = 3
  Secrets = {s1, s2, s3}
  None = None
INVARIANTS
  TypeOK
  ApartChangesEndTokens
SYMMETRY Symmetry
CHECK_DEADLOCK FALSE
