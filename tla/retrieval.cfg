SPECIFICATION Spec
CONSTANTS
  c1 = c1
  c2 = c2
  c3 = c3
  c4 = c4
  d1 = d1
  d2 = d2
  d3 = d3
  a = a
  b = b
  ann = ann
  bob = bob
  None = None
  Chunks <- MCChunks
  DocOf <- MCDocOf
  TenantOf <- MCTenantOf
  Permissions <- MCPermissions
  Inputs <- MCInputs
  Matched <- MCMatched
  EntityTenant <- MCEntityTenant
  Mentions <- MCMentions
  TopN = 3
  RrfK = 60
INVARIANTS
  TypeOK
  AgreementWins
  ScopedAnswersAreOwn
  WalkRanksByEntities
  AnswersAreReadable
PROPERTIES
  NothingDisplaced
CHECK_DEADLOCK FALSE
