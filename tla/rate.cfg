SPECIFICATION USpec
CONSTANTS
  r1 = r1
  r2 = r2
  r3 = r3
  u1 = u1
  u2 = u2
  a = a
  Requests <- MCRequests
  Users <- MCUsers
  Tenants <- MCTenants
  UserOf <- MCUserOf
  TenantOf <- MCTenantOf
  UserPerMin = 1
  TenantPerMin = 1
  MaxOpen = 2
  MaxWindow = 2
  Streams <- MCStreams
  MonthOf <- MCMonthOf
  TokenCap = 1
  MaxTokens = 2
INVARIANTS
  UTypeOK
  OverdraftIsBounded
  DenialsAreJust
  BucketsAgree
  BilledIsServed
SYMMETRY RequestSymmetry
CHECK_DEADLOCK FALSE
