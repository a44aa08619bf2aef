SPECIFICATION Spec
CONSTANTS
  p1 = p1
  p2 = p2
  t1 = t1
  t2 = t2
  r1 = r1
  r2 = r2
  u1 = u1
  u2 = u2
  None = None
  Procs = {p1, p2}
  Tenants = {t1, t2}
  Requests = {r1, r2}
  Updates = {u1, u2}
  Defaults <- MCDefaults
  Bodies <- MCBodies
  Pinned <- MCPinned
  MaxCache = 1
  MaxEarlier = 1
  MaxNodes = 1
  MaxRestarts = 1
SYMMETRY Symmetry
INVARIANTS
  TypeOK
  CacheIsCommitted
  StaleOnlyByRace
  ConfigsAreTheTenants
  VersionsCount
CHECK_DEADLOCK FALSE
