SPECIFICATION Spec
CONSTANTS
  l1 = l1
  l2 = l2
  b1 = b1
  b2 = b2
  e1 = e1
  e2 = e2
  n1 = n1
  t1 = t1
  t2 = t2
  i1 = i1
  p1 = p1
  p2 = p2
  None = None
  Logins = {l1, l2}
  Browsers = {b1, b2}
  Emails = {e1, e2}
  Names = {n1}
  Providers = {"google", "github"}
  ClientIds = {"google", "github"}
  ClientSecrets = {"google"}
  Tenants = {t1, t2}
  Roles = {"ADMIN", "EDITOR"}
  Interrupts = {i1}
  Procs = {p1, p2}
  RequireToken = FALSE
  MaxAnswers = 2
  MaxRestarts = 2
SYMMETRY Symmetry
INVARIANTS
  TypeOK
  OneUserPerEmail
  TokensCarryTheTenant
  MembershipIsAssigned
  ApprovalsAreDecidedOnce
CHECK_DEADLOCK FALSE
