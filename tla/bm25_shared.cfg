SPECIFICATION Spec
CONSTANTS
  p1 = p1
  p2 = p2
  d1 = d1
  d2 = d2
  d3 = d3
  x1 = x1
  x2 = x2
  w1 = w1
  w2 = w2
  a = a
  b = b
  NoText = NoText
  NoFile = NoFile
  Torn = Torn
  Procs <- TwoProcs
  Docs <- TwoDocs
  Texts <- MCTexts
  Terms <- MCTerms
  TermsOf <- MCTermsOf
  LenOf <- MCLenOf
  Tenants <- MCTenants
  TenantOf <- MCTenantOf
  TopK = 1
  MaxBatch = 1
  Faults = TRUE
INVARIANTS
  TypeOK
  Bookkeeping
  LengthsAddUp
  TenantsFindTheirOwn
SYMMETRY ProcSymmetry
