SPECIFICATION Spec
CONSTANTS
  j1 = j1
  j2 = j2
  x1 = x1
  x2 = x2
  w1 = w1
  w2 = w2
  a = a
  b = b
  NoText = NoText
  NoFile = NoFile
  Torn = Torn
  Jobs <- MCJobs
  JobTenant <- MCJobTenant
  Texts <- MCTexts
  Files <- MCFiles
  MaxChunks = 3
  Names <- MCNames
  Folded <- MCFolded
  Extractions <- MCExtractions
  MaxCrashes = 1
  Terms <- MCTerms
  TermsOf <- MCTermsOf
  LenOf <- MCLenOf
  Tenants <- MCTenants
  TopK = 1
INVARIANTS
  TypeOK
  VectorsMatchTexts
  KeywordIsStored
  OutcomesAreTrue
  GraphIsGrounded
  CleanIsPersisted
CHECK_DEADLOCK FALSE
