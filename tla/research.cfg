SPECIFICATION Spec
CONSTANTS
  c1 = c1
  c2 = c2
  Chunks = {c1, c2}
  TopK = 1
  MinSubs = 3
  MaxSubs = 5
INVARIANTS
  FindingsReachSynthesizer
CHECK_DEADLOCK FALSE
