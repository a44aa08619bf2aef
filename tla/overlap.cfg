SPECIFICATION Spec
CONSTANTS
  c1 = c1
  c2 = c2
  c3 = c3
  s1 = s1
  s2 = s2
  t1 = t1
  t2 = t2
  t3 = t3
  NoTurn = NoTurn
  Chunks <- ThreeChunks
  Cost <- UnitCost
  MaxChunks = 2
  Budget = 3
  Sessions <- OneSession
  Turns <- TwoTurns
  SessionOf <- SameSession
  Streams <- StreamT2
  TopK = 2
  RerankTopK = 3
  RerankerEnabled = TRUE
  Durable = TRUE
  MaxOpen = 2
  MaxCrashes = 1
INVARIANTS
  TypeOK
  ContextIsCited
  RepliesToOwnQuery
SYMMETRY ChunkSymmetry
CHECK_DEADLOCK FALSE
