SPECIFICATION Spec
CONSTANTS
  c1 = c1
  c2 = c2
  c3 = c3
  s1 = s1
  s2 = s2
  t1 = t1
  t2 = t2
  t3 = t3
  NoTurn = NoTurn
  Chunks <- TwoChunks
  Cost <- UnitCost
  MaxChunks = 2
  Budget = 3
  Sessions <- OneSession
  Turns <- TwoTurns
  SessionOf <- SameSession
  Streams <- NoStreams
  TopK = 2
  RerankTopK = 2
  RerankerEnabled = TRUE
  Durable = TRUE
  MaxOpen = 1
  MaxCrashes = 0
INVARIANTS
  MarkersNameSources
CHECK_DEADLOCK FALSE
