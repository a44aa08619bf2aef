SPECIFICATION FairSpec
CONSTANTS
  c1 = c1
  c2 = c2
  c3 = c3
  s1 = s1
  s2 = s2
  t1 = t1
  t2 = t2
  t3 = t3
  NoTurn = NoTurn
  Chunks <- OneChunk
  Cost <- UnitCost
  MaxChunks = 2
  Budget = 2
  Sessions <- TwoSessions
  Turns <- ThreeTurns
  SessionOf <- SplitSession
  Streams <- StreamT2
  TopK = 1
  RerankTopK = 2
  RerankerEnabled = TRUE
  Durable = TRUE
  MaxOpen = 1
  MaxCrashes = 1
INVARIANTS
  AnswersAreRemembered
PROPERTIES
  IsConversation
  EveryTurnEnds
CHECK_DEADLOCK FALSE
