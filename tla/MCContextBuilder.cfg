SPECIFICATION Inputs
CONSTANTS
  c1 = c1
  c2 = c2
  c3 = c3
  Chunks <- MCChunks
  Cost <- MCCost
  Scores <- MCScores
  MaxChunks = 2
  Budget = 3
  MaxInput = 5
INVARIANTS
  LoopsBuildTheContext
  SkippedOnlyForBudget
CHECK_DEADLOCK FALSE
