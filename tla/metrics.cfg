SPECIFICATION Spec
CONSTANTS
  c1 = c1
  c2 = c2
  c3 = c3
  Chunks = {c1, c2, c3}
  Cost <- UnitCost
  MaxChunks = 2
  Budget = 3
  Unset = Unset
  TopK = 10
  RetrieveK = 2
  Gain <- MCGain
  Snippet <- MCSnippet
  Answers <- MCAnswers
  SkipJudge = FALSE
  JudgeScores = {1, 5}
  MaxSamples = 2
INVARIANTS
  MetricsAreScores
CHECK_DEADLOCK FALSE
