SPECIFICATION StreamFairSpec
CONSTANTS
  Runs = {r1, r2}
  Followed = {r1}
  MaxLag = 2
  Bodies <- MCBodies
  Hints <- MCHints
  Plans <- MCPlans
  Scores <- MCScores
  Threshold = 8500
  MaxIterations = 2
  RecursionLimit = 11
  MaxLapses = 1
INVARIANTS
  QualityGate
  RunBounded
  ResultExplained
  RepeatsPaidFor
  PageFollows
  VerdictSound
PROPERTIES
  VerdictEndsRun
  ImplementsPipelineRun
CHECK_DEADLOCK FALSE
