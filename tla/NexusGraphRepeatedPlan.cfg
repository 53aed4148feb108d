SPECIFICATION Spec
CONSTANTS
  Runs = {r1}
  Bodies <- MCBodies
  Hints <- MCHints
  Plans <- MCPlans
  Scores <- MCScores
  Threshold = 8500
  MaxIterations = 3
  RecursionLimit = 25
  MaxLapses = 0
INVARIANT RepeatedPlanExits
CHECK_DEADLOCK FALSE
