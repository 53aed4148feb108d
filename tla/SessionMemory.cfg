SPECIFICATION Spec
CONSTANTS
  Conns = {c1}
  Aborters = {}
  Scores <- MCScores
  Threshold = 8500
  MaxIterations = 2
  WriteThreshold = 7000
  MaxDbErrors = 0
  MaxCrashes = 0
INVARIANT GoodRunRemembered
CHECK_DEADLOCK FALSE
