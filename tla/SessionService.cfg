SPECIFICATION FairSpec
CONSTANTS
  Conns = {c1, c2}
  Aborters = {a1}
  Scores <- MCGateScores
  Threshold = 8500
  MaxIterations = 1
  WriteThreshold = 7000
  MaxDbErrors = 1
  MaxCrashes = 1
INVARIANTS
  StatusHasCause
  DonePersisted
PROPERTIES
  SettledStays
  RunningEnds
  OpenClientHears
CHECK_DEADLOCK FALSE
