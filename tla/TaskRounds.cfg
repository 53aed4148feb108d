SPECIFICATION FairSpec
CONSTANTS
  Tasks <- MCTasks
  Plans <- MCPlans
  MaxRounds = 3
  MaxRetries = 3
INVARIANTS
  DependenciesFirst
  RoundAccounted
PROPERTY RoundEnds
CHECK_DEADLOCK FALSE
