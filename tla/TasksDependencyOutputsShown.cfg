SPECIFICATION Spec
CONSTANTS
  Tasks <- MCTasks
  Plans <- MCPlans
  MaxRounds = 2
  MaxRetries = 3
INVARIANT DependencyOutputsShown
CHECK_DEADLOCK FALSE
