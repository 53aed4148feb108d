SPECIFICATION FairSpec
CONSTANTS
  Ids <- MCIds
  RawPlans <- MCRawPlans
  MaxTasks = 3
INVARIANTS
  CircularMeansCycle
  AcceptedIsDag
  LevelsAreReleased
PROPERTY Decided
CHECK_DEADLOCK FALSE
