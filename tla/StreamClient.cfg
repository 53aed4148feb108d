SPECIFICATION FairSpec
CONSTANTS
  Sessions = {"a", "b"}
  MaxRetries = 2
  MaxVisits = 2
  MaxDrops = 1
INVARIANTS
  AttemptsBounded
  OneStream
  NeverStuck
PROPERTY ComesToRest
CHECK_DEADLOCK FALSE
