SPECIFICATION SandboxFairSpec
CONSTANTS
  Processes = {p1, p2}
  Calls = {c1, c2, c3}
  Workers = 2
  Timeout = 2
  Grace = 1
  MaxOrphans = 2
  MaxFailures = 1
INVARIANTS
  ServerAnswersFirst
  FilesAccounted
PROPERTY EventLoopReleased
CHECK_DEADLOCK FALSE
