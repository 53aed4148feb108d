SPECIFICATION CallFairSpec
CONSTANTS
  Requests = {r1, r2}
  DefaultMode = "openai_only"
  MaxFaults = 1
  MaxRestarts = 2
  Agents = {a1}
  Jobs <- MCJobs
  Reflections <- MCReflections
  Reported <- MCReported
INVARIANTS
  SerialSwitchesAgree
  OneModePerAgent
  PromptFits
  VerdictGuarded
PROPERTY
  CallEnds
CHECK_DEADLOCK FALSE
