SPECIFICATION Spec
CONSTANTS
  Calls = {c1, c2, c3}
  Users <- MCUsers
  Sessions = {"s1", "s2"}
  Owner <- MCOwner
  Texts <- MCTexts
  Length <- MCLength
  Qualities = {69, 70}
  MaxStored = 2502
  Prefix = 8000
  Threshold = 70
  TopK = 1
  MaxFaults = 2
INVARIANTS
  CacheCoherent
  IndexSound
  RecallScoped
  CacheOutageTolerated
CHECK_DEADLOCK FALSE

SYMMETRY Interchangeable
