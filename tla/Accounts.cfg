SPECIFICATION Spec
CONSTANTS
  c1 = c1
  c2 = c2
  c3 = c3
  Clients <- MCClients
  Email <- MCEmail
  Password <- MCPassword
  Limit = 1
  MaxSessions = 2
  MaxResets = 1
INVARIANTS
  OneAccount
  AnswersScoped
  PagesCover
CHECK_DEADLOCK FALSE
SYMMETRY Interchangeable
