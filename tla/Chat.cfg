CONSTANTS
  None = None
  a = a
  b = b
  p1 = p1
  p2 = p2
  how = how
  what = what
  Requests = {1, 2}
  Streams = {2}
  Watched = 2
  Processes = {p1, p2}
  Tenants = {a}
  Questions = {how, what}
  TenantOf <- MCTenantOf
  QuestionOf <- MCQuestionOf
  Similar <- MCSimilar
  GuardOn = TRUE
  MaxPrompts = 1
  MaxTokens = 1
  MaxFaults = 2
SPECIFICATION Spec
INVARIANTS TypeOK ReplaysPassed OutagesHeal
PROPERTIES StreamWellFormed
SYMMETRY ProcessSymmetry
CHECK_DEADLOCK FALSE
