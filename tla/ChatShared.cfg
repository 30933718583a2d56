CONSTANTS
  None = None
  a = a
  b = b
  p1 = p1
  p2 = p2
  how = how
  what = what
  Requests = {1, 2}
  Streams = {2}
  Watched = 2
  Processes = {p1, p2}
  Tenants = {a, b}
  Questions = {how}
  TenantOf <- TwoTenantOf
  QuestionOf <- SameQuestionOf
  Similar <- TwoSimilar
  GuardOn = TRUE
  MaxPrompts = 0
  MaxTokens = 1
  MaxFaults = 0
SPECIFICATION Spec
INVARIANT EntriesNotShared
CHECK_DEADLOCK FALSE
