CONSTANTS
  None = None
  Requests = {r1, r2, r3}
  Tenants = {a, b}
  Emails = {e1, e2}
  MaxSwitches = 2
  MaxFaults = 1
SPECIFICATION Spec
INVARIANTS TypeOK NoneServedStale AccountsWhole RefusedLeavesNoAccount
PROPERTIES KeysChangeByRotation
SYMMETRY AccountSymmetry
CHECK_DEADLOCK FALSE
