CONSTANTS
  None = None
  r1 = r1
  r2 = r2
  r3 = r3
  r4 = r4
  p1 = p1
  p2 = p2
  k1 = k1
  k2 = k2
  k3 = k3
  Requests = {r1, r2, r3, r4}
  Processes = {p1, p2}
  Keys = {k1, k2, k3}
  Prefix <- MCPrefix
  CallerOf <- MCCallerOf
  Limit = 1
  Window = 2
  MaxTime = 1
  MaxFaults = 0
SPECIFICATION Spec
INVARIANTS CountedWhileUp
CHECK_DEADLOCK FALSE
