CONSTANTS
  None = None
  a = a
  b = b
  w1 = w1
  w2 = w2
  Workers = {w1, w2}
  Tenants = {a, b}
  Sources = {"x.pdf", "y.pdf", "z.pdf"}
  Files = {1, 2}
  Batches <- MCBatches
  TenantOf <- MCTenantOf
  SourceOf <- MCSourceOf
  Settings <- Reingested
  Readable = {1, 2}
  MaxRetries = 1
  MaxFaults = 2
SPECIFICATION Spec
SYMMETRY WorkerSymmetry
INVARIANTS TypeOK ExclusiveUnlessLapsed CompletedRunIntact FindableUnlessTorn
CHECK_DEADLOCK FALSE
