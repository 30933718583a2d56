CONSTANTS
  None = None
  a = a
  b = b
  w1 = w1
  w2 = w2
  Workers = {w1, w2}
  Tenants = {a, b}
  Sources = {"x.pdf", "y.pdf", "z.pdf"}
  Files = {1, 2, 3, 4, 5}
  Batches <- MCBatches
  TenantOf <- MCTenantOf
  SourceOf <- MCSourceOf
  Settings <- Mixed
  Readable = {1, 2, 3, 4}
  MaxRetries = 1
  MaxFaults = 1
SPECIFICATION FairSpec
INVARIANTS FindableUnlessTorn CompletedRunIntact
PROPERTIES JobsSettle
CHECK_DEADLOCK FALSE
