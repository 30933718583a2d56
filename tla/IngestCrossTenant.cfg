CONSTANTS
  None = None
  a = a
  b = b
  w1 = w1
  w2 = w2
  Workers = {w1, w2}
  Tenants = {a, b}
  Sources = {"x.pdf", "y.pdf", "z.pdf"}
  Files = {1, 2, 3}
  Batches <- MCBatches
  TenantOf <- MCTenantOf
  SourceOf <- MCSourceOf
  Settings <- TwoTenants
  Readable = {1, 2, 3}
  MaxRetries = 1
  MaxFaults = 0
SPECIFICATION Spec
PROPERTIES VectorsRemovedByOwner
CHECK_DEADLOCK FALSE
