CONSTANTS
  None = None
  a = a
  b = b
  Tenants = {a, b}
  Sources = {"x.pdf", "y.pdf"}
  Files = {1, 2, 3}
  Batches <- MCBatches
  SourceOf <- MCSourceOf
  Readable = {1, 3}
  Settings <- MCSettings
  Selections <- MCSelections
  MaxRuns = 3
  MaxEdits = 2
  MaxFaults = 2
SPECIFICATION Spec
INVARIANTS TypeOK EntriesBacked KeywordSingle ResetRebuilds
CHECK_DEADLOCK FALSE
