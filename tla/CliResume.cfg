CONSTANTS
  None = None
  a = a
  b = b
  Tenants = {a}
  Sources = {"x.pdf", "y.pdf"}
  Files = {1, 2, 3}
  Batches <- MCBatches
  SourceOf <- MCSourceOf
  Readable = {1, 2, 3}
  Settings <- Serial
  Selections <- Corpus
  MaxRuns = 2
  MaxEdits = 0
  MaxFaults = 1
SPECIFICATION Spec
INVARIANTS ExitMeansSearchable
CHECK_DEADLOCK FALSE
