CONSTANTS
  None = None
  Unreadable = Unreadable
  w1 = w1
  w2 = w2
  cmd = cmd
  Savers = {w1, w2, cmd}
  Locking = {w1, w2}
  Docs = {1, 2, 3, 4}
  SourceOf <- MCSourceOf
  Chunked = {1, 2, 3}
  Batches <- MCBatches
  MaxFaults = 3
SPECIFICATION Spec
SYMMETRY WorkerSymmetry
INVARIANTS TypeOK ReadableUnlessScarred NothingForgotten LockSuffices
PROPERTIES ImplementsAtomicIndex
CHECK_DEADLOCK FALSE
