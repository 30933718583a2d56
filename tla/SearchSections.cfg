CONSTANTS
  None = None
  Sections = {1, 2, 3, 4, 5}
  Chunks = {11, 12, 13, 14, 15, 16}
  SectionOf <- MCSectionOfChunk
  OwnerOf <- MCOwnerOf
  PlaceOf <- MCPlaceOf
  TextOf <- MCTextOf
  Asker = "us"
  Queries <- MCQueries
  Settings <- MCSettings
  FetchK = 2
  BM25K = 2
  Weights <- MCWeights
  Denominator <- MCDenominator
  TopK = 1
  WideTopK = 2
  MaxScore = 2
  Floor = 1
  Relaxed = 1
SPECIFICATION Spec
INVARIANT SectionsCollapse
CHECK_DEADLOCK FALSE
