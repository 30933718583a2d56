CONSTANTS
  Streams = {1, 2}
  Threads = 1
  MaxEvents = 3
  Watched = 1
SPECIFICATION FairSpec
INVARIANTS TypeOK NothingLost
PROPERTIES ReaderSeesStream ThreadsComeFree StreamsCloseUnlessLate
CHECK_DEADLOCK FALSE
