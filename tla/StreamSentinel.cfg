CONSTANTS
  Streams = {1}
  Threads = 1
  MaxEvents = 3
  Watched = 1
SPECIFICATION FairSpec
PROPERTY StreamsClose
CHECK_DEADLOCK FALSE
