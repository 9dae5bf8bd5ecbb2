\* A buffer of three bytes, read in pieces of at most two.
SPECIFICATION FairSpec
CONSTANTS
  MaxCapacity = 3
  RequestBufferSize = 2
  ReadCounts = {0, 1, 3}
  Chunks = {1, 2, 4}
  MaxWritten = 7
  MaxBreaks = 1
INVARIANTS TypeOK ResponseFaithful NothingSkipped
PROPERTIES ClientGetsToEnd
\* The client is told that the program has exited.
CHECK_DEADLOCK FALSE
