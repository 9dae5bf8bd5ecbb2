\* Two readers, all the shapes of the circular buffer.
SPECIFICATION FairSpec
CONSTANTS
  Reads = {r1, r2}
  MaxCapacity = 3
  InitialCapacity = 1
  Begins <- MCBegins
  Counts = {0, 1, 3}
  Chunks = {1, 2, 3, 4}
  MaxWritten = 6
  PurgeRatio = 8
  PurgeThreshold = 1000
  SizeMod = 65536
INVARIANTS TypeOK LastBytesKept DataFaithful
PROPERTIES ImplementsStream AnsweredCallsReturn
\* Finitely many calls and bytes: the buffer ends idle.
CHECK_DEADLOCK FALSE
