\* Four readers, so that requests are cancelled and the heap is rebuilt.
SPECIFICATION Spec
CONSTANTS
  Reads = {r1, r2, r3, r4}
  MaxCapacity = 1
  InitialCapacity = 1
  Begins = {0, 1}
  Counts = {2}
  Chunks = {1, 2}
  MaxWritten = 2
  PurgeRatio = 2
  PurgeThreshold = 1
  SizeMod = 65536
SYMMETRY Symmetry
INVARIANTS WaitersListed CountersExact
PROPERTIES ReturnedArraysUntouched
\* Finitely many calls and bytes: the buffer ends idle.
CHECK_DEADLOCK FALSE
