\* All faults of the executor, one thread that kills.
SPECIFICATION FairSpec
CONSTANTS
  Main = main
  Killers = {k1}
  Codes = {0}
  ExitSignals = {9}
  Untimed = {}
  Faults = {"fork", "waitpid", "read"}
  MaxOutput = 4
  PipeCapacity = 2
  PumpSize = 2
  SaveSize = 2
  MaxCapacity = 3
INVARIANTS TypeOK NoByteLost OutputComplete SavedTail RunRecorded
PROPERTIES PipeDrains OutputSaved
\* main() ends, or waits for a program that does not end.
CHECK_DEADLOCK FALSE
