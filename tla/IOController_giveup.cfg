\* What giving up a kill does to the I/O thread.
SPECIFICATION FairSpec
CONSTANTS
  Main = main
  Killers = {k1}
  Codes = {0}
  ExitSignals = {9}
  Untimed = {}
  Faults = {}
  MaxOutput = 1
  PipeCapacity = 2
  PumpSize = 2
  SaveSize = 2
  MaxCapacity = 3
PROPERTIES GiveUpStopsPump
\* main() ends, or waits for a program that does not end.
CHECK_DEADLOCK FALSE
