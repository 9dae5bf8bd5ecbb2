\* A signal against the wait for it.
SPECIFICATION FairSpec
CONSTANTS
  Main = main
  Reaper = reaper
  Http = {}
  Signals = {SIGINT, SIGTERM}
  MaxSignals = 1
  Entries = 1
  NoExits = {TRUE}
PROPERTIES SignalEndsWait
\* main() returns, or waits for a signal that does not come.
CHECK_DEADLOCK FALSE
