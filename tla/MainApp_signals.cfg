\* Two signals and a request for /_kill, at any place of any thread.
SPECIFICATION FairSpec
CONSTANTS
  Main = main
  Reaper = reaper
  Http = {h1}
  Signals = {SIGINT, SIGTERM}
  MaxSignals = 2
  Entries = 2
  NoExits = {TRUE, FALSE}
INVARIANTS TypeOK HandlerInScope AloneNoDeadlock SizeReported
PROPERTIES KillEndsProgram EndsAfterOneCall
\* main() returns; and two calls of kill() may wait for each other's mutexes.
CHECK_DEADLOCK FALSE
