\* The value that the answer gives.
SPECIFICATION HandlerSpec
CONSTANTS
  Waiters = {w1}
  Killers = {k1, k2}
  Handlers = {k1}
  Codes = {0, 3}
  ExitSignals = {9}
  Untimed = {}
  Faults = {}
INVARIANTS KillTellsOutcome
\* Finitely many calls: the program ends, or runs on with nobody waiting for it.
CHECK_DEADLOCK FALSE
