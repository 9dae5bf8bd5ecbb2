\* The end of the program against the last wait of kill().
SPECIFICATION Spec
CONSTANTS
  Waiters = {w1}
  Killers = {k1}
  Codes = {0, 3}
  ExitSignals = {9}
  Untimed = {}
  Faults = {}
INVARIANTS CannotKillNotStopped
\* Finitely many calls: the program ends, or runs on with nobody waiting for it.
CHECK_DEADLOCK FALSE
