\* main and another waiter, its scope guard and two more threads that kill, one
\* of which answers a request, and all faults.
SPECIFICATION ReportSpec
CONSTANTS
  Main = main
  ScopeGuard = scope
  Waiters = {main, w1}
  Killers = {scope, k1, k2}
  Handlers = {k1}
  Codes = {0, 3}
  ExitSignals = {9}
  Untimed = {}
  Faults = {"fork", "waitpid"}
INVARIANTS TypeOK EscalatesOnce WaitersWoken OutcomeKnown KillAnswerSound OutcomeTold
PROPERTIES NoSignalAfterEnd CallsReturn
\* Finitely many calls: the program ends, or runs on with nobody waiting for it.
CHECK_DEADLOCK FALSE
