\* A server that recovers while a status is saved.
SPECIFICATION Spec
CONSTANTS
  Main = main
  Watcher = watcher
  Tags = {result}
  Docs = {a, b}
  MaxRetry = 1
  MaxWrites = 1
  MaxOutages = 1
  Faults = {}
INVARIANTS MissingEventsBack
\* The executor ends.
CHECK_DEADLOCK FALSE
