\* Two files, an outage of the server, any restarts of the executor, all faults.
SPECIFICATION FairSpec
CONSTANTS
  Main = main
  Watcher = watcher
  Tags = {config, result}
  Docs = {a, b}
  MaxRetry = 1
  MaxWrites = 3
  MaxOutages = 1
  Faults = {"request", "response", "save", "crash", "kill"}
INVARIANTS TypeOK SavedBeforeKnown StatusRecovered FilesRecovered OnePoster
PROPERTIES FinalStays ReportsEnd
\* The executor ends.
CHECK_DEADLOCK FALSE
