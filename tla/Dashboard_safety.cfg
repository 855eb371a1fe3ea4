\* Two clients and two ids, in one run or in two of which the tail of the
\* first overlaps the second; one worker may panic.
CONSTANTS
  Handlers = {h1, h2}
  MaxBatchTasks = 2
  MaxIds = 2
  MaxSteps = 2
  MaxBacklog = 1
  MaxPanics = 1
SPECIFICATION FairSpec
INVARIANTS TypeOK RunningCoversWork RunningHasOwner ChainReportAccurate
PROPERTIES FinishedIsLast ImplementsBatch LaunchedTaskSettles
\* A dashboard with no id left to hand out and nothing to run is at rest.
CHECK_DEADLOCK FALSE
