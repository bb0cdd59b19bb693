SPECIFICATION FairSpec
CONSTANTS
  e1 = e1  e2 = e2  w1 = w1  w2 = w2  w3 = w3
  None = None
  Executor = {e1, e2}
  Workflow = {w1, w2}
  Atomic = FALSE
  GlobalLimit = 2
  WorkerLimit = 1
  StartLimit = 1
  Period = 1
  MaxTasks = 3
  Priority <- SamePriority
  Delay <- OneDelayed
  MaxCrashes = 1
  MaxCancels = 1
  MaxPasses = 1
  MaxMishaps = 2
  MaxFailures = 0
PROPERTIES EveryWorkflowRuns
INVARIANTS ClaimedOnce WorkerLimitHolds
