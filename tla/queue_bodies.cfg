SPECIFICATION Spec
CONSTANTS
  e1 = e1  e2 = e2  w1 = w1  w2 = w2  w3 = w3
  None = None
  Executor = {e1, e2}
  Workflow = {w1, w2, w3}
  Atomic = TRUE
  GlobalLimit = 2
  WorkerLimit = None
  StartLimit = 2
  Period = 2
  MaxTasks = 3
  Priority <- Urgent
  Delay <- OneDelayed
  MaxCrashes = 1
  MaxCancels = 0
  MaxPasses = 0
  MaxMishaps = 2
  MaxFailures = 1
INVARIANTS TypeOK GlobalLimitHolds BodiesWithinGlobal StartsWithinRate
