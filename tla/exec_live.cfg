SPECIFICATION FairSpec
CONSTANTS
  e1 = e1  e2 = e2  w1 = w1  w2 = w2  r1 = r1  r2 = r2  r3 = r3  v1 = v1  v2 = v2
  None = None
  StepFailed = StepFailed
  Executor = {e1, e2}
  Workflow = {w1, w2}
  Run = {r1, r2, r3}
  Value = {v1}
  NumSteps = 1
  MaxRetries = 0
  Calls <- OwnerCalls
  Enqueues <- EnqueueW2
  MaxCrashes = 1
  MaxCancels = 0
  MaxResumes = 0
  MaxPasses = 0
PROPERTIES Settles
CHECK_DEADLOCK FALSE
