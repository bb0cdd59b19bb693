SPECIFICATION Spec
CONSTANTS
  e1 = e1  e2 = e2  w1 = w1  w2 = w2  r1 = r1  r2 = r2  r3 = r3  v1 = v1  v2 = v2
  None = None
  StepFailed = StepFailed
  Executor = {e1, e2}
  Workflow = {w1}
  Run = {r1, r2, r3}
  Value = {v1, v2}
  NumSteps = 2
  MaxRetries = 1
  Calls <- BothCall
  Enqueues <- CallsNone
  MaxCrashes = 2
  MaxCancels = 1
  MaxResumes = 0
  MaxPasses = 1
SYMMETRY Symmetry3
INVARIANTS TypeOK SeenIsRecorded ErrorMatchesJournal JournalIsPrefix StartsWithinBudget
PROPERTIES ImplementsDurableExecution
CHECK_DEADLOCK FALSE
