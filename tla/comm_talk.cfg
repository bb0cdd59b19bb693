SPECIFICATION FairSpec
CONSTANTS
  w1 = w1  w2 = w2  r1 = r1  r2 = r2  r3 = r3
  None = None
  Workflow = {w1, w2}
  Programs <- Talks
  Bounds <- Pairs
  Time <- TwoTimes
  Longest = 3
  Run = {r1, r2}
INVARIANTS TypeOK ReceivedOnce ReceivedByAge NothingEndsEarly
PROPERTIES Memoized StreamOnlyGrows Finishes
CHECK_DEADLOCK FALSE
