SPECIFICATION FairSpec
CONSTANTS
  p1 = p1  p2 = p2
  Process = {p1, p2}
  Slots = 2
  Autos <- Backfilled
  Kinds <- BothKinds
  Ticks <- OddTicks
  Second = 1
  Horizon = 4
  Bounds <- Several
INVARIANTS TypeOK OneTaskFires NoTickLost
PROPERTIES Follows
CHECK_DEADLOCK FALSE
