SPECIFICATION FairSpec
CONSTANTS
    None = None
    c1 = c1
    c2 = c2
    c3 = c3
    Call <- three
    Delay <- delays
    Timeout = 2
    AckTimeout = 1
    Horizon = 3
    Bounds <- several
CHECK_DEADLOCK FALSE
INVARIANTS TypeOK LatestInputWins FiresOnceInTime
PROPERTIES Completes
