SPECIFICATION FairSpec
CONSTANTS
    Process = {e1, e2}
    None = None
    Steps = 2
    Timeout = 1
    Horizon = 1
    Id <- ids
    Root <- root
    Forked <- forked
    Queued <- queued
    Hangs <- hangs
    Bounds <- several
CHECK_DEADLOCK FALSE
INVARIANTS TypeOK ChildrenAgree
PROPERTIES GoneForGood Settles
