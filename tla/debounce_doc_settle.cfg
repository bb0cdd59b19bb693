SPECIFICATION Spec
CONSTANTS
    None = None
    c1 = c1
    c2 = c2
    c3 = c3
    Call <- two
    Delay <- same
    Timeout = 0
    AckTimeout = 1
    Horizon = 5
    Bounds <- calm
CHECK_DEADLOCK FALSE
INVARIANTS SettlesFirst
