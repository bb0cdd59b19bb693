SPECIFICATION FairSpec
CONSTANTS
    None = None
    Steps = 3
    StepRetries = 1
    MaxRetries = 1
    MinDelay = 1
    MaxDelay = 3
    MaxElapsed = 4
    Sends <- sends
    Bounds <- restart
CHECK_DEADLOCK FALSE

PROPERTIES SurvivesRestart
