SPECIFICATION FairSpec
CONSTANTS
    FailureThreshold = 1
    RemoteUnreachableThreshold = 0
    AutoFailover = "on"
    AllowDataLossFailover = "off"
    AutoRecovery = "off"
    MaxAttempts = 1
    MaxRequests = 0
    MaxFaults = 2
CHECK_DEADLOCK FALSE
PROPERTY StuckAttemptEnds
