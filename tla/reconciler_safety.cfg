SPECIFICATION Spec
CONSTANTS
    FailureThreshold = 2
    RemoteUnreachableThreshold = 1
    AutoFailover = "on"
    AllowDataLossFailover = "on"
    AutoRecovery = "on"
    MaxAttempts = 2
    MaxRequests = 1
    MaxFaults = 1
CHECK_DEADLOCK FALSE
INVARIANTS TypeOK ManualOneAttempt FailoverSustained NotDeletedMidAttempt
PROPERTY DegradedHolds
