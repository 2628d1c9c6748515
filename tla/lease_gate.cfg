SPECIFICATION Spec
CONSTANTS
    TTL = 1
    Skew = 0
    AllowDataLossFailover = "on"
    MaxEpoch = 2
    MaxAttempts = 1
    MaxFaults = 2
INVARIANT TypeOK
PROPERTY FreshSourceNotTaken
