SPECIFICATION FairSpec
CONSTANTS
    TTL = 2
    Skew = 1
    AllowDataLossFailover = "on"
    MaxEpoch = 5
    MaxAttempts = 2
    MaxFaults = 0
INVARIANT NewSourceBumpsEpoch
PROPERTIES FreshSourceNotTaken LeaseSettles
