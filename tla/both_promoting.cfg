SPECIFICATION Spec
CONSTANTS
    TTL = 1
    Skew = 0
    AllowDataLossFailover = "off"
    MaxEpoch = 2
    MaxAttempts = 1
    MaxFaults = 0
INVARIANT OnePromoter
