SPECIFICATION FairSpec
CONSTANTS
    Local = local
    Remote = remote
    StaticToken = FALSE
    MaxPolls = 1
    MaxLate = 1
    MaxAttempts = 2
CHECK_DEADLOCK FALSE
INVARIANTS TypeOK DualWritersNeedLostOperation ReportsMatchSources
PROPERTY CallsReturn
