SPECIFICATION Spec
CONSTANTS
    Local = local
    Remote = remote
    MaxTxns = 3
    MaxAttempts = 2
CHECK_DEADLOCK FALSE
INVARIANTS TypeOK LossAccountedFor NoGapMeansCaughtUp
