SPECIFICATION Spec
CONSTANTS
    Txns = {t1, t2, t3}
    Skippable = {t1, t2}
    MaxSkipsPerWindow = 1
    Window = 1
    MaxSkipBeforeQuarantine = 1
    QuarantineWindow = 2
    HistoryRetention = 2
    HistoryCap = 2
    MaxTime = 5
    MaxSkips = 3
    MaxClears = 2
SYMMETRY TxnSymmetry
CHECK_DEADLOCK FALSE
INVARIANTS TypeOK SkipRateBounded BurstQuarantined OneReleasePerRequest
PROPERTY QuarantineStopsSkips
