SPECIFICATION Spec
CONSTANTS
    Txns = {t1, t2, t3}
    Skippable = {t1, t2}
    MaxSkipsPerWindow = 2
    Window = 1
    MaxSkipBeforeQuarantine = 1
    QuarantineWindow = 2
    HistoryRetention = 2
    HistoryCap = 3
    MaxTime = 2
    MaxSkips = 3
    MaxClears = 1
SYMMETRY TxnSymmetry
CHECK_DEADLOCK FALSE
PROPERTY QuarantineSticky
