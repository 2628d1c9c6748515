SPECIFICATION Spec
CONSTANTS
    Local = local
    Remote = remote
    KubeAPI = {local}
    CRDApplyRetries = 0
    Instances = {p1, p2}
    WriterServesReads = FALSE
    MaxAttempts = 2
    MaxRestarts = 1
    MayCrash = TRUE
SYMMETRY InstanceSymmetry
INVARIANTS TypeOK DualWritersExplained SingleWritePath
PROPERTIES SuccessMeansSwitched MovesWriteRole
