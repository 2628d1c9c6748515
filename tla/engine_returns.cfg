SPECIFICATION FairSpec
CONSTANTS
    Local = local
    Remote = remote
    KubeAPI = {local, remote}
    CRDApplyRetries = 2
    Instances = {p1}
    WriterServesReads = TRUE
    MaxAttempts = 1
    MaxRestarts = 2
    MayCrash = TRUE
PROPERTY ExecuteReturns
