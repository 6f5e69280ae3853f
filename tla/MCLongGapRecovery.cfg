SPECIFICATION Spec
CONSTANTS
    RecoveryEnabled = TRUE
    Threshold = 2
    MaxAttempts = 3
    ConsensusFrames = 2
    Radius = 2
    MinCorrespondences = 1
    MaxCloneSize = 2
    MaxSlam = 1
    DtSlamDelay = 2
    TryZupt = FALSE
    ZuptOnlyAtBeginning = FALSE
    CamImuDt <- MCNegativeDt
    Slack = 1
    InitWindow = 2
    ImuPeriod = 1
    InOrder = TRUE
    PromptFirstFrame = TRUE
    MaxLag = 2
    MaxTime = 16
    Positions <- MCPositions
INVARIANTS
    OutagesAccounted
    NewMapIsFresh
PROPERTIES
    ImplementsContract
CHECK_DEADLOCK FALSE
