SPECIFICATION Spec
CONSTANTS
    RecoveryEnabled = TRUE
    Threshold = 2
    MaxAttempts = 4
    ConsensusFrames = 2
    Radius = 2
    MinCorrespondences = 1
    MaxCloneSize = 2
    MaxSlam = 1
    DtSlamDelay = 2
    TryZupt = FALSE
    ZuptOnlyAtBeginning = FALSE
    CamImuDt = 0
    Slack = 1
    InitWindow = 2
    ImuPeriod = 1
    InOrder = TRUE
    PromptFirstFrame = TRUE
    MaxLag = 2
    MaxTime = 12
    Positions <- MCPositions
PROPERTIES
    NoPropagationThroughOutage
CHECK_DEADLOCK FALSE
