SPECIFICATION LiveSpec
CONSTANTS
    RecoveryEnabled = TRUE
    Threshold = 2
    MaxAttempts = 3
    ConsensusFrames = 2
    Radius = 2
    MinCorrespondences = 1
    MaxCloneSize = 2
    MaxSlam = 1
    DtSlamDelay = 2
    TryZupt = FALSE
    ZuptOnlyAtBeginning = FALSE
    CamImuDt = 0
    Slack = 1
    InitWindow = 2
    ImuPeriod = 2
    InOrder = FALSE
    PromptFirstFrame = TRUE
    MaxLag = 2
    MaxTime = 8
    Positions <- MCPositions
PROPERTIES
    StateTimeMonotone
    PropagationHasImu
    OutageResolves
CHECK_DEADLOCK FALSE
