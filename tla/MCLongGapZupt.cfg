SPECIFICATION Spec
CONSTANTS
    RecoveryEnabled = TRUE
    Threshold = 2
    MaxAttempts = 4
    ConsensusFrames = 3
    Radius = 2
    MinCorrespondences = 1
    MaxCloneSize = 2
    MaxSlam = 1
    DtSlamDelay = 2
    TryZupt = TRUE
    ZuptOnlyAtBeginning = FALSE
    CamImuDt <- MCNegativeDt
    Slack = 2
    InitWindow = 2
    ImuPeriod = 2
    InOrder = TRUE
    PromptFirstFrame = TRUE
    MaxLag = 2
    MaxTime = 11
    Positions <- MCPositions
INVARIANTS
    ImuHistoryKept
PROPERTIES
    CommitNeedsConsensus
CHECK_DEADLOCK FALSE
