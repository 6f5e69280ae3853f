SPECIFICATION SuiteSpec
CONSTANTS
    Feats = {f1, f2, tag}
    Aruco = {tag}
    Relative = TRUE
    ImuSize = 2
    PoseSize = 2
    LandmarkSize = 1
    MaxCloneSize = 2
    MaxSlam = 1
    MaxTime = 6
    Ticks <- MCTicks
    MaxReadings = 5
    Cams = {0, 1}
    Modes = {TRUE, FALSE}
    MinDelta = 2
    MaxThrows = 1
    FrameTime = 4
    TOff = 1
    MaxUpdates = 2
    MaxEpoch = 1
    OdometryTime = 7
INVARIANTS
    CovarianceAligned
    AnchorsAlive
    SelectsExactly
    NoFrameLost
    
PROPERTIES
    FedInOrder
    QueueDrains
CHECK_DEADLOCK FALSE
