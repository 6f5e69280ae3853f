SPECIFICATION SuiteSpec
CONSTANTS
    MaxRuns = 2
    MaxEdits = 2
    MaxFaults = 1
    Argvs <- MCArgvs
    Links <- MCLinks
INVARIANTS
    
    SaidIsDurable
    TraceIsTheStory
CHECK_DEADLOCK FALSE
