SPECIFICATION SuiteSpec
CONSTANTS
    Globals = 3
    Preset = {1}
    Guarded = TRUE
    Settle = TRUE
    MaxFaults = 1
    MaxSignals = 1
    MaxKills = 1
    Steps = 2
    Runs = 1
    MaxSamples = 2
    MaxSessions = 2
    HelperFaults = 2
    HelperKills = 1
    MaxThreads = 3
    Attempts = 2
    U64Max = 7
    P50 <- MCP50
    P95 <- MCP95
    Limit50 <- MCLimit50
    Limit95 <- MCLimit95
    LogicalCpus = 4
    ThreadsPerCore = 2
    TimingPairs = 2
    TimingFaults = 2
    Probes <- MCProbes
    MedianProbes <- MCMedians
    PlanProbes <- MCPlans
INVARIANTS
    TransactionHolds
    JournalHolds
    VerifierIsExact
    PartitionHolds
    
    FailureIsClean
    DecisionsAreExact
PROPERTIES
    CrashIsRepaired
    RecoveryRestores
CHECK_DEADLOCK FALSE
