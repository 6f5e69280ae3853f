SPECIFICATION SuiteSpec
CONSTANTS
    Rows <- MCMatrix
    MaxStarts = 3
    MaxTogether = 2
    MaxFaults = 1
    MaxRemovals = 1
    Requests <- MCRequests
    TrialFaults = 1
    MaxChanges = 1
    Tolerance = 1
    Callbacks = 3
    Jobs <- MCJobs
    KaistFaults = 2
    LogProbes <- MCLogProbes
    RowProbes <- MCRowProbes
INVARIANTS
    BoundaryHolds
    FinishedIsComplete
    ReportIsOneStory
    
    AcceptedIsOneRun
    AssociationIsExact
    
CHECK_DEADLOCK FALSE
