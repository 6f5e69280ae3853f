\* A session whose journal can no longer be written.
SPECIFICATION Spec
CONSTANTS
    Steps = 1
    Runs = 1
    MaxSamples = 2
    MaxSessions = 1
    MaxFaults = 3
    MaxKills = 0
INVARIANT
    JournalFailureStillRestores
CHECK_DEADLOCK FALSE
