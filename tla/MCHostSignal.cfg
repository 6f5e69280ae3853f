SPECIFICATION Spec
CONSTANTS
    Globals = 3
    Preset = {1}
    Guarded = TRUE
    Settle = FALSE
    MaxFaults = 0
    MaxSignals = 1
    MaxKills = 0
INVARIANTS
    RestoredIsPrior
CHECK_DEADLOCK FALSE
