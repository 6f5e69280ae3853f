SPECIFICATION Spec
CONSTANTS
    Delta = 2
    Difference = 1
    Fewest = 3
    Indices = {0, 1}
    Messages0 <- MCMessages
    Truths <- MCTruths
    FrozenMessages <- MCFrozen
    FrozenTruth <- MCTruth
    Stamps <- MCStamps
    PoseTimes <- MCPoseTimes
    MaxRuns = 2
    MaxFaults = 1
    MaxChanges = 1
INVARIANTS PopulationsAreExact  
CHECK_DEADLOCK FALSE
