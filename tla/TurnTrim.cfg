SPECIFICATION Spec
CONSTANTS
    MaxTurns = 3
    MaxIterations = 2
    MaxCalls = 2
    MaxFollowUps = 1
    HotTurns = 1
    WarmTurns = 1
    MaxTrim = 1
    MaxFaults = 0
    MaxSaveFails = 0
INVARIANT WholeTurnSaved
CHECK_DEADLOCK FALSE
