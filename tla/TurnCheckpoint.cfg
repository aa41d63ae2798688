SPECIFICATION Spec
CONSTANTS
    MaxTurns = 3
    MaxIterations = 2
    MaxCalls = 2
    MaxFollowUps = 1
    HotTurns = 1
    WarmTurns = 1
    MaxTrim = 0
    MaxFaults = 2
    MaxSaveFails = 1
INVARIANTS TypeOK HistoryClosed NothingTwice InterruptedTurnClosed WorkRemembered
PROPERTY PersistedNeverLost
CONSTRAINT Focus
CHECK_DEADLOCK FALSE
