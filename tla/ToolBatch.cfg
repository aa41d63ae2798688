SPECIFICATION FairSpec
CONSTANTS
    read = read
    write = write
    close = close
    search = search
    ask = ask
    x = x
    y = y
    Tools <- MCTools
    Calls <- MCFewCalls
    SafeTools = {read, search}
    OnceTools = {close}
    LookupTools = {search}
    AskTools = {ask}
    Threshold <- MCThreshold
    MaxLookups = 1
    Limit = 2
    MaxCalls = 3
    MaxMade = 3
    MaxTurns = 2
INVARIANTS ExclusiveAlone LimitsBounded OrphansAreSafe
PROPERTIES DenialHolds ReplyEnds
CHECK_DEADLOCK FALSE
