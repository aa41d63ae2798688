SPECIFICATION Spec
CONSTANTS
    read = read
    write = write
    close = close
    search = search
    ask = ask
    x = x
    y = y
    Tools <- MCTools
    Calls <- MCCalls
    SafeTools = {read, search}
    OnceTools = {close}
    LookupTools = {search}
    AskTools = {ask}
    Threshold <- MCThreshold
    MaxLookups = 1
    Limit = 2
    MaxCalls = 2
    MaxMade = 2
    MaxTurns = 1
INVARIANTS
    OneResultPerCall
CHECK_DEADLOCK FALSE
