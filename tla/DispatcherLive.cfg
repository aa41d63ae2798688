SPECIFICATION FairSpec
CONSTANTS
    ka = ka
    kb = kb
    a1 = a1
    a2 = a2
    a3 = a3
    a4 = a4
    b1 = b1
    t1 = t1
    NoMsg = NoMsg
    Msgs = {a1, b1, t1, stop, cmd}
    Keys = {ka, kb}
    RouteKey <- MCRouteKey
    DispatchKey <- MCDispatchKey
    StopMsgs = {stop}
    CommandMsgs = {cmd}
    BusSize = 1
    PendingMax = 1
    GateSize = 1
    MaxDrain = 1
    MaxCycles = 1
    StartsFirst = FALSE
    MaxReaps = 1
PROPERTY DispatchSettles
CHECK_DEADLOCK FALSE
