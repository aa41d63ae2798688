SPECIFICATION Spec
CONSTANTS
    ka = ka
    kb = kb
    a1 = a1
    a2 = a2
    a3 = a3
    a4 = a4
    b1 = b1
    t1 = t1
    NoMsg = NoMsg
    Msgs = {a1, a2, a3, a4, t1, stop}
    Keys = {ka, kb}
    RouteKey <- MCRouteKey
    DispatchKey <- MCDispatchKey
    StopMsgs = {stop}
    CommandMsgs = {}
    BusSize = 1
    PendingMax = 2
    GateSize = 2
    MaxDrain = 1
    MaxCycles = 1
    StartsFirst = FALSE
    MaxReaps = 0
SYMMETRY Symm
INVARIANTS TypeOK EachMessageOnce QueuesAccounted OneTurnPerSession
    InjectedInOwnSession
CHECK_DEADLOCK FALSE
