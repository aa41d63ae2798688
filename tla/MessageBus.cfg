SPECIFICATION FairSpec
CONSTANTS
    UserMsgs = {u1, u2}
    InternalMsgs = {i1, i2}
    OutMsgs = {o1}
    MaxSize = 1
    HasSink = TRUE
    MaxCancels = 1
INVARIANTS TypeOK DeliverySound AcceptedKept
PROPERTIES BusSettles BusKeepsPromise
CHECK_DEADLOCK FALSE
