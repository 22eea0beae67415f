SPECIFICATION SerialSpec
CONSTANTS
    w1 = w1
    w2 = w2
    p1 = p1
    Slot = {1, 2}
    Quantity = 2
    Period = 2
    Timeout = 1
    OldAge = 1
    None = None
    Worker = {w1, w2}
    ProcessOf <- MCSameProcess
    Free = Free
    Orphan = Orphan
    MaxTime = 5
    MaxCalls = 3
    MaxAdmin = 2
    MaxFaults = 0
CHECK_DEADLOCK FALSE
INVARIANTS
    TypeOK
    FollowOrder
    RenewalsCounted
PROPERTIES
    ImplementsSubscription
