SPECIFICATION Spec
CONSTANTS
    w1 = w1
    w2 = w2
    p1 = p1
    Slot = {1}
    Quantity = 1
    Period = 1
    Timeout = 1
    OldAge = 0
    None = None
    Worker = {w1, w2}
    ProcessOf <- MCSameProcess
    Free = Free
    Orphan = Orphan
    MaxTime = 0
    MaxCalls = 2
    MaxAdmin = 0
    MaxFaults = 0
CHECK_DEADLOCK FALSE
INVARIANTS
    RenewalsCounted
