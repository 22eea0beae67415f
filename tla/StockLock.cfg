SPECIFICATION Spec
CONSTANTS
    d1 = d1
    a1 = a1
    a2 = a2
    o1 = o1
    o2 = o2
    w1 = w1
    w2 = w2
    Cidr <- MCCidr
    Acl = {a1}
    Subnet <- MCSubnet
    CidrOf <- MCCidrOf
    Order <- MCSoleOrder
    NoOrder = NoOrder
    AclsOf <- MCSoleAcl
    CidrsOf <- MCSoleCidrs
    Quantity <- MCSoleQuantity
    KaxyAnswers = {1}
    Worker = {w1, w2}
    Free = Free
    Orphan = Orphan
    MaxFull = 1
    MaxQueued = 1
    MaxTouches = 1
    MaxFaults = 1
SYMMETRY Workers
CHECK_DEADLOCK FALSE
INVARIANTS
    OneDelivery
    FillsStopAtQuantity
