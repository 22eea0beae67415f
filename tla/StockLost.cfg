SPECIFICATION SerialSpec
CONSTANTS
    d1 = d1
    a1 = a1
    a2 = a2
    o1 = o1
    o2 = o2
    w1 = w1
    w2 = w2
    Cidr <- MCCidr
    Acl = {a1}
    Subnet <- MCSubnet
    CidrOf <- MCCidrOf
    Order <- MCOrder
    NoOrder = NoOrder
    AclsOf <- MCOneAcl
    CidrsOf <- MCCidrsOf
    Quantity <- MCQuantity1
    KaxyAnswers = {2}
    Worker = {w1, w2}
    Free = Free
    Orphan = Orphan
    MaxFull = 1
    MaxQueued = 1
    MaxTouches = 0
    MaxFaults = 0
INVARIANT
    NoSubnetLost
