SPECIFICATION ServicesSpec
CONSTANTS
    w1 = w1
    w2 = w2
    h1 = h1
    h2 = h2
    n1 = n1
    n2 = n2
    n3 = n3
    o1 = o1
    c1 = c1
    c2 = c2
    g1 = g1
    g2 = g2
    User = {u1, u2}
    Password = {p1, p2}
    DiscordId = {d1}
    Coupon = {c1}
    None = None
    Worker = {w1, w2}
    Top = 2
    Thresholds <- MCThresholds
    Forms <- MCForms
    Reward = 1
    Bill = 2
    Welcome = 1
    Credit = 1
    MaxJobs = 3
    Host = {h1, h2}
    Name = {n1, n2, n3}
    Order = {o1, o2}
    Agent = {w1, w2}
    Nobody = Nobody
    Deliveries <- MCDeliveries
    FirstRows <- MCFirstRows
    Tries = 2
    MaxStarted = 2
    MaxFailures = 1
    Cidr = {c1, c2}
    Acl = {a1}
    Group = {g1, g2}
    Size = 1
    FirstGroups <- MCFirstGroups
    Saver = {w1, w2}
    MaxSavers = 2
INVARIANTS
    AccountsTypeOK
    RewardsBacked
    RewardsKept
    DiscordOnce
    DeliveredIsServed
    DeliveredHasAccess
    DeletedIsGone
    ShownIsStock
PROPERTIES
    ColumnsKept
    CouponStaysUsed
    ResetReplaces
SYMMETRY Symmetry
CHECK_DEADLOCK FALSE
