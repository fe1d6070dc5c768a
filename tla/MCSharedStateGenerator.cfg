CONSTANTS
    t1 = t1
    t2 = t2
    t3 = t3
    Task <- MCTask
    NoTask = NoTask
    k1 = k1
    n1 = n1
    n2 = n2
    Keys = {1, 2, 3}
    Requests = {q1, q2}
    Parts = {"buyer"}
    CacheIds <- MCCacheIds
    Capacity <- MCCapacity
    KShards <- MCKShards
    NonShards <- MCNonShards
    HashSets <- MCHashSets
    Auction = {a1, a2}
    SellerWindow = 2
    Payload = {1, 4}
    SellerFixed = 6
    Reactor = {r1, r2}
    BuyerWindow = 3
    Size = {2, 3}
    Duration = {0, 1}
    BuyerFixed = 5
SPECIFICATION SharedStateSpec
INVARIANTS
    SamplingGoesOn
CHECK_DEADLOCK FALSE
