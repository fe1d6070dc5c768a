CONSTANTS
    u1 = u1
    u2 = u2
    u3 = u3
    b1 = b1
    b2 = b2
    none = none
    Requests = {u1, u2, u3, s1}
    Batches = {b1, b2}
    Urls <- MCUrls
    Rounds <- MCRounds
    Workers = {w1, w2}
    Capacity = 2
    a = a
    b = b
    v1 = v1
    v2 = v2
    Initial = v1
    None = None
    Empty = Empty
    Broken = Broken
    Names = {a, b}
    Contents <- MCContents
    Deployments <- MCDeployments
    MaxFetchers = 2
    MaxChanges = 2
    MaxFaults = 1
    Parts = {"http", "code"}
SPECIFICATION FetchersSpec
INVARIANTS
    TypesOK
    EachIsAnsweredOnce
    ServerHasItsCode
PROPERTIES
    FetchesEndAndCodeFollows
CHECK_DEADLOCK FALSE
