CONSTANTS
    b1 = b1
    b2 = b2
    b3 = b3
    Buyer <- MCBuyer
    NoReportWinUrl <- MCNoReportWinUrl
    MaxBuyersSolicited = 2
    MaxRequests = 1
    Deployments <- KAnonDeployments
    NoEntry = NoEntry
    Parts = {"contributions"}
    GRequests <- MCGRequests
    GDeployments <- MCGDeployments
    Workloads <- MCWorkloads
    Scripts <- MCScripts
    Limit = 2
    Auctions <- MCAuctions
    NoUrlOwners = {3}
    DebugAuctions <- MCDebugAuctions
    MaxUrl = 3
    MaxAllUrls = 6
SPECIFICATION FrontEndsSpec
INVARIANTS
    GhostWinnersSignalTheirLoss
CHECK_DEADLOCK FALSE
