CONSTANTS
    b1 = b1
    b2 = b2
    b3 = b3
    Buyer <- MCBuyer
    NoReportWinUrl <- MCNoReportWinUrl
    MaxBuyersSolicited = 2
    MaxRequests = 2
    Deployments <- MCDeployments
    NoEntry = NoEntry
    Parts = {"SelectAd", "GetBids", "contributions", "result", "debugReports"}
    GRequests <- MCGRequests
    GDeployments <- MCGDeployments
    Workloads <- MCWorkloads
    Scripts <- MCScripts
    Limit = 2
    Auctions <- MCAuctions
    NoUrlOwners = {3}
    DebugAuctions <- MCDebugAuctions
    MaxUrl = 3
    MaxAllUrls = 6
SPECIFICATION FrontEndsSpec
INVARIANTS
    TypesOK
    ScoredWithSignalsAndKAnon
    AllBuyersAccountedFor
    ReplayAsksTheSameBuyers
    FinishedOnceAndLast
    FailureIsReported
    BuyerAnswersOnceAndTruly
    ContributionsFollowTheAuction
    ClientReadsTheAuction
    DebugReportsKeepPromises
PROPERTIES
    EventuallyFinishedInBoth
CHECK_DEADLOCK FALSE
