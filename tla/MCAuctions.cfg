CONSTANTS
    none = none
    Bids <- MCBids
    Deployments <- MCDeployments
    Requests <- MCRequests
    Verdicts <- MCVerdicts
    Parts = {"scoreAds", "multiSeller", "winReporting"}
    Lower <- MCLower
    Inputs <- MCInputs
    ComponentBids <- MCComponentBids
    Updates <- MCUpdates
    FrontEnds <- MCFrontEnds
    MaxResults = 3
    Wins <- MCWins
    K = 2
    MinExp = 2
    MaxExp = 5
SPECIFICATION AuctionsSpec
INVARIANTS
    TypesOK
    BestAdWins
    ReportsMatchOutcome
    ScoredOnceAndForThis
    GroupsOfEveryBidder
    ProperAuctionIsAnswered
    ReportsTellWhatTheyMay
PROPERTIES
    FinishedExactlyOnceInBoth
CHECK_DEADLOCK FALSE
