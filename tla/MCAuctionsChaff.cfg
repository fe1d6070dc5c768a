CONSTANTS
    none = none
    Bids <- MCBids
    Deployments <- MCDeployments
    Requests <- MCRequests
    Verdicts <- MCVerdicts
    Parts = {"multiSeller"}
    Lower <- MCLower
    Inputs <- MCInputs
    ComponentBids <- MCComponentBids
    Updates <- MCUpdates
    FrontEnds <- MCFrontEnds
    MaxResults = 2
    Wins <- MCWins
    K = 2
    MinExp = 2
    MaxExp = 5
SPECIFICATION AuctionsSpec
INVARIANTS
    ChaffReachesAuction
CHECK_DEADLOCK FALSE
