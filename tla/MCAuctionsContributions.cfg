CONSTANTS
    none = none
    Bids <- MCBids
    Deployments <- ContributionDeployments
    Requests <- ContributionRequests
    Verdicts <- ContributionVerdicts
    Parts = {"scoreAds"}
    Lower <- MCLower
    Inputs <- MCInputs
    ComponentBids <- MCComponentBids
    Updates <- MCUpdates
    FrontEnds <- MCFrontEnds
    MaxResults = 3
    Wins <- MCWins
    K = 2
    MinExp = 2
    MaxExp = 5
SPECIFICATION AuctionsSpec
INVARIANTS
    WinContributionsOfTheWinner
CHECK_DEADLOCK FALSE
