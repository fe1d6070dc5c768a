----------------------------- MODULE MCAuctions -----------------------------
(* The scoring of one request by an auction service, an auction of several    *)
(* sellers around it, which takes of the scoring its outcome only, and what   *)
(* the reporting of a win tells whom: one of the three is under way (part).   *)
EXTENDS ScoreAds

CONSTANTS
    Parts,  \* "scoreAds", "multiSeller", "winReporting"
    Lower, Inputs, ComponentBids, Updates, FrontEnds, MaxResults,
    Wins, K, MinExp, MaxExp

VARIABLES
    part,
    conf, ciphertexts, given, mstage, results, call, mcancelled, mresponse, mfinished,
    win, document, told, signals, reply, wcancelled, wstep, wfinished

M == INSTANCE MultiSellerAuction
         WITH Bids <- ComponentBids, Deployments <- FrontEnds, stage <- mstage,
              cancelled <- mcancelled, response <- mresponse, finished <- mfinished

W == INSTANCE WinReporting
         WITH cancelled <- wcancelled, step <- wstep, finished <- wfinished

ASSUME SellersAssumption == M!MultiSellerAuctionAssumption
ASSUME W!WinReportingAssumption

multiSellerVars == <<conf, ciphertexts, given, mstage, results, call, mcancelled,
                     mresponse, mfinished>>
winVars == <<win, document, told, signals, reply, wcancelled, wstep, wfinished>>
allVars == <<part, vars, multiSellerVars, winVars>>

-----------------------------------------------------------------------------
(* Batches of three ads: an interest group with two ads, an ad without        *)
(* k-anonymity, an ad of another buyer with a URL that is taken already and   *)
(* an ad of protected app signals.                                            *)

Ads(type, owner, ig, render, bid, kAnon) ==
    [type |-> type, owner |-> owner, ig |-> ig, render |-> render, bid |-> bid,
     kAnon |-> kAnon]

MCBids ==
    [a1 |-> Ads("PA", "b1", "shoes", "u1", 2, TRUE),
     a2 |-> Ads("PA", "b1", "shoes", "u2", 1, FALSE),
     a3 |-> Ads("PA", "b2", "cars", "u3", 2, TRUE),
     a4 |-> Ads("PA", "b2", "bikes", "u1", 2, FALSE),
     p1 |-> Ads("PAS", "b2", "", "u4", 1, TRUE)]

Request ==
    [scope |-> "single", ads |-> <<>>, pas |-> <<>>,
     signals |-> {"u1", "u2", "u3", "u4"}, results |-> <<>>, maxGhosts |-> 1]

Result(winner, ghosts, seller) ==
    [chaff |-> FALSE, generation |-> 1, winner |-> winner, ghosts |-> ghosts,
     seller |-> seller]

Chaff == [Result(none, <<>>, none) EXCEPT !.chaff = TRUE, !.generation = 2]
Error == [Chaff EXCEPT !.chaff = FALSE]

SingleSeller == [Request EXCEPT !.ads = <<"a1", "a2", "a3">>]
Component ==
    [Request EXCEPT !.scope = "deviceComponent", !.ads = <<"a1", "a2">>, !.pas = <<"p1">>]
TopLevel ==
    [Request EXCEPT !.scope = "topLevel",
                    !.results = <<Result("a1", <<>>, "s1"), Chaff, Error,
                                  Result("a3", <<"a2">>, "s2")>>]

\* Requests that are scored...
ScoredRequests ==
    {SingleSeller, Component, TopLevel,
     [SingleSeller EXCEPT !.ads = <<"a1", "a2", "a4">>, !.maxGhosts = 2],
     [Component EXCEPT !.scope = "serverComponent", !.pas = <<>>]}

\* ...and some that need not be.
RejectedRequests ==
    {Request,
     [SingleSeller EXCEPT !.signals = {}],
     [SingleSeller EXCEPT !.ads = <<"a1", "a2">>, !.signals = {"u2"}],
     [Request EXCEPT !.signals = {}],
     [TopLevel EXCEPT !.results = <<Error>>],
     [TopLevel EXCEPT !.results = <<Result("a1", <<>>, "s1"),
                                    [Result("a3", <<>>, "s2") EXCEPT !.generation = 2]>>]}

MCRequests == ScoredRequests \cup RejectedRequests

Deployment ==
    [cancellation |-> TRUE, kAnon |-> TRUE, pas |-> TRUE, requireSignals |-> TRUE,
     debug |-> "off", attestation |-> "off", pagg |-> FALSE, resultUrls |-> FALSE,
     winUrls |-> FALSE, isolation |-> FALSE, buyers |-> {}]

MCDeployments ==
    {[Deployment EXCEPT !.resultUrls = TRUE, !.winUrls = TRUE, !.isolation = TRUE,
                        !.buyers = {<<"PA", "b1">>, <<"PAS", "b2">>}],
     [Deployment EXCEPT !.kAnon = FALSE, !.requireSignals = FALSE, !.debug = "sampled",
                        !.attestation = "all", !.cancellation = FALSE],
     [Deployment EXCEPT !.debug = "unsampled", !.resultUrls = TRUE]}

Verdict(d, urls) ==
    [ok |-> TRUE, parsed |-> TRUE, d |-> d, seller |-> FALSE, invalid |-> FALSE,
     allow |-> TRUE, urls |-> urls, pagg |-> TRUE]

MCVerdicts ==
    {[Verdict(0, {}) EXCEPT !.ok = FALSE, !.parsed = FALSE],
     Verdict(2, {"loss"}),
     [Verdict(3, {"win", "loss"}) EXCEPT !.seller = TRUE],
     [Verdict(4, {"win"}) EXCEPT !.allow = FALSE]}

\* For the contributions: one request, on a server that makes them.
ContributionDeployments == {[Deployment EXCEPT !.pagg = TRUE]}
ContributionRequests == {SingleSeller}
ContributionVerdicts ==
    {[Verdict(0, {}) EXCEPT !.ok = FALSE, !.parsed = FALSE],
     Verdict(2, {}), Verdict(4, {})}

-----------------------------------------------------------------------------
(* Three results of two component sellers, one of whom has two spellings.     *)
(* Both get bids of one buyer, for different groups, one of them twice in     *)
(* the input; each gets bids of a buyer of its own, and updates of an owner   *)
(* they share.                                                                *)

MCLower == [s1 |-> "s1", S1 |-> "s1", s2 |-> "s2"]

MCInputs == [b1 |-> <<"shoes", "cars", "shoes">>, b2 |-> <<"bikes">>]

OfGroup(ig, bid) == [ig |-> ig, bid |-> bid]

MCComponentBids ==
    [s1 |-> [b1 |-> {OfGroup("shoes", 1)}],
     s2 |-> [b1 |-> {OfGroup("cars", 2), OfGroup("shoes", 0)}, b2 |-> {OfGroup("bikes", 0)}]]

MCUpdates == [s1 |-> {"b1"}, s2 |-> {"b1", "b2"}]

FrontEnd ==
    [client |-> "browser", kanon |-> TRUE, cancellation |-> TRUE, requireSignals |-> TRUE,
     platforms |-> {"s1", "s2"}, asked |-> <<"s1", "s2">>, request |-> "valid"]

MCFrontEnds ==
    {FrontEnd,
     [FrontEnd EXCEPT !.client = "android", !.requireSignals = FALSE],
     [FrontEnd EXCEPT !.kanon = FALSE, !.cancellation = FALSE, !.asked = <<"S1", "s2", "s1">>],
     [FrontEnd EXCEPT !.platforms = {"s1"}, !.requireSignals = FALSE]}
    \cup {[FrontEnd EXCEPT !.platforms = {"s1"}, !.request = r] :
              r \in {"invalid", "undecryptable", "without generation"}}

-----------------------------------------------------------------------------
(* Wins of all scopes. Numbers have two bits: 5 is between 4 and 6, 11 between *)
(* 8 and 12, 30 between 24 and infinity, 40 is beyond and 1 too small.        *)

Win ==
    [isolated |-> TRUE, scope |-> "single", kind |-> "PA", reportWin |-> TRUE,
     buyerHasUdf |-> TRUE, enforced |-> TRUE, noising |-> TRUE, pas |-> TRUE,
     componentUrls |-> FALSE, bid |-> 5, sellerBid |-> 0, modified |-> 0, score |-> 11,
     adCost |-> 1, otherBid |-> 3, sellerVersion |-> 7, buyerVersion |-> 8,
     ids |-> {}, joinCount |-> <<21>>, recency |-> <<4320>>, modeling |-> <<4097>>]

PasWin ==
    [Win EXCEPT !.kind = "PAS", !.buyerVersion = 0, !.joinCount = <<>>, !.recency = <<>>,
                !.modeling = <<>>]

AllIds == {"selectedBuyerAndSellerReportingId", "buyerAndSellerReportingId",
           "buyerReportingId"}

MCWins ==
    {Win, PasWin,
     [Win EXCEPT !.reportWin = FALSE, !.sellerBid = 11, !.bid = 40],
     [Win EXCEPT !.scope = "topLevel", !.componentUrls = TRUE, !.ids = {"buyerReportingId"}],
     [Win EXCEPT !.bid = 30, !.modified = 7, !.scope = "deviceComponent"],
     [Win EXCEPT !.bid = 40, !.buyerHasUdf = FALSE]}
    \cup {[Win EXCEPT !.scope = "serverComponent", !.ids = i, !.modified = 6, !.adCost = 30] :
              i \in SUBSET AllIds}
    \cup {[w EXCEPT !.isolated = FALSE] :
              w \in {Win, PasWin, [Win EXCEPT !.noising = FALSE, !.scope = "deviceComponent"],
                     [Win EXCEPT !.ids = {"buyerReportingId"}, !.scope = "serverComponent"],
                     [Win EXCEPT !.ids = {"buyerReportingId"}, !.pas = FALSE, !.adCost = 30],
                     [Win EXCEPT !.scope = "topLevel", !.componentUrls = TRUE,
                                 !.reportWin = FALSE, !.bid = 30]}}

-----------------------------------------------------------------------------

SomeWin == win = CHOOSE w \in Wins : TRUE
SomeFrontEnd == conf = CHOOSE c \in FrontEnds : TRUE
SomeScoring ==
    /\ deployment = CHOOSE d \in Deployments : TRUE
    /\ request = CHOOSE r \in Requests : TRUE

AuctionsInit ==
    /\ part \in Parts
    /\ part # "scoreAds" => SomeScoring
    /\ part # "multiSeller" => SomeFrontEnd
    /\ part # "winReporting" => SomeWin
    /\ Init /\ M!Init /\ W!Init

Running(p) == part = p /\ UNCHANGED part

AuctionsNext ==
    \/ Running("scoreAds") /\ Next /\ UNCHANGED <<multiSellerVars, winVars>>
    \/ Running("multiSeller") /\ M!Next /\ UNCHANGED <<vars, winVars>>
    \/ Running("winReporting") /\ W!Next /\ UNCHANGED <<vars, multiSellerVars>>

\* As in Spec of ScoreAds and of MultiSellerAuction.
AuctionsFairness ==
    /\ WF_allVars(Running("scoreAds") /\ Step /\ UNCHANGED <<multiSellerVars, winVars>>)
    /\ WF_allVars(Running("multiSeller") /\ M!Execute /\ UNCHANGED <<vars, winVars>>)
    /\ WF_allVars(Running("multiSeller") /\ M!AuctionAnswers /\ UNCHANGED <<vars, winVars>>)

AuctionsSpec == AuctionsInit /\ [][AuctionsNext]_allVars /\ AuctionsFairness

-----------------------------------------------------------------------------

\* The type invariants of all.
TypesOK ==
    /\ TypeOK
    /\ part = "multiSeller" => M!TypeOK
    /\ part = "winReporting" => W!TypeOK

\* Scripts are told of a win what they may know, once, and their URLs keep apart.
ReportsTellWhatTheyMay == part = "winReporting" => W!ReportsTellWhatTheyMay

\* Each component seller is scored by one result at most, made for this request.
ScoredOnceAndForThis == part = "multiSeller" => M!ScoredOnceAndForThis

\* The device learns of every interest group with a bid.
GroupsOfEveryBidder == part = "multiSeller" => M!GroupsOfEveryBidder

\* An auction in which all parties do as they should ends with a winner or chaff.
ProperAuctionIsAnswered == part = "multiSeller" => M!ProperAuctionIsAnswered

\* Chaff is not told from results before the auction service is called.
ChaffReachesAuction == M!ChaffReachesAuction

\* Requests of both kinds are finished, and once, but for the ones whose process
\* aborts or whose ciphertext is not one.
FinishedExactlyOnceInBoth ==
    <>[](/\ part = "scoreAds" => FinishedOnce
         /\ part = "multiSeller" => M!FinishedOnce)
=============================================================================
