---------------------------- MODULE MCFrontEnds -----------------------------
(* The two front ends, of which one serves at a time (part): between them     *)
(* there are only the RPCs whose outcomes SelectAd chooses and GetBids        *)
(* explains, so nothing is lost by not interleaving their steps. Likewise the *)
(* contributions and debug reports of an auction and the encoding of its      *)
(* result, which are worked out between its steps.                            *)
EXTENDS SelectAd, TLC

CONSTANTS b1, b2, b3,
          Parts,                    \* of those that Serving names
          GRequests, GDeployments,  \* those of GetBids
          Workloads, Scripts, Limit, \* those of PrivateAggregation
          Auctions, NoUrlOwners,    \* those of AuctionResult
          DebugAuctions, MaxUrl, MaxAllUrls \* those of BuyerDebugReports

VARIABLES
    part,
    gconf, request, gexec, grpc, tracker, gchain, delay, logging, gfinishes,
    gcancelled, gdeleted,
    made, adBids, scripted, highScore, ghosts, topLevel, ghostSignals, encoded,
    decoded, step,
    auction, stage, reply, statuses, read,
    sale, validated, chars, outcome, reports, urlPings, phase

G == INSTANCE GetBids
         WITH Requests <- GRequests, Deployments <- GDeployments, conf <- gconf,
              exec <- gexec, rpc <- grpc, chain <- gchain, finishes <- gfinishes,
              cancelled <- gcancelled, deleted <- gdeleted

P == INSTANCE PrivateAggregation WITH signals <- ghostSignals

R == INSTANCE AuctionResult

D == INSTANCE BuyerDebugReports

ASSUME G!GetBidsAssumption /\ P!PrivateAggregationAssumption /\ R!AuctionResultAssumption
       /\ D!BuyerDebugReportsAssumption

gvars == <<gconf, request, gexec, grpc, tracker, gchain, delay, logging, gfinishes,
           gcancelled, gdeleted>>
pvars == <<made, adBids, scripted, highScore, ghosts, topLevel, ghostSignals, encoded,
           decoded, step>>
rvars == <<auction, stage, reply, statuses, read>>
dvars == <<sale, validated, chars, outcome, reports, urlPings, phase>>
allVars == <<part, vars, gvars, pvars, rvars, dvars>>

-----------------------------------------------------------------------------
(* Three buyers, of whom two may be asked and one has no k-anon hashes: a     *)
(* request can hold real, chaff and skipped buyers at once.                   *)

MCBuyer == {b1, b2, b3}
MCNoReportWinUrl == {b3}

Plain == [cancellation |-> TRUE, kanon |-> FALSE, fetch |-> TRUE, v2 |-> FALSE,
          provider |-> TRUE, chaffing |-> "off", caching |-> FALSE]

\* V1 and V2 lookups with and without k-anonymity, scoring without a lookup, and
\* one deployment whose client for the lookup is missing.
SignalDeployments ==
    {Plain,
     [Plain EXCEPT !.kanon = TRUE],
     [Plain EXCEPT !.kanon = TRUE, !.fetch = FALSE, !.cancellation = FALSE],
     [Plain EXCEPT !.fetch = FALSE],
     [Plain EXCEPT !.v2 = TRUE, !.cancellation = FALSE],
     [Plain EXCEPT !.v2 = TRUE, !.kanon = TRUE],
     [Plain EXCEPT !.provider = FALSE]}

\* Chaffing with the cache of buyers, and each of them alone.
BuyerDeployments ==
    {[Plain EXCEPT !.chaffing = "v1", !.caching = TRUE, !.fetch = FALSE],
     [Plain EXCEPT !.chaffing = "v2", !.caching = TRUE, !.fetch = FALSE],
     [Plain EXCEPT !.caching = TRUE, !.fetch = FALSE, !.cancellation = FALSE],
     [Plain EXCEPT !.chaffing = "v1", !.fetch = FALSE, !.cancellation = FALSE]}

MCDeployments == SignalDeployments \cup BuyerDeployments

KAnonDeployments == {[Plain EXCEPT !.kanon = TRUE]}

-----------------------------------------------------------------------------
(* Requests with either input, both or chaff, and every path to the bidding   *)
(* signals.                                                                   *)

\* What sellers with and without Protected Audience send, the forms with one of the
\* two fields (buyer_input_for_bidding is replacing buyer_input), and a chaff request.
MCGRequests ==
    {CreateGetBidsRequest("keys", TRUE, FALSE),
     CreateGetBidsRequest("keys", TRUE, TRUE),
     CreateGetBidsRequest("keys", FALSE, TRUE),
     CreateGetBidsRequest("empty", TRUE, TRUE),
     CreateGetBidsRequest("noKeys", TRUE, TRUE),
     [CreateGetBidsRequest("keys", TRUE, TRUE) EXCEPT !.buyerInput = "absent"],
     [CreateGetBidsRequest("keys", TRUE, TRUE) EXCEPT !.forBidding = "absent"],
     [CreateGetBidsRequest("empty", TRUE, FALSE) EXCEPT !.chaff = TRUE]}

BuyerServer == [cancellation |-> TRUE, audience |-> TRUE, appSignals |-> TRUE,
         chaffing |-> TRUE, mode |-> "REQUIRED", path |-> "v1",
         v2Client |-> TRUE]

MCGDeployments ==
    {[BuyerServer EXCEPT !.path = p, !.mode = m, !.cancellation = c] :
        p \in {"v1", "v2", "hybrid"}, m \in {"NOT_FETCHED", "REQUIRED"},
        c \in BOOLEAN}
      \cup {[BuyerServer EXCEPT !.path = "hybrid", !.v2Client = FALSE],
            [BuyerServer EXCEPT !.path = "v2", !.v2Client = FALSE],
            [BuyerServer EXCEPT !.appSignals = FALSE, !.mode = "OPTIONAL"],
            [BuyerServer EXCEPT !.audience = FALSE, !.chaffing = FALSE]}

-----------------------------------------------------------------------------
(* Two auctions of three bids: one of two buyers, of whom one bids twice for  *)
(* an interest group and so may win and be a ghost winner with it, and one of *)
(* a single buyer with three interest groups, one of them unknown to the      *)
(* device, and more contributions to one event than the limit.                *)

C(event, base) == [event |-> event, base |-> base]
B(owner, ig, indexed, contributions) ==
    [owner |-> owner, ig |-> ig, indexed |-> indexed, contributions |-> contributions]

MCWorkloads ==
    {<<B("o1", "a", TRUE, <<C("win", "constant"), C("loss", "constant"), C("always", "bid")>>),
       B("o1", "a", TRUE, <<C("loss", "bid"), C("click", "constant"), C("win", "reason")>>),
       B("o2", "b", TRUE, <<C("loss", "reason"), C("always", "noBucket"),
                            C("always", "constant")>>)>>,
     <<B("o1", "a", TRUE, <<C("win", "constant"), C("win", "bid"), C("win", "constant"),
                            C("unspecified", "constant")>>),
       B("o1", "b", FALSE, <<C("always", "constant")>>),
       B("o1", "c", TRUE, <<C("always", "constant"), C("loss", "constant")>>)>>}

MCScripts == {<<>>, <<C("win", "constant"), C("always", "noBucket"), C("loss", "reason"),
                      C("click", "constant")>>}

-----------------------------------------------------------------------------
(* Auctions of every client and scope: won by an ad with everything that may  *)
(* be in a result, by one with the least, or by none, with up to two ghost    *)
(* winners, of whom one's buyer may have no reportWin URL (owner 3).          *)

Ad(id, owner, ids, urls, rich) ==
    [id |-> id, owner |-> owner, bid |-> owner + 5, buyerBid |-> owner + 2,
     desirability |-> owner + 3, losses |-> IF rich THEN 2 ELSE 0, ids |-> ids,
     urls |-> urls, metadata |-> rich, currency |-> rich, contributes |-> rich,
     candidate |-> rich]

Urls == {"reportingURL", "interactionReportingURLs"}

Full == Ad("full", 1, {"buyer", "buyerAndSeller"},
           [buyer |-> Urls, topLevelSeller |-> Urls, componentSeller |-> Urls], TRUE)
Bare == Ad("bare", 2, {}, [by \in {"buyer"} |-> {"reportingURL"}], FALSE)
Lost == Ad("lost", 3, {"buyer"}, <<>>, FALSE)
Unsold == [Bare EXCEPT !.buyerBid = 0] \* no winner

Heard == ({"web", "app"} \X {"single", "serverComponent", "topLevel"})
             \cup {<<"web", "deviceComponent">>}

Auction(h, winner, lost, private) ==
    [client |-> h[1], scope |-> h[2], winner |-> winner, ghosts |-> lost,
     kanon |-> private, nonce |-> private, errors |-> "none", status |-> "OK",
     reporting |-> "isolated", debug |-> IF h[2] = "topLevel" THEN {} ELSE {1, 2},
     groups |-> {1, 2}, updates |-> {2}]

Held == {Auction(h, w, g, k) : h \in Heard, w \in {Full, Bare, Unsold},
             g \in {<<>>, <<Full>>, <<Bare, Full>>, <<Lost>>}, k \in BOOLEAN}

Troubled == {[Auction(h, Full, <<Bare>>, k) EXCEPT !.status = st, !.errors = e] :
                 h \in Heard, k \in BOOLEAN, e \in {"none", "client", "adServer"},
                 st \in {"OK", "INTERNAL", "DEADLINE_EXCEEDED"}}

MCAuctions ==
    Held
      \cup {[a EXCEPT !.reporting = r] : a \in {b \in Held : b.winner = Full},
                                         r \in {"none", "plain"}}
      \cup {[a EXCEPT !.debug = {}, !.nonce = ~@] : a \in {b \in Held : b.ghosts = <<>>}}
      \cup {a \in Troubled : a.scope = "topLevel" => a.errors = "none"}

-----------------------------------------------------------------------------
(* Debug URLs of two buyers, of whom one may also be the seller: URLs that    *)
(* are too long alone or together, or not enrolled; an auction without a      *)
(* winner, and one whose winner bids twice for his interest group.            *)

DebugBid(owner, ig, win, loss, enrolled) ==
    [owner |-> owner, ig |-> ig, url |-> [win |-> win, loss |-> loss], enrolled |-> enrolled]

Both == {"win", "loss"}

MCDebugBids ==
    {<<DebugBid("o1", "a", 2, 3, Both), DebugBid("o1", "b", 1, 1, Both),
       DebugBid("o2", "c", 4, 1, Both)>>,
     <<DebugBid("o1", "a", 1, 2, Both), DebugBid("o2", "c", 3, 3, {"win"}),
       DebugBid("o1", "b", 0, 2, Both), DebugBid("o1", "a", 1, 1, Both)>>}

SellersReport(win, component) ==
    [url |-> [bid |-> 0 - 1, kind |-> IF win THEN "win" ELSE "loss", data |-> <<>>],
     seller |-> TRUE, win |-> win, component |-> component]

MCSellersReports(sampled, component) ==
    LET cooldown == [url |-> [bid |-> 0, kind |-> "none", data |-> <<>>],
                     seller |-> TRUE, win |-> FALSE, component |-> component]
    IN IF component
       THEN {<<SellersReport(TRUE, TRUE), SellersReport(FALSE, TRUE)>>} \cup
            (IF sampled THEN {<<cooldown, SellersReport(FALSE, FALSE)>>} ELSE {})
       ELSE {<<>>} \cup (IF sampled THEN {<<SellersReport(TRUE, FALSE)>>, <<cooldown>>} ELSE {})

MCDebugAuctions ==
    UNION {{[bids |-> bs, enabled |-> seller = "o1" \/ w # 0, sampled |-> sampled, component |-> component,
             currency |-> sampled, winner |-> w, others |-> IF w = 1 THEN {"o1", "o2"} ELSE {},
             rejected |-> IF w = 3 THEN 1 :> "bid-below-auction-floor" ELSE 2 :> "invalid-bid",
             seller |-> seller, sellers |-> rs] :
               bs \in MCDebugBids, w \in {0, 1, 3}, seller \in {"o1", "s"},
               rs \in MCSellersReports(sampled, component)} :
           sampled \in BOOLEAN, component \in BOOLEAN}

-----------------------------------------------------------------------------

\* What does not serve is left in some initial state.
Idle(p) ==
    \/ p = "SelectAd" /\ conf = (CHOOSE c \in Deployments : TRUE) /\ inputs = {}
    \/ /\ p = "GetBids"
       /\ gconf = (CHOOSE c \in GDeployments : TRUE)
       /\ request = (CHOOSE r \in GRequests : TRUE)
    \/ p = "contributions" /\ made = P!Generated(CHOOSE w \in Workloads : TRUE)
    \/ p = "result" /\ auction = (CHOOSE a \in Auctions : TRUE)
    \/ p = "debugReports" /\ sale = (CHOOSE a \in DebugAuctions : TRUE)

FrontEndsInit ==
    /\ part \in Parts
    /\ part # "SelectAd" => Idle("SelectAd")
    /\ part # "GetBids" => Idle("GetBids")
    /\ part # "contributions" => Idle("contributions")
    /\ part # "result" => Idle("result")
    /\ part # "debugReports" => Idle("debugReports")
    /\ Init /\ G!Init /\ P!Init /\ R!Init /\ D!Init

Serving(p) == part = p /\ UNCHANGED part

FrontEndsNext ==
    \/ Serving("SelectAd") /\ Next /\ UNCHANGED <<gvars, pvars, rvars, dvars>>
    \/ Serving("GetBids") /\ G!Next /\ UNCHANGED <<vars, pvars, rvars, dvars>>
    \/ Serving("contributions") /\ P!Next /\ UNCHANGED <<vars, gvars, rvars, dvars>>
    \/ Serving("result") /\ R!Next /\ UNCHANGED <<vars, gvars, pvars, dvars>>
    \/ Serving("debugReports") /\ D!Next /\ UNCHANGED <<vars, gvars, pvars, rvars>>

\* As in Spec of SelectAd and of GetBids.
FrontEndsFairness ==
    /\ WF_allVars(Serving("SelectAd") /\ Progress /\ UNCHANGED <<gvars, pvars, rvars, dvars>>)
    /\ WF_allVars(Serving("GetBids") /\ G!Progress /\ UNCHANGED <<vars, pvars, rvars, dvars>>)

FrontEndsSpec ==
    FrontEndsInit /\ [][FrontEndsNext]_allVars /\ FrontEndsFairness

-----------------------------------------------------------------------------

\* The type invariants of all parts.
TypesOK == TypeOK /\ G!TypeOK /\ P!TypeOK /\ R!TypeOK /\ D!TypeOK

\* In the buyer's front end, too, an RPC is finished once and after its last task, and
\* with OK only if it had an answer to make it of.
BuyerAnswersOnceAndTruly == G!FinishedOnceAndLast /\ G!OkMeansAnswered

\* What the client decodes contributes what happened in the auction and nothing else.
ContributionsFollowTheAuction == P!ContributionsFollowTheAuction

\* What was processed for a ghost winner is signalled to the client.
GhostWinnersSignalTheirLoss == P!GhostWinnersSignalTheirLoss

\* The client reads what the auction came to, from maps that browsers decode strictly.
ClientReadsTheAuction == R!ClientReadsTheAuction /\ R!KeysInCanonicalOrder

\* What debug reports may hold, who is told of a cooldown, and how many there are.
DebugReportsKeepPromises == D!DebugReportsKeepPromises

\* A component seller's metadata and currency reach the top-level seller.
TopLevelSellerGetsMetadata == R!TopLevelSellerGetsMetadata

\* Every SelectAd and every GetBids request is answered.
EventuallyFinishedInBoth ==
    /\ (part = "SelectAd" /\ exec = "execute") ~> (finishes # <<>> \/ kv = "lost")
    /\ (part = "GetBids" /\ gexec = "execute")
           ~> (gfinishes # <<>> \/ grpc["PA"] = "lost")
=============================================================================
