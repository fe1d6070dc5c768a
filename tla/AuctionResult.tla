--------------------------- MODULE AuctionResult ----------------------------
(* What the client of a seller front end is told of an auction: OnScoreAdsDone *)
(* maps the scored ads to an AuctionResult, as CBOR for browsers               *)
(* (src/services/seller_frontend_service/util/web_utils.cc) and as a proto for *)
(* apps and for the top-level seller (util/proto_mapping_util.cc), with the    *)
(* k-anonymity hashes the client is to join (k_anon/k_anon_utils.cc), and the  *)
(* client reads it. The auction is an input: what the bids and the scores of   *)
(* its ads say, and what the server is configured to add.                      *)
(*                                                                             *)
(* Texts are <<field, ad>>, hashes stand for what they are made of; the        *)
(* contributions of the ads are those of module PrivateAggregation.            *)
EXTENDS Integers, SequencesExt

CONSTANTS
    Auctions,      \* the auctions that may have been held, see IsAuction
    NoUrlOwners    \* owners without a reportWin URL in report_win_map_

\* Owners are numbered in the order of kComparator; bids and scores are multiples
\* of half the machine epsilon.
IdKinds == {"buyer", "buyerAndSeller", "selected"}  \* reporting IDs
UrlsOf == {"buyer", "topLevelSeller", "componentSeller"}
UrlParts == {"reportingURL", "interactionReportingURLs"}

IsAd(ad) ==
    /\ ad.owner \in Nat /\ ad.bid \in Nat /\ ad.buyerBid \in Nat
    /\ ad.desirability \in Nat /\ ad.losses \in Nat
    /\ ad.ids \subseteq IdKinds               \* the reporting IDs of the bid
    /\ DOMAIN ad.urls \subseteq UrlsOf         \* the messages that are set
    /\ \A by \in DOMAIN ad.urls : ad.urls[by] \subseteq UrlParts
    /\ {ad.metadata, ad.currency, ad.contributes, ad.candidate} \subseteq BOOLEAN

\* The score of no ad: a default AdScore.
NoAd == [id |-> "none", owner |-> 0, bid |-> 0, buyerBid |-> 0, desirability |-> 0,
         losses |-> 0, ids |-> {}, urls |-> <<>>, metadata |-> FALSE,
         currency |-> FALSE, contributes |-> FALSE, candidate |-> FALSE]

Scopes == {"single", "deviceComponent", "serverComponent", "topLevel"}

IsAuction(a) ==
    /\ a.client \in {"web", "app"} /\ a.scope \in Scopes
    /\ a.client = "app" => a.scope # "deviceComponent"
    /\ a.errors \in {"none", "adServer", "client"}  \* what the request was found to have
    /\ a.status \in {"OK", "INTERNAL", "DEADLINE_EXCEEDED"}  \* of the ScoreAds RPC
    /\ IsAd(a.winner) /\ \A i \in DOMAIN a.ghosts : IsAd(a.ghosts[i])
    /\ {a.kanon, a.nonce} \subseteq BOOLEAN
    /\ a.reporting \in {"none", "plain", "isolated"} \* how the auction service reports
    /\ a.scope = "topLevel" => a.errors = "none" /\ a.debug = {} \* told elsewhere
    /\ a.debug \subseteq Nat /\ a.groups \subseteq Nat \* owners with debug URLs, bids
    /\ a.updates \subseteq Nat                         \* and updates

AuctionResultAssumption == \A a \in Auctions : IsAuction(a)

VARIABLES
    auction,
    stage,     \* "scored", "answered", "read", "finished", "stuck", "undefined"
    reply,     \* the plaintext of the response
    statuses,  \* those the RPC was finished with
    read       \* the AuctionResult the client has got from it

vars == <<auction, stage, reply, statuses, read>>

(***************************************************************************)
(* CBOR                                                                    *)
(***************************************************************************)
Item(kind, of) == [kind |-> kind, of |-> of]

\* An item that could not be built, after n calls of the error handler.
Failed(n) == Item("failed", n)

Text(v) == Item("string", v)
Bytes(v) == Item("bytes", v)
Bool(v) == Item("bool", v)

\* cbor_build_float: a value below the machine epsilon equals half-precision zero.
Epsilon == 2
Float(v) == Item("float", IF v < Epsilon THEN 0 ELSE v)

\* cbor_build_int, and cbor_get_int, which gives a negative integer's magnitude.
Integer(v) == IF v < 0 THEN Item("negint", -v - 1) ELSE Item("int", v)

Field(key, value) == <<[key |-> key, value |-> value]>>
When(b, fields) == IF b THEN fields ELSE <<>>

\* A definite map of a capacity that may be less than its fields; a field that
\* cannot be built ends it.
DefiniteMap(capacity, fields) ==
    LET bad == {i \in DOMAIN fields : i > capacity \/ fields[i].value.kind = "failed"}
        i == CHOOSE j \in bad : \A k \in bad : j <= k
    IN IF bad = {} THEN Item("map", fields)
       ELSE IF fields[i].value.kind = "failed" THEN fields[i].value ELSE Failed(1)

Array(items) ==
    LET bad == {i \in DOMAIN items : items[i].kind = "failed"}
    IN IF bad = {} THEN Item("array", items)
       ELSE items[CHOOSE j \in bad : \A k \in bad : j <= k]

\* Arrays whose loops call the error handler again (ghost winners, their signals).
ReportingArray(items) ==
    LET array == Array(items)
    IN IF array.kind = "failed" THEN Failed(array.of + 1) ELSE array

\* Mutant: the order is turned round.
DescendingOrder(origins) == SetToSortSeq(origins, >)

\* kComparator.
Ordered(origins) == SetToSortSeq(origins, <)

\* A map by origin.
Origins(values) ==
    LET order == Ordered(DOMAIN values)
    IN Item("origins", [i \in DOMAIN order |->
                            [key |-> order[i], value |-> values[order[i]]]])

(***************************************************************************)
(* The AuctionResult in CBOR                                               *)
(***************************************************************************)
Of(field, ad) == IF ad.id = "none" THEN <<>> ELSE <<field, ad.id>>

AdTexts(keys, ad) == FlattenSeq([i \in DOMAIN keys |->
                                    Field(keys[i], Text(Of(keys[i], ad)))])
AdText(key, ad) == AdTexts(<<key>>, ad)

kNumKAnonJoinCandidateKeys == 3

JoinCandidates(key, candidate) ==
    Field(key, DefiniteMap(kNumKAnonJoinCandidateKeys,
        Field("adRenderURLHash", Bytes(candidate.render))
          \o Field("reportingIdHash", Bytes(candidate.reportingIds))
          \o Field("adComponentRenderURLsHash", Array(<<Bytes(candidate.components)>>))))

kNumGhostWinnerForTopLevelAuctionKeys == 8

GhostWinnerForTopLevelAuction(score) ==
    IF score.bid <= 0 THEN Failed(0)
    ELSE DefiniteMap(kNumGhostWinnerForTopLevelAuctionKeys, FlattenSeq(<<
        When(score.metadata, AdText("adMetadata", score)),
        AdText("adRenderURL", score),
        When(score.currency, AdText("bidCurrency", score)),
        Field("modifiedBid", Float(score.bid)),
        When("buyer" \in score.ids, AdText("buyerReportingId", score)),
        Field("adComponentRenderURLs", Array(<<Text(Of("component", score))>>)),
        When("buyerAndSeller" \in score.ids, AdText("buyerAndSellerReportingId", score)),
        When("selected" \in score.ids,
             AdText("selectedBuyerAndSellerReportingId", score))>>))

kNumGhostWinnerPrivateAggregationSignalsKeys == 2

PrivateAggSignals(score) ==
    ReportingArray([i \in 1..score.losses |->
        DefiniteMap(kNumGhostWinnerPrivateAggregationSignalsKeys,
            Field("value", Integer(i)) \o Field("bucket", Bytes(Of("bucket", score))))])

\* Mutant: the constant of the time before signals.
FiveGhostWinnerKeys == 5

kNumKAnonGhostWinnerKeys == 6

\* interest_group_index stays 0 here, PrivateAggregation has the ghosts with another.
KAnonGhostWinner(ghost) ==
    DefiniteMap(kNumKAnonGhostWinnerKeys, FlattenSeq(<<
        AdTexts(<<"owner", "interestGroupName">>, ghost.score),
        Field("interestGroupIndex", Integer(0)),
        JoinCandidates("kAnonJoinCandidates", ghost.candidate),
        When(ghost.forTopLevel, Field("ghostWinnerForTopLevelAuction",
                                      GhostWinnerForTopLevelAuction(ghost.score))),
        When(ghost.signals /\ ghost.score.losses > 0,
             Field("ghostWinnerPrivateAggregationSignals",
                   PrivateAggSignals(ghost.score)))>>))

\* kanon_ghost_winners is a sequence of at most one vector, empty for nullptr.
GhostWinners(kanon) ==
    When(kanon.ghosts # <<>>,
         Field("kAnonGhostWinners",
               ReportingArray([i \in DOMAIN kanon.ghosts[1] |->
                                   KAnonGhostWinner(kanon.ghosts[1][i])])))

\* kanon_winner_positional_index keeps its default.
WinnerJoinCandidates(kanon) ==
    When(kanon.winner # <<>>,
         JoinCandidates("kAnonWinnerJoinCandidates", kanon.winner[1])
           \o Field("kAnonWinnerPositionalIndex", Integer(-1)))

kNumReportingUrlsKeys == 2

InteractionReportingUrls(ad) ==
    Field("interactionReportingURLs", Origins([event \in {1, 2} |-> Text(<<event, ad.id>>)]))

ReportingUrls(key, parts, ad) ==
    When(parts # {}, Field(key, DefiniteMap(kNumReportingUrlsKeys,
        When("reportingURL" \in parts, AdText("reportingURL", ad))
          \o When("interactionReportingURLs" \in parts,
                  InteractionReportingUrls(ad)))))

kNumWinReportingUrlsKeys == 3

\* Those of a component seller alone are not written.
WinReportingUrls(ad) ==
    LET set == DOMAIN ad.urls
        By(who, key) == When(who \in set, ReportingUrls(key, ad.urls[who], ad))
    IN When(set \cap {"buyer", "topLevelSeller"} # {},
            Field("winReportingURLs", DefiniteMap(kNumWinReportingUrlsKeys,
                By("buyer", "buyerReportingURLs")
                  \o By("topLevelSeller", "topLevelSellerReportingURLs")
                  \o By("componentSeller", "componentSellerReportingURLs"))))

kNumDebugReportKeys == 4
kNumDebugReportsKeys == 2

DebugReports(origins) ==
    LET order == Ordered(origins)
        Report(o) == DefiniteMap(kNumDebugReportKeys,
            Field("url", Text(<<"url", o>>)) \o Field("isWinReport", Bool(TRUE))
              \o Field("componentWin", Bool(FALSE)) \o Field("isSellerReport", Bool(FALSE)))
    IN When(origins # {}, Field("debugReports", Array([i \in DOMAIN order |->
           DefiniteMap(kNumDebugReportsKeys,
               Field("reports", Array(<<Report(order[i])>>))
                 \o Field("adTechOrigin", Text(order[i])))])))

UpdateGroups(origins) ==
    Field("updateGroups", Origins([o \in origins |->
        Array(<<DefiniteMap(2, Field("index", Integer(o))
                                 \o Field("updateIfOlderThanMs", Integer(o)))>>)]))

BiddingGroups(origins) ==
    Field("biddingGroups", Origins([o \in origins |-> Array(<<Integer(o)>>)]))

Nonce(a) == When(a.nonce, Field("nonce", Text(<<"nonce">>)))

ScoreAdResponse(a, score, kanon) == FlattenSeq(<<
    Field("bid", Float(score.buyerBid)), Nonce(a),
    Field("score", Float(score.desirability)), Field("isChaff", Bool(FALSE)),
    Field("components", Array(<<Text(Of("component", score))>>)),
    AdText("adRenderURL", score),
    When(score.contributes, Field("paggResponse", Array(<<Text(Of("pagg", score))>>))),
    DebugReports(a.debug), UpdateGroups(a.updates), BiddingGroups(a.groups),
    When("buyer" \in score.ids, AdText("buyerReportingId", score)),
    WinReportingUrls(score), AdText("interestGroupName", score), GhostWinners(kanon),
    AdText("interestGroupOwner", score), WinnerJoinCandidates(kanon)>>)

ComponentScoreAdResponse(a, score, kanon) == FlattenSeq(<<
    Field("bid", IF score.bid <= 0 THEN Failed(0) ELSE Float(score.bid)), Nonce(a),
    Field("score", Float(score.desirability)), Field("isChaff", Bool(FALSE)),
    When(score.metadata, AdText("adMetadata", score)),
    Field("components", Array(<<Text(Of("component", score))>>)),
    AdText("adRenderURL", score),
    When(score.currency, AdText("bidCurrency", score)),
    DebugReports(a.debug), UpdateGroups(a.updates), BiddingGroups(a.groups),
    Field("topLevelSeller", Text(<<"topLevelSeller">>)),
    WinReportingUrls(score), AdText("interestGroupName", score), GhostWinners(kanon),
    AdText("interestGroupOwner", score), WinnerJoinCandidates(kanon)>>)

kNumErrorKeys == 2

ErrorMap == DefiniteMap(kNumErrorKeys, Field("code", Integer(400))
                                         \o Field("message", Text(<<"message">>)))

kNumAuctionResultKeys == 21

\* Encode and EncodeComponent: an error, a winner, ghost winners or chaff.
Encoded(a, score, kanon) ==
    DefiniteMap(kNumAuctionResultKeys,
        IF a.errors = "client" THEN Field("error", ErrorMap) \o Nonce(a)
        ELSE IF score # <<>>
        THEN IF a.scope = "deviceComponent"
             THEN ComponentScoreAdResponse(a, score[1], kanon)
             ELSE ScoreAdResponse(a, score[1], kanon)
        ELSE Nonce(a) \o (IF kanon.ghosts # <<>> THEN GhostWinners(kanon)
                          ELSE Field("isChaff", Bool(TRUE))))

(***************************************************************************)
(* K-anonymity                                                             *)
(***************************************************************************)
\* The reporting IDs that make the hash for reporting, none of them for the name of
\* the interest group (PlainTextKAnonKeyForReportingID).
KAnonKeyForReportingID(ids) ==
    IF "selected" \in ids THEN ids
    ELSE IF "buyerAndSeller" \in ids THEN {"buyerAndSeller"} ELSE ids

\* GetKAnonJoinCandidate: of two of the reporting IDs of the score.
JoinedReportingIds(score) == KAnonKeyForReportingID(score.ids \ {"selected"})

KAnonJoinCandidate(score) ==
    [render |-> Of("adRenderURL", score), reportingIds |-> JoinedReportingIds(score),
     components |-> Of("component", score)]

NoCandidate == [render |-> <<>>, reportingIds |-> {}, components |-> <<>>]

NoKAnonData == [winner |-> <<>>, ghosts |-> <<>>]

\* GetKAnonAuctionResultData of a seller that has scored bids.
KAnonOfBids(score, ghosts, component) ==
    [winner |-> [i \in DOMAIN score |-> KAnonJoinCandidate(score[i])],
     ghosts |-> When(ghosts # <<>>, <<[i \in DOMAIN ghosts |->
         [score |-> ghosts[i], candidate |-> KAnonJoinCandidate(ghosts[i]),
          forTopLevel |-> component, signals |-> TRUE]]>>)]

\* GetKAnonAuctionResultData of the top-level seller: the candidates are those of
\* the component sellers, if any.
KAnonOfResults(score, ghosts) ==
    [winner |-> When(score # <<>> /\ score[1].candidate, <<KAnonJoinCandidate(score[1])>>),
     ghosts |-> <<[i \in DOMAIN ghosts |->
         [score |-> ghosts[i], forTopLevel |-> FALSE, signals |-> FALSE,
          candidate |-> IF ghosts[i].candidate THEN KAnonJoinCandidate(ghosts[i])
                        ELSE NoCandidate]]>>]

(***************************************************************************)
(* The AuctionResult as a proto, and what a client reads                   *)
(***************************************************************************)
AdTextKeys == {"adRenderURL", "interestGroupName", "interestGroupOwner", "adMetadata",
               "bidCurrency", "buyerReportingId", "topLevelSeller"}

\* By the names of the CBOR keys; index and ghosts as the client reads them.
Default == [error |-> 0, isChaff |-> FALSE, bid |-> 0, score |-> 0, nonce |-> FALSE,
            texts |-> [k \in AdTextKeys |-> <<>>], components |-> <<>>,
            urls |-> [by \in UrlsOf |-> {}], contributes |-> FALSE, debug |-> {},
            groups |-> {}, updates |-> {}, winner |-> <<>>, index |-> 0, ghosts |-> <<>>]

\* GetGhostWinnerDataForTopLevelAuction, without the reporting IDs no ghost has.
GhostWinnerData(score) ==
    [bid |-> score.bid, url |-> Of("adRenderURL", score),
     metadata |-> When(score.metadata, Of("adMetadata", score)),
     currency |-> When(score.currency, Of("bidCurrency", score))]

NoGhostData == [bid |-> 0, url |-> <<>>, metadata |-> <<>>, currency |-> <<>>]

GhostRead(ghost) ==
    [name |-> Of("interestGroupName", ghost.score), owner |-> Of("owner", ghost.score),
     candidate |-> ghost.candidate,
     topLevel |-> IF ghost.forTopLevel THEN GhostWinnerData(ghost.score) ELSE NoGhostData,
     signals |-> [i \in 1..(IF ghost.signals THEN ghost.score.losses ELSE 0) |->
                      [value |-> i, bucket |-> Of("bucket", ghost.score)]]]

\* MapAdScoreToAuctionResult.
Mapped(a, score, kanon) ==
    IF a.errors = "client" THEN [Default EXCEPT !.error = 400]
    ELSE IF score = <<>> THEN [Default EXCEPT !.isChaff = TRUE]
    ELSE LET ad == score[1] IN
         [Default EXCEPT
             !.bid = ad.bid, !.score = ad.desirability, !.contributes = ad.contributes,
             !.texts = [k \in AdTextKeys |->
                 IF k \in {"adRenderURL", "interestGroupName", "interestGroupOwner"}
                 THEN Of(k, ad) ELSE <<>>],
             !.components = Of("component", ad),
             !.urls = [by \in UrlsOf |-> IF by \in DOMAIN ad.urls THEN ad.urls[by] ELSE {}],
             !.winner = kanon.winner,
             !.ghosts = IF kanon.ghosts = <<>> THEN <<>>
                        ELSE [i \in DOMAIN kanon.ghosts[1] |-> GhostRead(kanon.ghosts[1][i])]]

\* AdScoreToAuctionResult.
AdScoreToAuctionResult(a, score, kanon) ==
    LET result == Mapped(a, score, kanon)
    IN IF score # <<>> /\ a.scope = "serverComponent"
       THEN [result EXCEPT !.groups = {<<o, o>> : o \in a.groups},
                           !.updates = {<<o, o>> : o \in a.updates},
                           !.texts["topLevelSeller"] = <<"topLevelSeller">>]
       ELSE result

Has(map, key) == \E i \in DOMAIN map : map[i].key = key
Value(map, key) == map[CHOOSE i \in DOMAIN map : map[i].key = key].value.of
Get(map, key, default) == IF Has(map, key) THEN Value(map, key) ELSE default

Keys(map) == {map[i].key : i \in DOMAIN map}

\* CborDecodeKAnonJoinCandidatesToProto.
CandidateDecoded(map) ==
    [render |-> Get(map, "adRenderURLHash", <<>>),
     reportingIds |-> Get(map, "reportingIdHash", {}),
     components |-> Get(map, "adComponentRenderURLsHash", <<>>)[1].of]

SignalsDecoded(array) ==
    [i \in DOMAIN array |-> [value |-> Get(array[i].of, "value", 0),
                             bucket |-> Get(array[i].of, "bucket", <<>>)]]

TopLevelGhostDecoded(map) ==
    [bid |-> Get(map, "modifiedBid", 0), url |-> Get(map, "adRenderURL", <<>>),
     metadata |-> Get(map, "adMetadata", <<>>), currency |-> Get(map, "bidCurrency", <<>>)]

\* CborDecodeKAnonGhostWinnerToProto.
GhostDecoded(map) ==
    [name |-> Get(map, "interestGroupName", <<>>), owner |-> Get(map, "owner", <<>>),
     candidate |-> CandidateDecoded(Get(map, "kAnonJoinCandidates", <<>>)),
     topLevel |-> TopLevelGhostDecoded(Get(map, "ghostWinnerForTopLevelAuction", <<>>)),
     signals |-> SignalsDecoded(Get(map, "ghostWinnerPrivateAggregationSignals", <<>>))]

UrlKey == [buyer |-> "buyerReportingURLs", topLevelSeller |-> "topLevelSellerReportingURLs",
           componentSeller |-> "componentSellerReportingURLs"]

UrlsDecoded(map) == [by \in UrlsOf |-> Keys(Get(map, UrlKey[by], <<>>))]

\* adtech_origin_debug_urls_map: origins with their URLs.
DebugReportsDecoded(array) ==
    {<<Get(array[i].of, "adTechOrigin", 0),
       {Get(report.of, "url", <<>>) : report \in ToSet(Get(array[i].of, "reports", <<>>))}>> :
         i \in DOMAIN array}

UpdateGroupsDecoded(map) ==
    UNION {{<<map[i].key, Get(update.of, "index", 0)>> : update \in ToSet(map[i].value.of)} :
               i \in DOMAIN map}

BiddingGroupsDecoded(map) ==
    UNION {{<<map[i].key, index.of>> : index \in ToSet(map[i].value.of)} : i \in DOMAIN map}

ErrorDecoded(map) == Get(map, "code", 0)

\* CborDecodeAuctionResultAndNonceToProto. It reads the bid and the score as floats
\* of single precision, which those here have.
Decoded(map) ==
    [error |-> ErrorDecoded(Get(map, "error", <<>>)), isChaff |-> Get(map, "isChaff", FALSE),
     bid |-> Get(map, "bid", 0), score |-> Get(map, "score", 0), nonce |-> Has(map, "nonce"),
     texts |-> [k \in AdTextKeys |-> Get(map, k, <<>>)],
     components |-> IF Has(map, "components") THEN Value(map, "components")[1].of ELSE <<>>,
     urls |-> UrlsDecoded(Get(map, "winReportingURLs", <<>>)),
     contributes |-> Has(map, "paggResponse"),
     debug |-> DebugReportsDecoded(Get(map, "debugReports", <<>>)),
     groups |-> BiddingGroupsDecoded(Get(map, "biddingGroups", <<>>)),
     updates |-> UpdateGroupsDecoded(Get(map, "updateGroups", <<>>)),
     winner |-> When(Has(map, "kAnonWinnerJoinCandidates"),
                     <<CandidateDecoded(Get(map, "kAnonWinnerJoinCandidates", <<>>))>>),
     index |-> Get(map, "kAnonWinnerPositionalIndex", 0),
     ghosts |-> LET ghosts == Get(map, "kAnonGhostWinners", <<>>)
                IN [i \in DOMAIN ghosts |-> GhostDecoded(ghosts[i].of)]]

(***************************************************************************)
(* Behaviour                                                               *)
(***************************************************************************)
\* The reporting IDs of a score: the auction service sets those of the winner as
\* it reports the win, and none for a ghost winner.
WinnersIds(a) ==
    CASE a.reporting = "isolated" -> a.winner.ids
      [] a.reporting = "plain" -> a.winner.ids \cap {"buyer"}
      [] OTHER -> {}

\* high_score, as a sequence of at most one, and ghost_winners.
HighScore(a) ==
    When(a.status = "OK" /\ a.winner.buyerBid > 0, <<[a.winner EXCEPT !.ids = WinnersIds(a)]>>)
Ghosts(a) ==
    When(a.status = "OK", [i \in DOMAIN a.ghosts |-> [a.ghosts[i] EXCEPT !.ids = {}]])

IsComponent(a) == a.scope \in {"deviceComponent", "serverComponent"}

\* report_win_map_ is searched for the owner of every candidate, who is taken to be
\* there.
CandidateWithoutUrl(a) ==
    /\ a.client = "web" /\ a.scope # "topLevel" /\ a.kanon
    /\ \E i \in DOMAIN (HighScore(a) \o Ghosts(a)) :
         (HighScore(a) \o Ghosts(a))[i].owner \in NoUrlOwners

KAnonData(a) ==
    IF ~a.kanon THEN NoKAnonData ELSE KAnonOfBids(HighScore(a), Ghosts(a), IsComponent(a))

Cbor(item) == [form |-> "cbor", of |-> item]
Proto(result) == [form |-> "proto", of |-> result]

\* SelectAdReactorForWeb and SelectAdReactorForApp::GetNonEncryptedResponse.
GetNonEncryptedResponse(a) ==
    CASE a.client = "app" -> Proto(AdScoreToAuctionResult(a, HighScore(a), NoKAnonData))
      [] a.scope = "serverComponent" ->
           Proto(AdScoreToAuctionResult(a, HighScore(a), KAnonData(a)))
      [] OTHER -> Cbor(Encoded(a, HighScore(a), KAnonData(a)))

\* The response of a top-level seller to scores that are no chaff: the ad of a
\* response without a winner is a default AdScore.
TopLevelResponse(a) ==
    LET score == HighScore(a)
        candidates == Ghosts(a) # <<>> \/ (score # <<>> /\ score[1].candidate)
        kanon == IF a.kanon /\ candidates THEN KAnonOfResults(score, Ghosts(a))
                 ELSE NoKAnonData
        ad == IF score = <<>> THEN <<NoAd>> ELSE score
        chaff == score = <<>> /\ ~(a.kanon /\ Ghosts(a) # <<>>)
    IN IF chaff
       THEN IF a.client = "app" THEN Proto(Mapped(a, <<>>, NoKAnonData))
            ELSE Cbor(Encoded(a, <<>>, NoKAnonData))
       ELSE IF a.client = "app" THEN Proto(Mapped(a, ad, kanon))
            ELSE Cbor(Encoded(a, ad, kanon))

Finished(codes, st) == statuses' = codes /\ stage' = st

Propagate(code) == Finished(<<code>>, "finished") /\ UNCHANGED <<auction, reply, read>>

\* The error handler finishes the RPC, as does OnScoreAdsDone when it is told; that
\* of the top-level seller notifies a Notification, once, that is waited for.
EncodingFailed(calls) ==
    IF auction.scope # "topLevel"
    THEN Finished([i \in 1..(calls + 1) |-> "INTERNAL"], "finished")
    ELSE IF calls = 1 THEN Finished(<<"INTERNAL">>, "finished")
    ELSE Finished(<<>>, "stuck")

Respond(response) ==
    /\ IF response.form = "cbor" /\ response.of.kind = "failed"
       THEN EncodingFailed(response.of.of) /\ UNCHANGED reply
       ELSE Finished(<<"OK">>, "answered") /\ reply' = response
    /\ UNCHANGED <<auction, read>>

OnScoreAdsDone ==
    /\ stage = "scored"
    /\ IF auction.errors = "adServer" THEN Propagate("INVALID_ARGUMENT")
       ELSE IF auction.status \notin {"OK", "INTERNAL"} THEN Propagate(auction.status)
       ELSE IF CandidateWithoutUrl(auction)
       THEN Finished(<<>>, "undefined") /\ UNCHANGED <<auction, reply, read>>
       ELSE Respond(IF auction.scope = "topLevel" THEN TopLevelResponse(auction)
                    ELSE GetNonEncryptedResponse(auction))

ClientReads ==
    /\ stage = "answered"
    /\ read' = IF reply.form = "proto" THEN reply.of ELSE Decoded(reply.of.of)
    /\ stage' = "read"
    /\ UNCHANGED <<auction, reply, statuses>>

Init ==
    /\ auction \in Auctions
    /\ stage = "scored" /\ statuses = <<>> /\ read = Default
    /\ reply = [form |-> "none", of |-> Default]

Next == OnScoreAdsDone \/ ClientReads

Spec == Init /\ [][Next]_vars

TypeOK ==
    /\ IsAuction(auction)
    /\ stage \in {"scored", "answered", "read", "finished", "stuck", "undefined"}
    /\ reply.form \in {"none", "cbor", "proto"}
    /\ statuses \in Seq({"OK", "INTERNAL", "INVALID_ARGUMENT", "DEADLINE_EXCEEDED"})
    /\ DOMAIN read = DOMAIN Default

(***************************************************************************)
(* Properties                                                              *)
(***************************************************************************)
\* Every root key but one pair is written in the order browsers ask for: shorter
\* keys first, those of one length by their letters. paggResponse is written before
\* debugReports (CborSerializeScoreAdResponse).
CanonicalOrder ==
    <<"bid", "url", "code", "error", "index", "nonce", "owner", "score", "value",
      "bucket", "isChaff", "message", "reports", "adMetadata", "components",
      "adRenderURL", "bidCurrency", "isWinReport", "modifiedBid", "adTechOrigin",
      "componentWin", "debugReports", "paggResponse", "reportingURL", "updateGroups",
      "biddingGroups", "isSellerReport", "topLevelSeller", "adRenderURLHash",
      "reportingIdHash", "buyerReportingId", "winReportingURLs", "interestGroupName",
      "kAnonGhostWinners", "buyerReportingURLs", "interestGroupIndex",
      "interestGroupOwner", "kAnonJoinCandidates", "updateIfOlderThanMs",
      "adComponentRenderURLs", "interactionReportingURLs", "adComponentRenderURLsHash",
      "buyerAndSellerReportingId", "kAnonWinnerJoinCandidates",
      "kAnonWinnerPositionalIndex", "topLevelSellerReportingURLs",
      "componentSellerReportingURLs", "ghostWinnerForTopLevelAuction",
      "selectedBuyerAndSellerReportingId", "ghostWinnerPrivateAggregationSignals">>

Place(key) == CHOOSE i \in DOMAIN CanonicalOrder : CanonicalOrder[i] = key

Ascends(map, Number(_)) ==
    \A i, j \in DOMAIN map :
        \/ i < j => Number(map[i].key) < Number(map[j].key)
        \/ map[i].key = "paggResponse" /\ map[j].key = "debugReports"

RECURSIVE Canonical(_)
Canonical(item) ==
    CASE item.kind = "map" ->
           /\ Ascends(item.of, Place)
           /\ \A i \in DOMAIN item.of : Canonical(item.of[i].value)
      [] item.kind = "origins" ->
           \A i, j \in DOMAIN item.of :
               /\ i < j => item.of[i].key < item.of[j].key
               /\ Canonical(item.of[i].value)
      [] item.kind = "array" -> \A i \in DOMAIN item.of : Canonical(item.of[i])
      [] OTHER -> TRUE

\* Whatever is in an AuctionResult, all its maps, at every depth, have their keys in
\* canonical order, which browsers decode strictly (kComparator).
KeysInCanonicalOrder == reply.form = "cbor" => Canonical(reply.of)

\* What the auction came to, as a client is to read it.
Shown(a) == a.winner.buyerBid > 0 /\ a.status = "OK" /\ a.errors = "none"

BrowserReads(a) == a.client = "web" /\ a.scope # "serverComponent"

\* The ghosts that are told to clients: those of a proto only beside a winner.
GhostsTold(a) ==
    IF ~a.kanon \/ a.errors # "none" \/ a.status # "OK" THEN <<>>
    ELSE CASE a.client = "app" /\ a.scope # "topLevel" -> <<>>
           [] a.scope = "serverComponent" /\ ~Shown(a) -> <<>>
           [] OTHER -> a.ghosts

AnsweredOnce(a) ==
    /\ Len(statuses) = 1
    /\ stage = "finished" <=> statuses # <<"OK">>
    /\ stage = "finished" =>
         a.errors = "adServer" \/ a.status \notin {"OK", "INTERNAL"}

WinnerRead(a, w) ==
    /\ read.texts["interestGroupName"] = <<"interestGroupName", w.id>>
    /\ read.texts["adRenderURL"] = <<"adRenderURL", w.id>>
    /\ read.score = w.desirability
    /\ read.bid = IF BrowserReads(a) /\ ~IsComponent(a) THEN w.buyerBid ELSE w.bid
    /\ DOMAIN w.urls # {"componentSeller"} =>
         \A by \in DOMAIN w.urls : read.urls[by] = w.urls[by]
    /\ LET told == a.client = "web" \/ a.scope = "serverComponent"
       IN /\ read.groups = {<<o, o>> : o \in IF told THEN a.groups ELSE {}}
          /\ read.updates = {<<o, o>> : o \in IF told THEN a.updates ELSE {}}
    /\ BrowserReads(a) => read.debug = {<<o, {<<"url", o>>}>> : o \in a.debug}
    /\ \A i \in DOMAIN read.winner : read.winner[i].render = <<"adRenderURL", w.id>>

GhostsRead(a) ==
    /\ Len(read.ghosts) = Len(GhostsTold(a))
    /\ \A i \in DOMAIN read.ghosts :
         LET g == a.ghosts[i]
         IN /\ read.ghosts[i].name = <<"interestGroupName", g.id>>
            /\ a.scope # "topLevel" =>
                 /\ read.ghosts[i].candidate.render = <<"adRenderURL", g.id>>
                 /\ {signal.value : signal \in ToSet(read.ghosts[i].signals)} = 1..g.losses
                 /\ read.ghosts[i].topLevel =
                      IF IsComponent(a) THEN GhostWinnerData(g) ELSE NoGhostData

\* The RPC is finished once, and the client reads what the auction came to, of the
\* right ads: an error if there was one, else the winner with its own candidate,
\* groups and reporting URLs, else chaff; and with it every ghost winner that is
\* told (OnScoreAdsDone, GetNonEncryptedResponse, Encode, EncodeComponent). Known to
\* be lost: the URLs of a component seller alone (CborSerializeWinReportingUrls).
ClientReadsTheAuction ==
    /\ stage \in {"read", "finished", "stuck"} => AnsweredOnce(auction)
    /\ stage = "read" =>
         /\ read.error = IF auction.errors = "client" THEN 400 ELSE 0
         /\ read.isChaff <=> /\ auction.errors = "none" /\ ~Shown(auction)
                            /\ GhostsTold(auction) = <<>>
         /\ read.nonce <=> (auction.nonce /\ BrowserReads(auction))
         /\ IF Shown(auction) THEN WinnerRead(auction, auction.winner)
            ELSE read.winner = <<>> /\ read.urls = Default.urls
         /\ GhostsRead(auction)

\* A component seller's result has what its scoring script left for the top-level
\* seller: "Arbitrary metadata to pass to the top-level seller" (ad_metadata) and
\* the currency of the bid (bid_currency).
TopLevelSellerGetsMetadata ==
    stage = "read" /\ IsComponent(auction) /\ Shown(auction) =>
        /\ auction.winner.metadata =>
             read.texts["adMetadata"] = <<"adMetadata", auction.winner.id>>
        /\ auction.winner.currency =>
             read.texts["bidCurrency"] = <<"bidCurrency", auction.winner.id>>
=============================================================================
