------------------------- MODULE MultiSellerAuction -------------------------
(* An auction of several sellers on servers. The ad server gets a ciphertext *)
(* for each component seller (GetComponentAuctionCiphertextsReactor), has    *)
(* each of them run SelectAd, and gives their results to the front end of    *)
(* the top-level seller, where SelectAuctionResultReactor                    *)
(* (src/services/seller_frontend_service/select_auction_result_reactor.cc)   *)
(* decrypts and validates them, asks the auction service for the best and    *)
(* answers the device. What the auction service does is here its status and  *)
(* winner; module ScoreAds has it in detail. The ad server is not trusted to *)
(* give each result once, or those of this request only.                     *)
EXTENDS Integers, SequencesExt

CONSTANTS
    Lower,        \* AsciiStrToLower on the names of component sellers
    Inputs,       \* for each buyer the interest groups of the device, in order
    Bids,         \* for each component seller and buyer the bids it gets
    Updates,      \* for each component seller the owners of the updates it gets
    Deployments,  \* servers with a request
    MaxResults,   \* bound on the results the ad server gives
    none

Names == DOMAIN Lower
Sellers == DOMAIN Bids
Buyers == DOMAIN Inputs

MultiSellerAuctionAssumption ==
    /\ Lower \in [Names -> Sellers] /\ DOMAIN Updates = Sellers /\ none \notin Names \cup Sellers
    /\ \A s \in Sellers : DOMAIN Bids[s] \subseteq Buyers
    /\ MaxResults \in Nat

VARIABLES
    conf,        \* the deployment with its request
    ciphertexts, \* names with a ciphertext, once the ad server has them
    given,       \* the results the ad server gives, in order
    stage,       \* of the request to the top-level seller
    results,     \* component_auction_results, once validated: those of given, at their places
    call,        \* the ScoreAds RPC
    cancelled,   \* the client has cancelled
    response,    \* what the device gets
    finished     \* statuses of the RPC

vars == <<conf, ciphertexts, given, stage, results, call, cancelled, response, finished>>

Statuses == {"OK", "CANCELLED", "INTERNAL", "INVALID_ARGUMENT", "UNAVAILABLE"}
NoGroups == [b \in {} |-> {}]
NoResults == [i \in {} |-> 0]
NoResponse == [kind |-> "none", winner |-> none, groups |-> NoGroups, updates |-> {}]

TypeOK ==
    /\ conf \in Deployments /\ ciphertexts \subseteq Names
    /\ Len(given) <= MaxResults
    /\ stage \in {"ciphertexts", "components", "execute", "scoring", "done", "crashed"}
    /\ DOMAIN results \subseteq DOMAIN given
    /\ call \in {"none", "running", "cancelled", "answered", "failed"}
    /\ cancelled \in BOOLEAN
    /\ response.kind \in {"none", "result", "chaff", "error"}
    /\ DOMAIN response.groups \subseteq Buyers
    /\ finished \in Seq(Statuses)

Init ==
    /\ conf \in Deployments
    /\ ciphertexts = {} /\ given = <<>> /\ stage = "ciphertexts" /\ results = NoResults
    /\ call = "none" /\ cancelled = FALSE
    /\ response = NoResponse /\ finished = <<>>

-----------------------------------------------------------------------------
(* The component auctions.                                                   *)

\* Platforms are kept under names in lower case. A name spelled in two ways
\* gets two ciphertexts.
Known(n) == Lower[n] \in conf.platforms

\* A refusal, or a failure with any seller, leaves the ad server without any.
GetComponentAuctionCiphertexts ==
    /\ stage = "ciphertexts"
    /\ conf.platforms # {} /\ conf.asked # <<>>
    /\ ciphertexts' = {n \in ToSet(conf.asked) : Known(n)}
    /\ stage' = "components"
    /\ UNCHANGED <<conf, given, results, call, cancelled, response, finished>>

\* GetBiddingGroups: the places of the interest groups with a bid.
GetBiddingGroups(bids) ==
    [b \in DOMAIN bids |->
        {i \in DOMAIN Inputs[b] : \E bid \in bids[b] : bid.bid > 0 /\ bid.ig = Inputs[b][i]}]

\* MapAdScoreToAuctionResult and AdScoreToAuctionResult. Only a result with a
\* winner names its seller, and only then are there ghost winners, for browsers.
\* fits: the currency, ad type and reporting URLs are as the request wants them.
Chaff == [kind |-> "chaff", seller |-> none, generation |-> 0, top |-> none,
          fits |-> TRUE, ghosts |-> FALSE, groups |-> NoGroups, updates |-> {}]
Error == [Chaff EXCEPT !.kind = "error"]

AdScoreToAuctionResult(s, generation, top, fits, ghosts) ==
    [kind |-> "winner", seller |-> s, generation |-> generation, top |-> top,
     fits |-> fits, ghosts |-> ghosts /\ conf.kanon /\ conf.client = "browser",
     groups |-> GetBiddingGroups(Bids[s]), updates |-> Updates[s]]

\* What SelectAd of a component seller may answer, for a request of this
\* generation (1) or another, for this top-level seller or another.
ComponentResults(s) ==
    {Chaff, Error,
     AdScoreToAuctionResult(s, 1, "top", TRUE, TRUE),
     AdScoreToAuctionResult(s, 1, "top", FALSE, FALSE),
     AdScoreToAuctionResult(s, 2, "top", TRUE, FALSE),
     AdScoreToAuctionResult(s, 1, "other", TRUE, FALSE)}

Give(by, result) ==
    /\ stage = "components" /\ Len(given) < MaxResults
    /\ given' = Append(given, [by |-> by, result |-> result])
    /\ UNCHANGED <<conf, ciphertexts, stage, results, call, cancelled, response, finished>>

ComponentAuction(n) ==
    n \in ciphertexts /\ \E r \in ComponentResults(Lower[n]) : Give(n, r)

\* The ad server gives a result twice, or one that cannot be decrypted.
Repeat(i) == i \in DOMAIN given /\ Give(given[i].by, given[i].result)

Garbled == [Chaff EXCEPT !.kind = "garbled"]
Garble == Give(none, Garbled)

\* GetAuctionScope: with the results of others this is a top-level auction.
SelectAd ==
    /\ stage = "components" /\ given # <<>>
    /\ stage' = "execute"
    /\ UNCHANGED <<conf, ciphertexts, given, results, call, cancelled, response, finished>>

-----------------------------------------------------------------------------
(* SelectAuctionResultReactor::Execute.                                      *)

\* A bug: results of an earlier request are taken.
ValidInAnyGeneration(r) ==
    \/ r.kind \in {"chaff", "error"}
    \/ r.top = "top" /\ r.seller # none /\ r.fits

ValidateComponentAuctionResult(r) ==
    \/ r.kind \in {"chaff", "error"}
    \/ r.generation = 1 /\ r.top = "top" /\ r.seller # none /\ r.fits

IsValid(i) == given[i].result.kind # "garbled" /\ ValidateComponentAuctionResult(given[i].result)

Validated == [i \in {j \in DOMAIN given : IsValid(j)} |-> given[i].result]

\* A seller with two results aborts the auction. Chaff and errors are results of
\* the seller without a name.
AbortIfRepeated(rs) ==
    IF IsInjective([i \in DOMAIN rs |-> rs[i].seller]) THEN rs ELSE NoResults

DecryptAndValidateComponentAuctionResults == AbortIfRepeated(Validated)

Cancelled == conf.cancellation /\ cancelled

Finish(status) == stage' = "done" /\ finished' = Append(finished, status)

FinishWithStatus(status) == Finish(status) /\ UNCHANGED response

FinishWithResponse(r) ==
    \/ Finish("OK") /\ response' = r
    \/ FinishWithStatus("INTERNAL")

\* The server's settings or the request are refused.
Refused ==
    /\ conf.request = "invalid"
    /\ FinishWithStatus("INVALID_ARGUMENT") /\ UNCHANGED <<results, call>>

\* The error is to be encrypted with decrypted_request_, which is not there.
Undecryptable ==
    /\ conf.request = "undecryptable"
    /\ stage' = "crashed" /\ UNCHANGED <<results, call, response, finished>>

WithoutGeneration ==
    /\ conf.request = "without generation"
    /\ FinishWithResponse([NoResponse EXCEPT !.kind = "error"]) /\ UNCHANGED <<results, call>>

NoValidResults ==
    /\ conf.request = "valid"
    /\ DecryptAndValidateComponentAuctionResults = NoResults
    /\ FinishWithStatus("INVALID_ARGUMENT") /\ UNCHANGED <<results, call>>

ScoreAds ==
    /\ conf.request = "valid"
    /\ DecryptAndValidateComponentAuctionResults # NoResults
    /\ results' = DecryptAndValidateComponentAuctionResults
    /\ \/ Cancelled /\ FinishWithStatus("CANCELLED") /\ UNCHANGED call
       \/ ~Cancelled /\ FinishWithStatus("INTERNAL") /\ UNCHANGED call
       \/ /\ ~Cancelled /\ stage' = "scoring" /\ call' = "running"
          /\ UNCHANGED <<response, finished>>

Execute ==
    /\ stage = "execute"
    /\ Refused \/ Undecryptable \/ WithoutGeneration \/ NoValidResults \/ ScoreAds
    /\ UNCHANGED <<conf, ciphertexts, given, cancelled>>

-----------------------------------------------------------------------------
(* The auction service and OnScoreAdsDone.                                   *)

\* CreateTopLevelScoreAdsRawRequest leaves out chaff.
Sent == {i \in DOMAIN results : results[i].kind # "chaff"}
Named == {i \in Sent : results[i].seller # none}

\* ScoreAdsReactor: a request without results passes for one of a single seller,
\* whose scoring signals may be required.
StatusWithoutResults ==
    IF Sent = {} /\ conf.requireSignals THEN "INVALID_ARGUMENT" ELSE "INTERNAL"

\* The results with groups of buyer b. FromFirst is the first of them.
WithGroups(b) == {i \in DOMAIN results : b \in DOMAIN results[i].groups}
FromFirst(b) == CHOOSE i \in WithGroups(b) : \A j \in WithGroups(b) : i <= j

\* A bug: the first groups of a buyer are not collected when others follow.
ForgetFirst(b) == UNION {results[i].groups[b] : i \in WithGroups(b) \ {FromFirst(b)}}

\* colliding_buyer_sets: the groups of buyer b, the first ones and those that follow.
Collected(b) == UNION {results[i].groups[b] : i \in WithGroups(b)}

\* The first groups of a buyer are moved to the output; the set of them all takes
\* their place if others follow.
GetBuyerIgsWithBidsMap ==
    [b \in {c \in Buyers : WithGroups(c) # {}} |->
        IF WithGroups(b) = {FromFirst(b)} THEN results[FromFirst(b)].groups[b]
        ELSE Collected(b)]

\* Updates of an owner are those of the first seller that has some.
UpdatesOfOwners ==
    {u \in (UNION {Updates[t] : t \in Sellers}) \X Sellers :
        \E i \in DOMAIN results :
            /\ results[i].seller = u[2] /\ u[1] \in results[i].updates
            /\ \A j \in DOMAIN results : j < i => u[1] \notin results[j].updates}

\* An app gets neither groups nor updates.
NonChaff(winner) ==
    [kind |-> "result", winner |-> winner,
     groups |-> IF conf.client = "browser" THEN GetBuyerIgsWithBidsMap ELSE NoGroups,
     updates |-> IF conf.client = "browser" THEN UpdatesOfOwners ELSE {}]
ChaffResponse == [NoResponse EXCEPT !.kind = "chaff"]

\* A bug: a response without a winner is taken for one with a winner.
AnyResponse(winner, ghosts) == TRUE

HasResult(winner, ghosts) == winner # none \/ (conf.kanon /\ ghosts)

OnScoreAdsDone(status, winner, ghosts) ==
    \/ /\ status \notin {"OK", "INTERNAL"}
       /\ FinishWithStatus(status)
    \/ /\ status = "OK" /\ HasResult(winner, ghosts)
       /\ FinishWithResponse(NonChaff(winner))
    \/ /\ status = "INTERNAL" \/ (status = "OK" /\ ~HasResult(winner, ghosts))
       /\ FinishWithResponse(ChaffResponse)

Done(status, winner, ghosts) ==
    IF Cancelled THEN FinishWithStatus("CANCELLED") ELSE OnScoreAdsDone(status, winner, ghosts)

AuctionAnswers ==
    /\ stage = "scoring" /\ call \in {"running", "cancelled"}
    /\ \/ /\ Named = {}
          /\ Done(StatusWithoutResults, none, FALSE)
       \/ \E winner \in {results[i].seller : i \in Named} \cup {none},
             ghosts \in IF \E i \in Named : results[i].ghosts THEN BOOLEAN ELSE {FALSE} :
             Named # {} /\ Done("OK", winner, ghosts)
    /\ call' = "answered"
    /\ UNCHANGED <<conf, ciphertexts, given, results, cancelled>>

\* The RPC fails, or ends because it was cancelled.
AuctionFails ==
    /\ stage = "scoring"
    /\ \/ call = "running" /\ \E status \in {"INTERNAL", "UNAVAILABLE"} : Done(status, none, FALSE)
       \/ call = "cancelled" /\ Done("CANCELLED", none, FALSE)
    /\ call' = "failed"
    /\ UNCHANGED <<conf, ciphertexts, given, results, cancelled>>

Cancel ==
    /\ stage \in {"execute", "scoring"} /\ ~cancelled
    /\ cancelled' = TRUE
    /\ UNCHANGED <<conf, ciphertexts, given, stage, results, call, response, finished>>

\* gRPC calls OnCancel once Execute has returned.
OnCancel ==
    /\ stage = "scoring" /\ cancelled /\ call = "running"
    /\ call' = "cancelled"
    /\ UNCHANGED <<conf, ciphertexts, given, stage, results, cancelled, response, finished>>

Next ==
    \/ GetComponentAuctionCiphertexts
    \/ \E n \in Names : ComponentAuction(n)
    \/ \E i \in 1..MaxResults : Repeat(i)
    \/ Garble \/ SelectAd
    \/ Execute \/ AuctionAnswers \/ AuctionFails
    \/ Cancel \/ OnCancel

\* RPCs have a timeout. The ad server need not go on.
Spec == Init /\ [][Next]_vars /\ WF_vars(Execute) /\ WF_vars(AuctionAnswers)

-----------------------------------------------------------------------------

\* What reaches the auction service with a seller's name was made for this
\* request and this seller, and is the only result of its seller
\* (DecryptAndValidateComponentAuctionResults), whatever the ad server gives.
ScoredOnceAndForThis ==
    \A i, j \in Sent :
        results[i].seller # none =>
            /\ results[i].generation = 1 /\ results[i].top = "top"
            /\ results[i].seller = results[j].seller => i = j

\* A browser that gets a winner learns of every interest group with a bid in some
\* component auction whose result took part, of no other, and of the updates of
\* each owner that has some, from one seller (GetBuyerIgsWithBidsMap and
\* component_auction_update_groups_).
GroupsOfEveryBidder ==
    response.kind = "result" /\ conf.client = "browser" =>
        LET taking == {results[i].seller : i \in DOMAIN results} \ {none}
        IN  /\ \A b \in Buyers : \A i \in DOMAIN Inputs[b] :
                  (b \in DOMAIN response.groups /\ i \in response.groups[b])
                  <=> \E s \in taking : b \in DOMAIN Bids[s] /\
                         \E bid \in Bids[s][b] : bid.bid > 0 /\ bid.ig = Inputs[b][i]
            /\ \A o \in UNION {Updates[s] : s \in taking} : \E s \in taking :
                  o \in Updates[s] /\ {u \in response.updates : u[1] = o} = {<<o, s>>}

\* Each component seller has given one result, made for this request.
Proper ==
    /\ \A i \in DOMAIN given : IsValid(i)
    /\ IsInjective([i \in DOMAIN given |-> IF given[i].by = none THEN none ELSE Lower[given[i].by]])

\* Of chaff and errors, which have no seller, there is at most one.
OneNameless ==
    \A i, j \in DOMAIN given :
        given[i].result.seller = none /\ given[j].result.seller = none => i = j

Undisturbed ==
    /\ conf.request = "valid" /\ ~cancelled /\ call # "failed"
    /\ stage = "done" /\ finished # <<"INTERNAL">>

\* If the component sellers have given one result each, all RPCs succeed and
\* nobody cancels, the device gets the winner of one of them, or chaff. (Two
\* results without a name abort the auction, and a request that is left without
\* results is refused: score_ads_reactor.cc:878.)
ProperAuctionIsAnswered ==
    /\ Undisturbed /\ Proper
    /\ OneNameless
    /\ Sent # {} \/ ~conf.requireSignals
    => /\ finished = <<"OK">>
       /\ \/ response.kind = "chaff"
          \/ response.kind = "result" /\
             \/ \E i \in DOMAIN given : given[i].result.seller = response.winner /\ response.winner # none
             \/ response.winner = none /\ \E i \in Named : results[i].ghosts

\* A request is answered, once, unless it cannot be decrypted.
FinishedOnce ==
    \/ stage \in {"ciphertexts", "components", "crashed"}
    \/ stage = "done" /\ Len(finished) = 1

EventuallyFinished == <>[]FinishedOnce

\* validation_utils.cc:105 says of chaff and errors: "don't do any more
\* validations and pass as is to auction server to make sure auction server is
\* called". It is, if each seller gives one result.
ChaffReachesAuction ==
    Undisturbed /\ Proper => call # "none"

=============================================================================
