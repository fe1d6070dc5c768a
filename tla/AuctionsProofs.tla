--------------------------- MODULE AuctionsProofs ---------------------------
(* Proofs about the auctions of MCAuctions. Of the auctions of several sellers, *)
(* for any sellers, buyers, bids and deployments, and however the ad server    *)
(* gives the results: what is scored is of this request, of one seller each,   *)
(* and an auction whose parties all do as they should gives the device the     *)
(* winner of one of them. Of a scoring request, for any bids, requests and     *)
(* verdicts of scoreAd: the best ad wins.                                      *)
EXTENDS MCAuctions, TaskCountersProofs

-----------------------------------------------------------------------------
(* The inductive invariant.                                                  *)

\* What the ad server may give.
Gifts ==
    {[by |-> none, result |-> M!Garbled]}
    \cup {g \in [by : M!Names, result : UNION {M!ComponentResults(s) : s \in M!Sellers}] :
             g.result \in M!ComponentResults(Lower[g.by])}

SellerOf(rs) == [i \in DOMAIN rs |-> rs[i].seller]

\* Results are those of the request, once there are some, and stay.
ResultsAreOfGiven ==
    results # M!NoResults =>
        /\ results = M!Validated /\ M!IsInjective(SellerOf(results))
        /\ mstage \in {"scoring", "done"}

Begun == mstage \notin {"ciphertexts", "components"}

IInv ==
    /\ given \in Seq(Gifts)
    /\ Begun => given # <<>>
    /\ mstage # "done" => mfinished = <<>> /\ mresponse = M!NoResponse
    /\ mfinished \in Seq(M!Statuses) /\ Len(mfinished) <= 1
    /\ ResultsAreOfGiven
    /\ M!ProperAuctionIsAnswered /\ M!GroupsOfEveryBidder

-----------------------------------------------------------------------------
(* What the ad server gives.                                                 *)

LEMMA GiftFacts ==
    ASSUME NEW g \in Gifts
    PROVE  /\ g.result.kind \in {"chaff", "error", "winner", "garbled"}
           /\ g.result.kind # "winner" =>
                  /\ g.result.seller = none
                  /\ g.result.groups = M!NoGroups /\ g.result.updates = {}
           /\ g.result.kind = "winner" =>
                  /\ g.by \in M!Names /\ g.result.seller = Lower[g.by]
                  /\ g.result.seller \in M!Sellers /\ g.result.seller # none
                  /\ g.result.groups = M!GetBiddingGroups(ComponentBids[g.result.seller])
                  /\ g.result.updates = Updates[g.result.seller]
<1>1. CASE g = [by |-> none, result |-> M!Garbled]
  BY <1>1 DEF M!Garbled, M!Chaff
<1>2. CASE g.by \in M!Names /\ g.result \in M!ComponentResults(Lower[g.by])
  <2>1. Lower[g.by] \in M!Sellers /\ Lower[g.by] # none
    BY <1>2, SellersAssumption DEF M!MultiSellerAuctionAssumption
  <2>2. CASE g.result \in {M!Chaff, M!Error}
    BY <2>2 DEF M!Chaff, M!Error
  <2>3. CASE \E gen \in {1, 2}, top \in {"top", "other"}, fits \in BOOLEAN, ghosts \in BOOLEAN :
                g.result = M!AdScoreToAuctionResult(Lower[g.by], gen, top, fits, ghosts)
    BY <1>2, <2>1, <2>3 DEF M!AdScoreToAuctionResult
  <2> QED
    BY <1>2, <2>2, <2>3, Zenon DEF M!ComponentResults
<1> QED
  BY <1>1, <1>2 DEF Gifts

\* The sequence of what is given grows at its end.
LEMMA GivenAre ==
    ASSUME given \in Seq(Gifts)
    PROVE  /\ Len(given) \in Nat /\ DOMAIN given = 1..Len(given)
           /\ \A i \in DOMAIN given : given[i] \in Gifts
           /\ given # <<>> => 1 \in DOMAIN given
OBVIOUS

-----------------------------------------------------------------------------
(* What is taken of it.                                                      *)

\* A result that is taken and names a seller is the winner of an auction for this
\* request.
LEMMA TakenFacts ==
    ASSUME given \in Seq(Gifts), NEW i \in DOMAIN M!Validated
    PROVE  /\ i \in DOMAIN given /\ M!IsValid(i) /\ M!Validated[i] = given[i].result
           /\ given[i].result.seller # none =>
                 given[i].result.generation = 1 /\ given[i].result.top = "top"
<1>1. i \in DOMAIN given /\ M!IsValid(i) /\ M!Validated[i] = given[i].result
  BY DEF M!Validated
<1>2. given[i] \in Gifts
  BY <1>1, GivenAre
<1> QED
  BY <1>1, <1>2, GiftFacts DEF M!IsValid, M!ValidateComponentAuctionResult

\* A result that was taken is that of its seller, or of nobody.
LEMMA ResultFacts ==
    ASSUME given \in Seq(Gifts), ResultsAreOfGiven, NEW i \in DOMAIN results
    PROVE  /\ i \in Nat
           /\ results[i].seller = none =>
                 results[i].groups = M!NoGroups /\ results[i].updates = {}
           /\ results[i].seller # none =>
                 /\ results[i].seller \in M!Sellers
                 /\ results[i].groups = M!GetBiddingGroups(ComponentBids[results[i].seller])
                 /\ results[i].updates = Updates[results[i].seller]
<1>1. results = M!Validated
  BY DEF ResultsAreOfGiven, M!NoResults
<1>2. i \in DOMAIN given /\ results[i] = given[i].result
  BY <1>1, TakenFacts
<1>3. given[i] \in Gifts /\ i \in Nat
  BY <1>2, GivenAre
<1> QED
  BY <1>2, <1>3, GiftFacts

\* A place is among the groups of a buyer if it is in those of some result.
LEMMA GroupsAreCollected ==
    ASSUME NEW b \in M!Buyers, NEW i
    PROVE  (b \in DOMAIN M!GetBuyerIgsWithBidsMap /\ i \in M!GetBuyerIgsWithBidsMap[b])
           <=> \E k \in DOMAIN results :
                  b \in DOMAIN results[k].groups /\ i \in results[k].groups[b]
<1>1. DOMAIN M!GetBuyerIgsWithBidsMap = {c \in M!Buyers : M!WithGroups(c) # {}}
  BY DEF M!GetBuyerIgsWithBidsMap
<1>2. CASE M!WithGroups(b) = {}
  BY <1>1, <1>2 DEF M!WithGroups
<1>3. CASE M!WithGroups(b) # {}
  <2>1. M!GetBuyerIgsWithBidsMap[b] = M!Collected(b)
    BY <1>3 DEF M!GetBuyerIgsWithBidsMap, M!Collected
  <2>2. i \in M!Collected(b) <=> \E k \in M!WithGroups(b) : i \in results[k].groups[b]
    BY DEF M!Collected
  <2> QED
    BY <1>1, <1>3, <2>1, <2>2 DEF M!WithGroups
<1> QED
  BY <1>2, <1>3

\* The sellers whose results take part.
Taking == {results[i].seller : i \in DOMAIN results} \ {none}

LEMMA GroupsOfBidders ==
    ASSUME given \in Seq(Gifts), ResultsAreOfGiven,
           NEW b \in M!Buyers, NEW i \in DOMAIN Inputs[b]
    PROVE  (b \in DOMAIN M!GetBuyerIgsWithBidsMap /\ i \in M!GetBuyerIgsWithBidsMap[b])
           <=> \E s \in Taking : b \in DOMAIN ComponentBids[s] /\
                  \E bid \in ComponentBids[s][b] : bid.bid > 0 /\ bid.ig = Inputs[b][i]
<1> DEFINE Bid(s) == b \in DOMAIN ComponentBids[s] /\
                        \E bid \in ComponentBids[s][b] : bid.bid > 0 /\ bid.ig = Inputs[b][i]
           Told(k) == b \in DOMAIN results[k].groups /\ i \in results[k].groups[b]
<1>1. ASSUME NEW k \in DOMAIN results, results[k].seller # none
      PROVE  Told(k) <=> Bid(results[k].seller)
  <2> DEFINE bids == ComponentBids[results[k].seller]
  <2>1. results[k].groups = M!GetBiddingGroups(bids)
    BY <1>1, ResultFacts
  <2>2. DOMAIN M!GetBiddingGroups(bids) = DOMAIN bids
    BY DEF M!GetBiddingGroups
  <2>3. ASSUME b \in DOMAIN bids
        PROVE  M!GetBiddingGroups(bids)[b] =
                  {j \in DOMAIN Inputs[b] :
                      \E bid \in bids[b] : bid.bid > 0 /\ bid.ig = Inputs[b][j]}
    BY <2>3 DEF M!GetBiddingGroups
  <2>4. CASE b \in DOMAIN bids
    BY <2>1, <2>2, <2>3, <2>4
  <2>5. CASE b \notin DOMAIN bids
    BY <2>1, <2>2, <2>5
  <2> QED
    BY <2>4, <2>5
<1>2. ASSUME NEW k \in DOMAIN results, results[k].seller = none
      PROVE  ~Told(k)
  BY <1>2, ResultFacts DEF M!NoGroups
<1>3. (\E k \in DOMAIN results : Told(k)) <=> \E s \in Taking : Bid(s)
  <2> HIDE DEF Bid, Told
  <2> QED
    BY <1>1, <1>2 DEF Taking
<1> QED
  BY <1>3, GroupsAreCollected

\* An owner has the updates of one seller: of the first result with some.
LEMMA UpdatesOfOneSeller ==
    ASSUME given \in Seq(Gifts), ResultsAreOfGiven,
           NEW o \in UNION {Updates[s] : s \in Taking}
    PROVE  \E s \in Taking :
              o \in Updates[s] /\ {u \in M!UpdatesOfOwners : u[1] = o} = {<<o, s>>}
<1> DEFINE T == {i \in DOMAIN results : o \in results[i].updates}
<1>1. T \subseteq Nat /\ T # {}
  <2>1. PICK s \in Taking : o \in Updates[s]
    OBVIOUS
  <2>2. PICK i \in DOMAIN results : results[i].seller = s /\ s # none
    BY <2>1 DEF Taking
  <2>3. i \in T
    BY <2>1, <2>2, ResultFacts
  <2> QED
    BY <2>3, ResultFacts
<1>2. PICK m \in T : \A n \in T : m <= n
  BY <1>1, Least
<1>3. m \in DOMAIN results /\ o \in results[m].updates
  BY <1>2
<1> DEFINE s == results[m].seller
<1>4. s \in Taking /\ s \in M!Sellers /\ o \in Updates[s]
  BY <1>3, ResultFacts DEF Taking
<1>5. \A j \in DOMAIN results : j < m => o \notin results[j].updates
  BY <1>1, <1>2
<1>6. <<o, s>> \in M!UpdatesOfOwners
  BY <1>3, <1>4, <1>5 DEF M!UpdatesOfOwners
<1>7. ASSUME NEW u \in M!UpdatesOfOwners, u[1] = o
      PROVE  u = <<o, s>>
  <2>1. PICK i \in DOMAIN results :
            /\ results[i].seller = u[2] /\ o \in results[i].updates
            /\ \A j \in DOMAIN results : j < i => o \notin results[j].updates
    BY <1>7 DEF M!UpdatesOfOwners
  <2>2. i \in Nat /\ m \in Nat /\ ~ (i < m) /\ ~ (m < i)
    BY <1>3, <1>5, <2>1, ResultFacts
  <2>3. i = m
    BY <2>2
  <2>4. u = <<u[1], u[2]>>
    BY <1>7 DEF M!UpdatesOfOwners
  <2> QED
    BY <1>7, <2>1, <2>3, <2>4
<1> QED
  BY <1>4, <1>6, <1>7

LEMMA ScoredOnce ==
    ASSUME given \in Seq(Gifts), ResultsAreOfGiven
    PROVE  M!ScoredOnceAndForThis
<1> SUFFICES ASSUME NEW i \in M!Sent, NEW j \in M!Sent, results[i].seller # none
             PROVE  /\ results[i].generation = 1 /\ results[i].top = "top"
                    /\ results[i].seller = results[j].seller => i = j
  BY DEF M!ScoredOnceAndForThis
<1>1. i \in DOMAIN results /\ j \in DOMAIN results /\ results # M!NoResults
  BY DEF M!Sent, M!NoResults
<1>2. results = M!Validated /\ M!IsInjective(SellerOf(results))
  BY <1>1 DEF ResultsAreOfGiven
<1>3. results[i].generation = 1 /\ results[i].top = "top"
  BY <1>1, <1>2, TakenFacts
<1>4. results[i].seller = results[j].seller => i = j
  BY <1>1, <1>2 DEF M!IsInjective, SellerOf
<1> QED
  BY <1>3, <1>4

\* If each seller has given one result, for this request, all are taken.
LEMMA ProperIsTaken ==
    ASSUME given \in Seq(Gifts), given # <<>>, M!Proper, M!OneNameless
    PROVE  M!DecryptAndValidateComponentAuctionResults # M!NoResults
<1>1. DOMAIN M!Validated = DOMAIN given
  BY DEF M!Proper, M!Validated
<1>2. ASSUME NEW i \in DOMAIN given PROVE M!Validated[i] = given[i].result
  BY <1>1, TakenFacts
<1>3. ASSUME NEW i \in DOMAIN given, NEW j \in DOMAIN given,
             given[i].result.seller = given[j].result.seller
      PROVE  i = j
  <2>1. given[i] \in Gifts /\ given[j] \in Gifts
    BY GivenAre
  <2>2. CASE given[i].result.seller = none
    BY <1>3, <2>2 DEF M!OneNameless
  <2>3. CASE given[i].result.seller # none
    <3>1. /\ given[i].by \in M!Names /\ given[i].result.seller = Lower[given[i].by]
          /\ given[j].by \in M!Names /\ given[j].result.seller = Lower[given[j].by]
      BY <1>3, <2>1, <2>3, GiftFacts
    <3> DEFINE by == [k \in DOMAIN given |-> IF given[k].by = none THEN none
                                             ELSE Lower[given[k].by]]
    <3>2. M!IsInjective(by)
      BY DEF M!Proper
    <3>3. by[i] = given[i].result.seller /\ by[j] = given[j].result.seller
      BY <3>1, SellersAssumption DEF M!MultiSellerAuctionAssumption
    <3> QED
      BY <1>3, <3>2, <3>3 DEF M!IsInjective
  <2> QED
    BY <2>2, <2>3
<1>4. M!IsInjective([i \in DOMAIN M!Validated |-> M!Validated[i].seller])
  BY <1>1, <1>2, <1>3 DEF M!IsInjective
<1>5. M!DecryptAndValidateComponentAuctionResults = M!Validated
  BY <1>4 DEF M!DecryptAndValidateComponentAuctionResults, M!AbortIfRepeated
<1>6. 1 \in DOMAIN M!Validated
  BY <1>1, GivenAre
<1> QED
  BY <1>5, <1>6 DEF M!NoResults

-----------------------------------------------------------------------------
(* Each step.                                                                *)

MVars == multiSellerVars

LEMMA StartsIn == AuctionsInit => IInv
<1> SUFFICES ASSUME M!Init PROVE IInv
  BY DEF AuctionsInit
<1>1. given = <<>> /\ mstage = "ciphertexts" /\ results = M!NoResults
      /\ mfinished = <<>> /\ mresponse = M!NoResponse
  BY DEF M!Init
<1>2. given \in Seq(Gifts) /\ mfinished \in Seq(M!Statuses) /\ Len(mfinished) <= 1
  BY <1>1
<1>3. M!ProperAuctionIsAnswered /\ M!GroupsOfEveryBidder
  BY <1>1 DEF M!ProperAuctionIsAnswered, M!Undisturbed, M!GroupsOfEveryBidder, M!NoResponse
<1> QED
  BY <1>1, <1>2, <1>3 DEF IInv, ResultsAreOfGiven, Begun

\* What may be given depends on the request.
LEMMA GiftsStand ==
    ASSUME UNCHANGED conf
    PROVE  Gifts' = Gifts
BY DEF Gifts, M!ComponentResults, M!AdScoreToAuctionResult, M!GetBiddingGroups,
       M!Garbled, M!Chaff, M!Error, M!NoGroups

LEMMA StandsStill ==
    ASSUME IInv, UNCHANGED MVars
    PROVE  IInv'
<1>1. /\ M!Validated' = M!Validated /\ M!ProperAuctionIsAnswered' = M!ProperAuctionIsAnswered
      /\ M!GroupsOfEveryBidder' = M!GroupsOfEveryBidder
  BY DEF MVars, multiSellerVars, M!Validated, M!IsValid, M!ValidateComponentAuctionResult,
         M!ProperAuctionIsAnswered, M!Undisturbed, M!Proper, M!OneNameless, M!Sent, M!Named,
         M!GroupsOfEveryBidder
<1> QED
  BY <1>1, GiftsStand DEF IInv, MVars, multiSellerVars, ResultsAreOfGiven, SellerOf, Begun

\* The results stand while what they are taken from does.
LEMMA TakenStands ==
    ASSUME UNCHANGED given
    PROVE  /\ M!Validated' = M!Validated /\ M!Proper' = M!Proper /\ M!OneNameless' = M!OneNameless
           /\ M!DecryptAndValidateComponentAuctionResults'
                 = M!DecryptAndValidateComponentAuctionResults
BY DEF M!Validated, M!IsValid, M!ValidateComponentAuctionResult, M!Proper,
       M!OneNameless, M!DecryptAndValidateComponentAuctionResults, M!AbortIfRepeated

\* Before the end nothing has been answered.
LEMMA BeforeTheEnd ==
    ASSUME mstage' # "done", mresponse' = M!NoResponse
    PROVE  M!ProperAuctionIsAnswered' /\ M!GroupsOfEveryBidder'
BY DEF M!ProperAuctionIsAnswered, M!Undisturbed, M!GroupsOfEveryBidder, M!NoResponse

\* Only a result tells of groups.
LEMMA OthersTellNothing ==
    ASSUME mresponse'.kind # "result"
    PROVE  M!GroupsOfEveryBidder'
BY DEF M!GroupsOfEveryBidder

LEMMA CiphertextsKeeps ==
    ASSUME IInv, M!GetComponentAuctionCiphertexts
    PROVE  IInv'
<1>1. /\ mstage = "ciphertexts" /\ mstage' = "components"
      /\ UNCHANGED <<conf, given, results, mfinished, mresponse>>
  BY DEF M!GetComponentAuctionCiphertexts
<1>2. results = M!NoResults
  BY <1>1 DEF IInv, ResultsAreOfGiven
<1> QED
  BY <1>1, <1>2, GiftsStand, BeforeTheEnd DEF IInv, ResultsAreOfGiven, Begun, M!NoResults

LEMMA GiveKeeps ==
    ASSUME IInv, NEW by, NEW result, [by |-> by, result |-> result] \in Gifts,
           M!Give(by, result)
    PROVE  IInv'
<1>1. /\ mstage = "components" /\ mstage' = "components"
      /\ given' = Append(given, [by |-> by, result |-> result])
      /\ UNCHANGED <<conf, results, mfinished, mresponse>>
  BY DEF M!Give
<1>2. results = M!NoResults
  BY <1>1 DEF IInv, ResultsAreOfGiven
<1>3. Gifts' = Gifts
  BY <1>1, GiftsStand
<1>4. given' \in Seq(Gifts)
  BY <1>1 DEF IInv
<1> QED
  BY <1>1, <1>2, <1>3, <1>4, BeforeTheEnd DEF IInv, ResultsAreOfGiven, Begun, M!NoResults

LEMMA GivesKeep ==
    ASSUME IInv,
           \/ \E n \in M!Names : M!ComponentAuction(n)
           \/ \E i \in 1..MaxResults : M!Repeat(i)
           \/ M!Garble
    PROVE  IInv'
<1>1. ASSUME NEW n \in M!Names, M!ComponentAuction(n) PROVE IInv'
  <2>1. PICK r \in M!ComponentResults(Lower[n]) : M!Give(n, r)
    BY <1>1 DEF M!ComponentAuction
  <2>2. Lower[n] \in M!Sellers
    BY SellersAssumption DEF M!MultiSellerAuctionAssumption
  <2>3. [by |-> n, result |-> r] \in Gifts
    BY <2>2 DEF Gifts
  <2> QED
    BY <2>1, <2>3, GiveKeeps
<1>2. ASSUME NEW i \in 1..MaxResults, M!Repeat(i) PROVE IInv'
  <2>1. i \in DOMAIN given /\ M!Give(given[i].by, given[i].result)
    BY <1>2 DEF M!Repeat
  <2>2. given[i] \in Gifts
    BY <2>1, GivenAre DEF IInv
  <2>3. given[i] = [by |-> given[i].by, result |-> given[i].result]
    BY <2>2 DEF Gifts
  <2> QED
    BY <2>1, <2>2, <2>3, GiveKeeps
<1>3. ASSUME M!Garble PROVE IInv'
  BY <1>3, GiveKeeps DEF M!Garble, Gifts
<1> QED
  BY <1>1, <1>2, <1>3

LEMMA SelectAdKeeps ==
    ASSUME IInv, M!SelectAd
    PROVE  IInv'
<1>1. /\ mstage = "components" /\ given # <<>> /\ mstage' = "execute"
      /\ UNCHANGED <<conf, given, results, mfinished, mresponse>>
  BY DEF M!SelectAd
<1>2. results = M!NoResults
  BY <1>1 DEF IInv, ResultsAreOfGiven
<1> QED
  BY <1>1, <1>2, GiftsStand, BeforeTheEnd DEF IInv, ResultsAreOfGiven, Begun, M!NoResults

\* A request is finished with one status, as it was not before.
LEMMA EndsOnce ==
    ASSUME mfinished = <<>>, NEW status \in M!Statuses, M!Finish(status)
    PROVE  /\ mstage' = "done" /\ mfinished' = <<status>>
           /\ mfinished' \in Seq(M!Statuses) /\ Len(mfinished') <= 1
<1>1. mstage' = "done" /\ mfinished' = <<status>>
  BY DEF M!Finish
<1> QED
  BY <1>1

\* The results of each seller are taken from what is given.
LEMMA TakenKeeps ==
    ASSUME IInv, UNCHANGED given,
           results' = M!DecryptAndValidateComponentAuctionResults,
           mstage' \in {"scoring", "done"}
    PROVE  ResultsAreOfGiven'
<1>1. results' # M!NoResults => results' = M!Validated /\ M!IsInjective(SellerOf(results'))
  BY DEF M!DecryptAndValidateComponentAuctionResults, M!AbortIfRepeated, SellerOf
<1>2. M!Validated' = M!Validated
  BY TakenStands
<1> QED
  BY <1>1, <1>2 DEF ResultsAreOfGiven, SellerOf, M!NoResults

\* Execute, but for the way it ends.
LEMMA Executing ==
    ASSUME IInv, M!Execute
    PROVE  /\ mstage = "execute" /\ given # <<>> /\ mfinished = <<>> /\ mresponse = M!NoResponse
           /\ results = M!NoResults
           /\ UNCHANGED <<conf, given, mcancelled>> /\ Gifts' = Gifts
BY GiftsStand DEF IInv, M!Execute, ResultsAreOfGiven, Begun

\* A request that is refused, or that has no results that could be scored.
LEMMA RefusalKeeps ==
    ASSUME IInv, M!Execute, M!Refused \/ M!WithoutGeneration \/ M!NoValidResults
    PROVE  IInv'
<1>1. PICK status \in {"OK", "INTERNAL", "INVALID_ARGUMENT"} :
          M!Finish(status) /\ results' = results /\ mresponse'.kind # "result"
  <2>1. M!NoResponse.kind = "none" /\ [M!NoResponse EXCEPT !.kind = "error"].kind = "error"
    BY DEF M!NoResponse
  <2> QED
    BY <2>1, Executing DEF M!Refused, M!WithoutGeneration, M!NoValidResults,
                           M!FinishWithStatus, M!FinishWithResponse
<1>2. /\ mstage' = "done" /\ mfinished' \in Seq(M!Statuses) /\ Len(mfinished') <= 1
  BY <1>1, EndsOnce, Executing DEF M!Statuses
<1>3. M!ProperAuctionIsAnswered'
  <2>1. CASE conf.request # "valid"
    BY <2>1, Executing DEF M!ProperAuctionIsAnswered, M!Undisturbed
  <2>2. CASE M!DecryptAndValidateComponentAuctionResults = M!NoResults
    <3>1. ~ (M!Proper /\ M!OneNameless)
      BY <2>2, Executing, ProperIsTaken DEF IInv
    <3>2. UNCHANGED given
      BY Executing
    <3> QED
      BY <3>1, <3>2, TakenStands DEF M!ProperAuctionIsAnswered
  <2> QED
    BY <2>1, <2>2 DEF M!Refused, M!WithoutGeneration, M!NoValidResults
<1> QED
  BY <1>1, <1>2, <1>3, Executing, OthersTellNothing
     DEF IInv, Begun, ResultsAreOfGiven, M!NoResults

LEMMA Unanswered ==
    ASSUME mresponse = M!NoResponse, UNCHANGED mresponse
    PROVE  M!GroupsOfEveryBidder'
BY OthersTellNothing DEF M!NoResponse

LEMMA ScoreAdsKeeps ==
    ASSUME IInv, M!Execute, M!ScoreAds
    PROVE  IInv'
<1>1. results' = M!DecryptAndValidateComponentAuctionResults
  BY DEF M!ScoreAds
<1>2. CASE M!Cancelled /\ M!Finish("CANCELLED") /\ UNCHANGED mresponse
  <2>1. /\ mstage' = "done" /\ mfinished' \in Seq(M!Statuses) /\ Len(mfinished') <= 1
    BY <1>2, EndsOnce, Executing DEF M!Statuses
  <2>2. M!ProperAuctionIsAnswered'
    BY <1>2, Executing DEF M!Cancelled, M!ProperAuctionIsAnswered, M!Undisturbed
  <2> QED
    BY <1>1, <1>2, <2>1, <2>2, Executing, Unanswered, TakenKeeps DEF IInv, Begun
<1>3. CASE M!Finish("INTERNAL") /\ UNCHANGED mresponse
  <2>1. /\ mstage' = "done" /\ mfinished' = <<"INTERNAL">>
        /\ mfinished' \in Seq(M!Statuses) /\ Len(mfinished') <= 1
    BY <1>3, EndsOnce, Executing DEF M!Statuses
  <2>2. M!ProperAuctionIsAnswered'
    BY <2>1 DEF M!ProperAuctionIsAnswered, M!Undisturbed
  <2> QED
    BY <1>1, <1>3, <2>1, <2>2, Executing, Unanswered, TakenKeeps DEF IInv, Begun
<1>4. CASE mstage' = "scoring" /\ UNCHANGED <<mresponse, mfinished>>
  BY <1>1, <1>4, Executing, TakenKeeps, BeforeTheEnd DEF IInv, Begun
<1> QED
  BY <1>2, <1>3, <1>4 DEF M!ScoreAds, M!FinishWithStatus

LEMMA ExecuteKeeps ==
    ASSUME IInv, M!Execute
    PROVE  IInv'
<1>1. CASE M!Undecryptable
  <2>1. mstage' = "crashed" /\ UNCHANGED <<results, mfinished, mresponse>>
    BY <1>1 DEF M!Undecryptable
  <2> QED
    BY <2>1, Executing, BeforeTheEnd DEF IInv, Begun, ResultsAreOfGiven, M!NoResults
<1> QED
  BY <1>1, RefusalKeeps, ScoreAdsKeeps DEF M!Execute

-----------------------------------------------------------------------------
(* The answer of the auction service.                                        *)

\* What does not take results away leaves those that were taken.
LEMMA ResultsStay ==
    ASSUME IInv, UNCHANGED <<given, results>>, mstage = "scoring",
           mstage' \in {"scoring", "done"}
    PROVE  ResultsAreOfGiven'
<1>1. M!Validated' = M!Validated
  BY TakenStands
<1> QED
  BY <1>1 DEF IInv, ResultsAreOfGiven, SellerOf, M!NoResults

\* The status and the response that a request ends with.
LEMMA DoneEnds ==
    ASSUME NEW status \in M!Statuses, NEW winner, NEW ghosts, M!Done(status, winner, ghosts)
    PROVE  \E end \in M!Statuses :
              /\ M!Finish(end)
              /\ \/ M!Cancelled
                 \/ status \notin {"OK", "INTERNAL"} /\ end = status
                 \/ end = "INTERNAL"
                 \/ /\ end = "OK" /\ status = "OK" /\ M!HasResult(winner, ghosts)
                    /\ mresponse' = M!NonChaff(winner)
                 \/ end = "OK" /\ mresponse' = M!ChaffResponse
<1>1. CASE M!Cancelled
  BY <1>1 DEF M!Done, M!FinishWithStatus, M!Statuses
<1>2. CASE ~M!Cancelled
  BY <1>2 DEF M!Done, M!OnScoreAdsDone, M!FinishWithStatus, M!FinishWithResponse, M!Statuses
<1> QED
  BY <1>1, <1>2

\* The answer, but for the way it ends.
LEMMA Answering ==
    ASSUME IInv, M!AuctionAnswers
    PROVE  /\ mstage = "scoring" /\ mfinished = <<>> /\ mresponse = M!NoResponse
           /\ UNCHANGED <<conf, given, results, mcancelled>> /\ Gifts' = Gifts
           /\ M!Sent' = M!Sent /\ M!Named' = M!Named
BY GiftsStand DEF IInv, M!AuctionAnswers, M!Sent, M!Named

\* A browser that gets a winner gets all groups and updates.
LEMMA AnswerTells ==
    ASSUME IInv, UNCHANGED <<conf, given, results>>, mresponse = M!NoResponse,
           NEW status, NEW winner, NEW ghosts, M!Done(status, winner, ghosts)
    PROVE  M!GroupsOfEveryBidder'
<1>0. \/ UNCHANGED mresponse
      \/ mresponse' \in {M!NonChaff(winner), M!ChaffResponse}
  <2>1. CASE M!Cancelled
    BY <2>1 DEF M!Done, M!FinishWithStatus
  <2>2. CASE ~M!Cancelled
    BY <2>2 DEF M!Done, M!OnScoreAdsDone, M!FinishWithStatus, M!FinishWithResponse
  <2> QED
    BY <2>1, <2>2
<1>1. CASE mresponse' = M!NonChaff(winner)
  <2>1. CASE conf.client # "browser"
    BY <2>1 DEF M!GroupsOfEveryBidder
  <2>2. CASE conf.client = "browser"
    <3>1. mresponse'.groups = M!GetBuyerIgsWithBidsMap /\ mresponse'.updates = M!UpdatesOfOwners
      BY <1>1, <2>2 DEF M!NonChaff
    <3>2. given \in Seq(Gifts) /\ ResultsAreOfGiven
      BY DEF IInv
    <3>3. \A b \in M!Buyers : \A i \in DOMAIN Inputs[b] :
             (b \in DOMAIN mresponse'.groups /\ i \in mresponse'.groups[b])
             <=> \E s \in Taking : b \in DOMAIN ComponentBids[s] /\
                    \E bid \in ComponentBids[s][b] : bid.bid > 0 /\ bid.ig = Inputs[b][i]
      BY <3>1, <3>2, GroupsOfBidders, Zenon
    <3>4. \A o \in UNION {Updates[s] : s \in Taking} : \E s \in Taking :
             o \in Updates[s] /\ {u \in mresponse'.updates : u[1] = o} = {<<o, s>>}
      BY <3>1, <3>2, UpdatesOfOneSeller, Zenon
    <3>5. {results'[i].seller : i \in DOMAIN results'} \ {none} = Taking
      BY DEF Taking
    <3> QED
      BY <3>3, <3>4, <3>5, Zenon DEF M!GroupsOfEveryBidder
  <2> QED
    BY <2>1, <2>2
<1>2. CASE mresponse' # M!NonChaff(winner)
  <2>1. mresponse'.kind # "result"
    BY <1>0, <1>2 DEF M!ChaffResponse, M!NoResponse
  <2> QED
    BY <2>1, OthersTellNothing
<1> QED
  BY <1>1, <1>2

\* Who takes part names the seller of something that was given.
LEMMA NamedWereGiven ==
    ASSUME IInv, NEW i \in M!Named
    PROVE  /\ i \in DOMAIN given /\ given[i].result.seller = results[i].seller
           /\ results[i].seller # none
<1>1. i \in DOMAIN results /\ results # M!NoResults /\ results[i].seller # none
  BY DEF M!Named, M!Sent, M!NoResults
<1>2. results = M!Validated
  BY <1>1 DEF IInv, ResultsAreOfGiven
<1> QED
  BY <1>1, <1>2, TakenFacts DEF IInv

LEMMA EmptyAuctionKeeps ==
    ASSUME IInv, M!AuctionAnswers, M!Named = {},
           M!Done(M!StatusWithoutResults, none, FALSE)
    PROVE  IInv'
<1>1. M!StatusWithoutResults \in {"INVALID_ARGUMENT", "INTERNAL"}
  BY DEF M!StatusWithoutResults
<1>2. PICK end \in M!Statuses :
        /\ M!Finish(end)
        /\ \/ M!Cancelled
           \/ M!StatusWithoutResults \notin {"OK", "INTERNAL"} /\ end = M!StatusWithoutResults
           \/ end = "INTERNAL"
           \/ end = "OK" /\ mresponse' = M!ChaffResponse
  <2>1. M!StatusWithoutResults \in M!Statuses
    BY <1>1 DEF M!Statuses
  <2> QED
    BY <1>1, <2>1, DoneEnds
<1>3. /\ mstage' = "done" /\ mfinished' = <<end>>
      /\ mfinished' \in Seq(M!Statuses) /\ Len(mfinished') <= 1
  BY <1>2, Answering, EndsOnce
<1>4. M!ProperAuctionIsAnswered'
  <2>1. CASE M!Cancelled \/ end = "INTERNAL"
    BY <1>3, <2>1, Answering
       DEF M!Cancelled, M!ProperAuctionIsAnswered, M!Undisturbed
  <2>2. CASE end = "OK" /\ mresponse' = M!ChaffResponse
    <3>1. mresponse'.kind = "chaff"
      BY <2>2 DEF M!ChaffResponse, M!NoResponse
    <3> QED
      BY <1>3, <2>2, <3>1 DEF M!ProperAuctionIsAnswered
  <2>3. CASE M!StatusWithoutResults \notin {"OK", "INTERNAL"}
    <3>1. M!Sent = {} /\ conf.requireSignals
      BY <2>3 DEF M!StatusWithoutResults
    <3> QED
      BY <3>1, Answering DEF M!ProperAuctionIsAnswered
  <2> QED
    BY <1>2, <2>1, <2>2, <2>3
<1> QED
  BY <1>3, <1>4, Answering, AnswerTells, ResultsStay DEF IInv, Begun

LEMMA AuctionWithWinnersKeeps ==
    ASSUME IInv, M!AuctionAnswers,
           NEW winner \in {results[i].seller : i \in M!Named} \cup {none},
           NEW ghosts \in IF \E i \in M!Named : results[i].ghosts THEN BOOLEAN ELSE {FALSE},
           M!Done("OK", winner, ghosts)
    PROVE  IInv'
<1>1. PICK end \in M!Statuses :
        /\ M!Finish(end)
        /\ \/ M!Cancelled
           \/ end = "INTERNAL"
           \/ end = "OK" /\ M!HasResult(winner, ghosts) /\ mresponse' = M!NonChaff(winner)
           \/ end = "OK" /\ mresponse' = M!ChaffResponse
  <2>1. "OK" \in M!Statuses
    BY DEF M!Statuses
  <2> QED
    BY <2>1, DoneEnds
<1>2. /\ mstage' = "done" /\ mfinished' = <<end>>
      /\ mfinished' \in Seq(M!Statuses) /\ Len(mfinished') <= 1
  BY <1>1, Answering, EndsOnce
<1>3. M!ProperAuctionIsAnswered'
  <2>1. CASE M!Cancelled \/ end = "INTERNAL"
    BY <1>2, <2>1, Answering
       DEF M!Cancelled, M!ProperAuctionIsAnswered, M!Undisturbed
  <2>2. CASE end = "OK" /\ mresponse' = M!ChaffResponse
    <3>1. mresponse'.kind = "chaff"
      BY <2>2 DEF M!ChaffResponse, M!NoResponse
    <3> QED
      BY <1>2, <2>2, <3>1 DEF M!ProperAuctionIsAnswered
  <2>3. CASE end = "OK" /\ M!HasResult(winner, ghosts) /\ mresponse' = M!NonChaff(winner)
    <3>1. mresponse'.kind = "result" /\ mresponse'.winner = winner
      BY <2>3 DEF M!NonChaff
    <3>2. CASE winner # none
      <4>1. PICK i \in M!Named : winner = results[i].seller
        BY <3>2
      <4>2. i \in DOMAIN given' /\ given'[i].result.seller = mresponse'.winner
        BY <3>1, <4>1, NamedWereGiven, Answering
      <4> QED
        BY <1>2, <2>3, <3>1, <3>2, <4>2 DEF M!ProperAuctionIsAnswered
    <3>3. CASE winner = none
      <4>1. \E i \in M!Named : results[i].ghosts
        BY <2>3, <3>3 DEF M!HasResult
      <4> QED
        BY <1>2, <2>3, <3>1, <3>3, <4>1, Answering DEF M!ProperAuctionIsAnswered
    <3> QED
      BY <3>2, <3>3
  <2> QED
    BY <1>1, <2>1, <2>2, <2>3
<1> QED
  BY <1>2, <1>3, Answering, AnswerTells, ResultsStay DEF IInv, Begun

LEMMA AuctionAnswersKeeps ==
    ASSUME IInv, M!AuctionAnswers
    PROVE  IInv'
BY EmptyAuctionKeeps, AuctionWithWinnersKeeps DEF M!AuctionAnswers

LEMMA AuctionFailsKeeps ==
    ASSUME IInv, M!AuctionFails
    PROVE  IInv'
<1>1. /\ mstage = "scoring" /\ call' = "failed"
      /\ mfinished = <<>> /\ mresponse = M!NoResponse
      /\ UNCHANGED <<conf, given, results>> /\ Gifts' = Gifts
  BY GiftsStand DEF IInv, M!AuctionFails
<1>2. PICK status \in M!Statuses : M!Done(status, none, FALSE)
  BY DEF M!AuctionFails, M!Statuses
<1>3. PICK end \in M!Statuses : M!Finish(end)
  BY <1>2, DoneEnds
<1>4. /\ mstage' = "done"
      /\ mfinished' \in Seq(M!Statuses) /\ Len(mfinished') <= 1
  BY <1>1, <1>3, EndsOnce
<1>5. M!ProperAuctionIsAnswered'
  BY <1>1 DEF M!ProperAuctionIsAnswered, M!Undisturbed
<1> QED
  BY <1>1, <1>2, <1>4, <1>5, AnswerTells, ResultsStay DEF IInv, Begun

LEMMA CancelKeeps ==
    ASSUME IInv, M!Cancel \/ M!OnCancel
    PROVE  IInv'
<1>1. /\ mstage \in {"execute", "scoring"} /\ mstage' = mstage
      /\ UNCHANGED <<conf, given, results, mfinished, mresponse>> /\ Gifts' = Gifts
  BY GiftsStand DEF M!Cancel, M!OnCancel
<1>2. ResultsAreOfGiven'
  <2>1. CASE mstage = "execute"
    BY <1>1, <2>1 DEF IInv, ResultsAreOfGiven, M!NoResults
  <2>2. CASE mstage = "scoring"
    BY <1>1, <2>2, ResultsStay
  <2> QED
    BY <1>1, <2>1, <2>2
<1> QED
  BY <1>1, <1>2, BeforeTheEnd DEF IInv, Begun

LEMMA NextKeeps ==
    ASSUME IInv, [AuctionsNext]_allVars
    PROVE  IInv'
<1>1. CASE M!Next
  BY <1>1, CiphertextsKeeps, GivesKeep, SelectAdKeeps, ExecuteKeeps, AuctionAnswersKeeps,
     AuctionFailsKeeps, CancelKeeps DEF M!Next
<1>2. CASE UNCHANGED multiSellerVars
  BY <1>2, StandsStill DEF MVars
<1> QED
  BY <1>1, <1>2 DEF AuctionsNext, allVars

-----------------------------------------------------------------------------
(* FindWinningAd: which ads are kept, and in which order.                    *)

\* What the runs of a batch of n ads may have answered so far.
Answers(n) == [1..n -> Verdicts \cup {[ok |-> FALSE]}]

LEMMA ValidAnswers ==
    ASSUME NEW n \in Nat, NEW rs \in Answers(n)
    PROVE  /\ Valid(rs) \subseteq 1..n
           /\ \A i \in Valid(rs) : rs[i] \in Verdicts /\ rs[i].d \in Int
<1>1. Valid(rs) \subseteq 1..n
  BY DEF Valid, Answers
<1>2. ASSUME NEW i \in Valid(rs) PROVE rs[i] \in Verdicts /\ rs[i].d \in Int
  <2>1. rs[i] \in Verdicts \cup {[ok |-> FALSE]} /\ rs[i].ok
    BY DEF Valid, Answers
  <2>2. rs[i] \in Verdicts
    BY <2>1
  <2> QED
    BY <2>2, ScoreAdsAssumption
<1> QED
  BY <1>1, <1>2

\* The valid answers are collected in the order of the batch.
LEMMA ParsedAre ==
    ASSUME NEW n \in Nat, NEW rs \in Answers(n)
    PROVE  ParsedAds(rs) \in Seq(Valid(rs)) /\ ToSet(ParsedAds(rs)) = Valid(rs)
<1> DEFINE V == Valid(rs)
           S == Seq(V)
           q == [i \in DOMAIN rs |-> i]
           add(p, i) == IF i \in V THEN Append(p, i) ELSE p
           G(f) == [m \in 0..Len(q) |->
                      IF m = 0 THEN <<>>
                      ELSE CHOOSE new \in {add(acc, q[m]) : acc \in {f[m - 1]}} : TRUE]
           after == CHOOSE f : f = G(f)
           step == [x \in S \X (1..n) |-> add(x[1], x[2])]
<1>1. Len(q) = n /\ \A m \in 1..n : q[m] = m
  BY DEF Answers
<1>2. ParsedAds(rs) = after[n]
  BY <1>1, Zenon DEF ParsedAds, Fold
<1> HIDE DEF V
<1>3. \A p \in S, i \in 1..n : add(p, i) \in S
  OBVIOUS
<1>4. <<>> \in S /\ step \in Turns(S, n)
  BY <1>3 DEF Turns
<1>5. PICK f : IsRun(f, S, n, <<>>, step)
  <2> HIDE DEF step, G, after, S
  <2> QED
    BY <1>4, Runs
<1> HIDE DEF q
<1>6. f = G(f)
  <2>1. ASSUME NEW m \in 0..n
        PROVE  f[m] = IF m = 0 THEN <<>>
                      ELSE CHOOSE new \in {add(acc, q[m]) : acc \in {f[m - 1]}} : TRUE
    <3>1. CASE m = 0
      BY <1>5, <3>1 DEF IsRun
    <3>2. CASE m # 0
      <4>1. m \in 1..n /\ m - 1 \in 0..n /\ q[m] = m
        BY <1>1, <3>2
      <4>2. f[m - 1] \in S /\ f[m] = step[<<f[m - 1], m>>]
        BY <1>5, <4>1 DEF IsRun
      <4>3. f[m] = add(f[m - 1], m)
        BY <4>1, <4>2
      <4> QED
        BY <3>2, <4>1, <4>3
    <3> QED
      BY <3>1, <3>2
  <2> QED
    BY <1>1, <1>5, <2>1 DEF IsRun
<1>7. after = G(after)
  BY <1>6
<1> HIDE DEF after, step
<1>8. \A m \in 0..n : after[m] = IF m = 0 THEN <<>> ELSE add(after[m - 1], m)
  <2> SUFFICES ASSUME NEW m \in 0..n
               PROVE  after[m] = IF m = 0 THEN <<>> ELSE add(after[m - 1], m)
    OBVIOUS
  <2>1. after[m] = IF m = 0 THEN <<>>
                   ELSE CHOOSE new \in {add(acc, q[m]) : acc \in {after[m - 1]}} : TRUE
    BY <1>1, <1>7
  <2>2. ASSUME m # 0 PROVE q[m] = m
    BY <1>1, <2>2
  <2> HIDE DEF add
  <2>3. \A x : (CHOOSE new \in {add(acc, m) : acc \in {x}} : TRUE) = add(x, m)
    OBVIOUS
  <2> QED
    BY <2>1, <2>2, <2>3
<1> DEFINE A == {m \in 0..n : after[m] \in S /\ ToSet(after[m]) = V \cap (1..m)}
<1>9. 0 \in A
  <2>1. after[0] = <<>> /\ 0 \in 0..n
    BY <1>8
  <2>2. ToSet(<<>>) = {} /\ V \cap (1..0) = {}
    BY DEF ToSet
  <2> QED
    BY <1>4, <2>1, <2>2
<1>10. ASSUME NEW m \in 1..n, m - 1 \in A PROVE m \in A
  <2> DEFINE p == after[m - 1]
  <2>1. m \in 0..n /\ after[m] = add(p, m)
    BY <1>8
  <2>2. p \in S /\ ToSet(p) = V \cap (1..m - 1)
    BY <1>10
  <2> HIDE DEF p
  <2>3. ToSet(Append(p, m)) = ToSet(p) \cup {m}
    <3>1. /\ DOMAIN p = 1..Len(p) /\ DOMAIN Append(p, m) = 1..Len(p) + 1 /\ Len(p) \in Nat
          /\ Append(p, m)[Len(p) + 1] = m
          /\ \A j \in 1..Len(p) : Append(p, m)[j] = p[j]
      BY <2>2
    <3>2. 1..Len(p) + 1 = (1..Len(p)) \cup {Len(p) + 1}
      BY <3>1
    <3> QED
      BY <3>1, <3>2 DEF ToSet
  <2>4. add(p, m) \in S
    BY <1>3, <2>2
  <2>5. ToSet(add(p, m)) = V \cap (1..m)
    BY <2>2, <2>3
  <2> QED
    BY <2>1, <2>4, <2>5
<1>11. n \in A
  <2>1. \A m \in 1..n : m - 1 \in A => m \in A
    BY <1>10
  <2> HIDE DEF A
  <2> QED
    BY <1>9, <2>1, UpToN
<1> QED
  BY <1>2, <1>11, ValidAnswers DEF V

\* The loop that moves dropped ads to the end has looked at the ads before index,
\* and at those from end on.
Scans(V, L) == [ads : [1..L -> V], index : 1..L + 1, end : 0..L]

GoodScans(V, L, rs) ==
    {c \in Scans(V, L) :
        /\ c.index <= c.end + 1 /\ ToSet(c.ads) = V
        /\ \A j \in 1..c.index - 1 : ~Dropped(rs[c.ads[j]])
        /\ \A j \in c.end + 1..L : Dropped(rs[c.ads[j]])}

LEMMA Swaps ==
    ASSUME NEW V, NEW L \in Nat, NEW s \in [1..L -> V], NEW j \in 1..L, NEW k \in 1..L
    PROVE  /\ Swapped(s, j, k) \in [1..L -> V] /\ ToSet(Swapped(s, j, k)) = ToSet(s)
<1> DEFINE t == Swapped(s, j, k)
<1>1. t \in [1..L -> V] /\ \A x \in 1..L : t[x] = IF x = k THEN s[j] ELSE IF x = j THEN s[k] ELSE s[x]
  BY DEF Swapped
<1> HIDE DEF t
<1>2. ToSet(t) = ToSet(s)
  <2>1. \A x \in 1..L : \E y \in 1..L : t[x] = s[y]
    BY <1>1
  <2>2. \A x \in 1..L : \E y \in 1..L : s[x] = t[y]
    BY <1>1
  <2>3. DOMAIN t = 1..L /\ DOMAIN s = 1..L
    BY <1>1
  <2>4. ToSet(t) = {t[x] : x \in 1..L} /\ ToSet(s) = {s[x] : x \in 1..L}
    BY <2>3 DEF ToSet
  <2>5. ASSUME NEW v PROVE v \in ToSet(t) <=> v \in ToSet(s)
    BY <2>1, <2>2, <2>4, Zenon
  <2> QED
    BY <2>5
<1> QED
  BY <1>1, <1>2 DEF t

LEMMA Examined ==
    ASSUME NEW V, NEW L \in Nat, NEW rs, NEW c \in GoodScans(V, L, rs)
    PROVE  /\ Examine(c, rs) \in GoodScans(V, L, rs)
           /\ c.index = c.end + 1 => Examine(c, rs) = c
           /\ c.index # c.end + 1 =>
                Examine(c, rs).index - Examine(c, rs).end = c.index - c.end + 1
<1> DEFINE d == Examine(c, rs)
           i == c.index
           e == c.end
<1>1. /\ c = [ads |-> c.ads, index |-> i, end |-> e]
      /\ c.ads \in [1..L -> V] /\ i \in 1..L + 1 /\ e \in 0..L /\ i <= e + 1 /\ ToSet(c.ads) = V
      /\ \A j \in 1..i - 1 : ~Dropped(rs[c.ads[j]])
      /\ \A j \in e + 1..L : Dropped(rs[c.ads[j]])
  BY DEF GoodScans, Scans
<1>2. CASE i = e + 1
  <2>1. d = c
    <3>1. i > e
      BY <1>1, <1>2
    <3> QED
      BY <3>1 DEF Examine
  <2> QED
    BY <1>2, <2>1
<1>3. CASE i # e + 1 /\ Dropped(rs[c.ads[i]])
  <2> DEFINE a == Swapped(c.ads, i, e)
  <2>1. i \in 1..L /\ e \in 1..L /\ i <= e /\ ~ (i > e)
    BY <1>1, <1>3
  <2>2. /\ a \in [1..L -> V] /\ ToSet(a) = V
        /\ \A x \in 1..L : a[x] = IF x = e THEN c.ads[i] ELSE IF x = i THEN c.ads[e] ELSE c.ads[x]
    <3> HIDE DEF i, e
    <3> DEFINE s == c.ads
    <3>1. s \in [1..L -> V] /\ i \in 1..L /\ e \in 1..L
      BY <1>1, <2>1
    <3> HIDE DEF s
    <3>2. Swapped(s, i, e) \in [1..L -> V] /\ ToSet(Swapped(s, i, e)) = ToSet(s)
      BY <3>1, Swaps
    <3>3. a \in [1..L -> V] /\ ToSet(a) = ToSet(c.ads)
      BY <3>2 DEF s
    <3>4. \A x \in 1..L : a[x] = IF x = e THEN c.ads[i] ELSE IF x = i THEN c.ads[e] ELSE c.ads[x]
      BY <1>1, <2>1 DEF Swapped
    <3> QED
      BY <1>1, <3>3, <3>4
  <2>3. d = [c EXCEPT !.end = @ - 1, !.ads = a]
    BY <1>3, <2>1 DEF Examine
  <2> HIDE DEF a, d
  <2>4. d = [ads |-> a, index |-> i, end |-> e - 1]
    <3>1. [c EXCEPT !.end = @ - 1] = [ads |-> c.ads, index |-> i, end |-> e - 1]
      BY <1>1
    <3>2. d = [[c EXCEPT !.end = @ - 1] EXCEPT !.ads = a]
      BY <2>3
    <3> QED
      BY <3>1, <3>2
  <2>5. d.ads = a /\ d.index = i /\ d.end = e - 1
    BY <2>4
  <2>6. d \in Scans(V, L)
    BY <1>1, <2>1, <2>2, <2>4 DEF Scans
  <2>7. ASSUME NEW j \in 1..i - 1 PROVE ~Dropped(rs[a[j]])
    <3>1. j \in 1..L /\ j # e /\ j # i
      BY <1>1, <2>1
    <3>2. a[j] = c.ads[j]
      BY <2>2, <3>1
    <3> QED
      BY <1>1, <3>2
  <2>8. ASSUME NEW j \in e - 1 + 1..L PROVE Dropped(rs[a[j]])
    <3>1. CASE j = e
      <4>1. a[j] = c.ads[i]
        BY <2>1, <2>2, <3>1
      <4> QED
        BY <1>3, <4>1
    <3>2. CASE j # e
      <4>1. j \in 1..L /\ j \in e + 1..L /\ j # i
        BY <1>1, <2>1, <3>2
      <4>2. a[j] = c.ads[j]
        BY <2>2, <3>2, <4>1
      <4> QED
        BY <1>1, <4>1, <4>2
    <3> QED
      BY <3>1, <3>2
  <2>9. i <= e - 1 + 1
    BY <2>1
  <2>10. d \in GoodScans(V, L, rs)
    BY <2>2, <2>5, <2>6, <2>7, <2>8, <2>9 DEF GoodScans
  <2> HIDE DEF i, e
  <2>11. d.index - d.end = i - e + 1
    BY <1>1, <2>5
  <2> QED
    BY <1>3, <2>10, <2>11 DEF d, i, e
<1>4. CASE i # e + 1 /\ ~Dropped(rs[c.ads[i]])
  <2>1. i \in 1..L /\ e \in 1..L /\ i <= e /\ ~ (i > e)
    BY <1>1, <1>4
  <2>2. d = [c EXCEPT !.index = @ + 1]
    BY <1>4, <2>1 DEF Examine
  <2> HIDE DEF d
  <2>3. d = [ads |-> c.ads, index |-> i + 1, end |-> e]
    BY <1>1, <2>2
  <2>4. d.ads = c.ads /\ d.index = i + 1 /\ d.end = e
    BY <2>3
  <2>5. d \in Scans(V, L) /\ d.index <= d.end + 1
    BY <1>1, <2>1, <2>3 DEF Scans
  <2>6. ASSUME NEW j \in 1..i + 1 - 1 PROVE ~Dropped(rs[c.ads[j]])
    <3>1. j = i \/ j \in 1..i - 1
      BY <2>1
    <3> QED
      BY <1>1, <1>4, <3>1
  <2>7. d \in GoodScans(V, L, rs)
    BY <1>1, <2>4, <2>5, <2>6 DEF GoodScans
  <2>8. d.index - d.end = i - e + 1
    BY <1>1, <2>4
  <2> QED
    BY <1>4, <2>7, <2>8 DEF d
<1> QED
  BY <1>2, <1>3, <1>4

\* FindWinningAd keeps the valid ads that are not dropped, and no others.
LEMMA KeptAre ==
    ASSUME NEW n \in Nat, NEW rs \in Answers(n)
    PROVE  ToSet(Kept(rs)) = {i \in Valid(rs) : ~Dropped(rs[i])}
<1> DEFINE V == Valid(rs)
           p == ParsedAds(rs)
           L == Len(p)
           S == GoodScans(V, L, rs)
           c0 == [ads |-> p, index |-> 1, end |-> L]
           turn(c, i) == Examine(c, rs)
           G(f) == [m \in 0..L |->
                      IF m = 0 THEN c0
                      ELSE CHOOSE new \in {turn(c, p[m]) : c \in {f[m - 1]}} : TRUE]
           after == CHOOSE f : f = G(f)
           step == [x \in S \X (1..L) |-> turn(x[1], x[2])]
<1>1. p \in Seq(V) /\ ToSet(p) = V /\ L \in Nat /\ p \in [1..L -> V]
  <2>1. p \in Seq(V) /\ ToSet(p) = V
    BY ParsedAre
  <2> QED
    BY <2>1
<1>2. Kept(rs) = SubSeq(after[L].ads, 1, after[L].end)
  BY DEF Kept, Fold
<1>3. c0 \in S
  <2>1. c0 \in Scans(V, L)
    BY <1>1 DEF Scans
  <2> QED
    BY <1>1, <2>1 DEF GoodScans
<1> HIDE DEF c0, p, V
<1>4. \A c \in S, i \in 1..L : turn(c, i) \in S
  <2> HIDE DEF L
  <2> QED
    BY <1>1, Examined
<1>5. step \in Turns(S, L)
  BY <1>4 DEF Turns
<1>6. PICK f : IsRun(f, S, L, c0, step)
  <2> HIDE DEF step, G, after, S, L
  <2> QED
    BY <1>1, <1>3, <1>5, Runs
<1> HIDE DEF S, turn, L
<1>7. f = G(f)
  <2>1. ASSUME NEW m \in 0..L
        PROVE  f[m] = IF m = 0 THEN c0
                      ELSE CHOOSE new \in {turn(c, p[m]) : c \in {f[m - 1]}} : TRUE
    <3>1. CASE m = 0
      BY <1>6, <3>1 DEF IsRun
    <3>2. CASE m # 0
      <4>1. m \in 1..L /\ m - 1 \in 0..L
        BY <1>1, <3>2
      <4>2. f[m - 1] \in S /\ f[m] = step[<<f[m - 1], m>>]
        BY <1>6, <4>1 DEF IsRun
      <4>3. f[m] = turn(f[m - 1], p[m])
        BY <4>1, <4>2 DEF turn
      <4> QED
        BY <3>2, <4>3
    <3> QED
      BY <3>1, <3>2
  <2> QED
    BY <1>6, <2>1 DEF IsRun
<1>8. after = G(after)
  BY <1>7
<1> HIDE DEF after, step
<1>9. \A m \in 0..L : after[m] = IF m = 0 THEN c0 ELSE turn(after[m - 1], p[m])
  <2> SUFFICES ASSUME NEW m \in 0..L
               PROVE  after[m] = IF m = 0 THEN c0 ELSE turn(after[m - 1], p[m])
    OBVIOUS
  <2>1. after[m] = IF m = 0 THEN c0
                   ELSE CHOOSE new \in {turn(c, p[m]) : c \in {after[m - 1]}} : TRUE
    BY <1>8
  <2>2. \A x : (CHOOSE new \in {turn(c, p[m]) : c \in {x}} : TRUE) = turn(x, p[m])
    OBVIOUS
  <2> QED
    BY <2>1, <2>2
<1> DEFINE A == {m \in 0..L :
                   /\ after[m] \in S
                   /\ \/ after[m].index = after[m].end + 1
                      \/ after[m].index - after[m].end = 1 - L + m}
<1>10. 0 \in A
  <2>1. after[0] = c0 /\ 0 \in 0..L
    BY <1>1, <1>9
  <2>2. c0.index - c0.end = 1 - L + 0
    BY <1>1 DEF c0
  <2> QED
    BY <1>3, <2>1, <2>2
<1>11. ASSUME NEW m \in 1..L, m - 1 \in A PROVE m \in A
  <2> DEFINE c == after[m - 1]
             d == after[m]
  <2>1. m \in 0..L /\ d = Examine(c, rs)
    BY <1>1, <1>9 DEF turn
  <2>2. c \in S /\ (c.index = c.end + 1 \/ c.index - c.end = 1 - L + (m - 1))
    BY <1>11
  <2>3. d \in S
    BY <1>1, <2>1, <2>2, Examined DEF S
  <2>4. /\ c.index = c.end + 1 => d = c
        /\ c.index # c.end + 1 => d.index - d.end = c.index - c.end + 1
    BY <1>1, <2>1, <2>2, Examined DEF S
  <2>5. c.index \in Int /\ c.end \in Int
    BY <1>1, <2>2 DEF S, GoodScans, Scans
  <2> HIDE DEF c, d
  <2>6. d.index = d.end + 1 \/ d.index - d.end = 1 - L + m
    <3>1. CASE c.index = c.end + 1
      BY <2>4, <3>1
    <3>2. CASE c.index # c.end + 1
      BY <1>1, <2>2, <2>4, <2>5, <3>2
    <3> QED
      BY <3>1, <3>2
  <2> QED
    BY <2>1, <2>3, <2>6 DEF d
<1>12. L \in A
  <2>1. \A m \in 1..L : m - 1 \in A => m \in A
    BY <1>11
  <2> HIDE DEF A
  <2> QED
    BY <1>1, <1>10, <2>1, UpToN
<1> DEFINE x == after[L]
           a == x.ads
           e == x.end
<1>13. x \in S /\ (x.index = e + 1 \/ x.index - e = 1 - L + L)
  BY <1>12
<1>14. /\ a \in [1..L -> V] /\ e \in 0..L /\ x.index \in 1..L + 1 /\ ToSet(a) = V
       /\ \A j \in 1..x.index - 1 : ~Dropped(rs[a[j]])
       /\ \A j \in e + 1..L : Dropped(rs[a[j]])
  BY <1>13 DEF S, GoodScans, Scans
<1>15. Kept(rs) = SubSeq(a, 1, e)
  BY <1>2
<1> HIDE DEF x, a, e, A
<1>16. x.index = e + 1
  BY <1>1, <1>13, <1>14
<1>17. a \in Seq(V) /\ Len(a) = L
  BY <1>1, <1>14
<1>18. DOMAIN SubSeq(a, 1, e) = 1..e /\ \A j \in 1..e : SubSeq(a, 1, e)[j] = a[j]
  BY <1>1, <1>14, <1>17
<1>19. ToSet(SubSeq(a, 1, e)) = {a[j] : j \in 1..e}
  BY <1>18 DEF ToSet
<1>20. ToSet(a) = {a[j] : j \in 1..L}
  BY <1>14 DEF ToSet
<1>21. \A j \in 1..e : a[j] \in V /\ ~Dropped(rs[a[j]])
  BY <1>1, <1>14, <1>16
<1>22. ASSUME NEW i \in V, ~Dropped(rs[i]) PROVE i \in {a[j] : j \in 1..e}
  <2>1. PICK j \in 1..L : a[j] = i
    BY <1>14, <1>20
  <2>2. ~ (j \in e + 1..L)
    BY <1>14, <1>22, <2>1
  <2>3. j \in 1..e
    BY <1>1, <1>14, <2>2
  <2> QED
    BY <2>1, <2>3
<1> QED
  BY <1>15, <1>19, <1>21, <1>22 DEF V

\* A sequence of all elements of a finite set has each of them.
LEMMA Orders ==
    ASSUME NEW S, IsFiniteSet(S), NEW o \in SetToSeqs(S)
    PROVE  /\ Cardinality(S) \in Nat /\ o \in [1..Cardinality(S) -> S]
           /\ \A i \in S : \E k \in 1..Cardinality(S) : o[k] = i
           /\ \A j, k \in 1..Cardinality(S) : o[j] = o[k] => j = k
<1> DEFINE N == Cardinality(S)
<1>1. N \in Nat
  BY FS_CardinalityType
<1>2. o \in [1..N -> S] /\ \A j, k \in 1..N : o[j] = o[k] => j = k
  BY DEF SetToSeqs
<1> HIDE DEF N
<1>3. o \in Injection(1..N, S)
  BY <1>2 DEF Injection, IsInjective
<1>4. Cardinality(1..N) = N
  BY <1>1, UpTo
<1>5. Cardinality(1..N) = Cardinality(S) <=> o \in Surjection(1..N, S)
  BY <1>3, FS_Injection
<1>6. \A i \in S : \E k \in 1..N : o[k] = i
  BY <1>4, <1>5 DEF Surjection, N
<1> QED
  BY <1>1, <1>2, <1>6 DEF N

\* The sort leaves the kept ads, each once, by their scores.
LEMMA Ranked ==
    ASSUME NEW n \in Nat, NEW rs \in Answers(n), NEW s \in Rankings(rs)
    PROVE  /\ Len(s) \in Nat /\ s \in [1..Len(s) -> 1..n]
           /\ \A k \in 1..Len(s) : s[k] \in Valid(rs) /\ ~Dropped(rs[s[k]]) /\ rs[s[k]].d \in Int
           /\ \A i \in Valid(rs) : ~Dropped(rs[i]) => \E k \in 1..Len(s) : s[k] = i
           /\ \A j, k \in 1..Len(s) : /\ s[j] = s[k] => j = k
                                      /\ j < k => rs[s[k]].d <= rs[s[j]].d
<1> DEFINE K0 == {i \in Valid(rs) : ~Dropped(rs[i])}
           N == Cardinality(K0)
<1>1. /\ s \in SetToSeqs(K0)
      /\ \A j, k \in DOMAIN s : j < k => ~Outranks(s[k], s[j], rs)
  BY KeptAre, Zenon DEF Rankings
<1>2. K0 \subseteq 1..n /\ IsFiniteSet(K0)
  BY ValidAnswers, UpTo
<1>3. \A i \in K0 : i \in Valid(rs) /\ ~Dropped(rs[i]) /\ rs[i].d \in Int
  BY ValidAnswers
<1>4. \A i \in Valid(rs) : ~Dropped(rs[i]) => i \in K0
  OBVIOUS
<1> HIDE DEF K0
<1>5. /\ N \in Nat /\ s \in [1..N -> K0]
      /\ \A i \in K0 : \E k \in 1..N : s[k] = i
      /\ \A j, k \in 1..N : s[j] = s[k] => j = k
  BY <1>1, <1>2, Orders
<1> HIDE DEF N
<1>6. Len(s) = N /\ DOMAIN s = 1..N
  BY <1>5
<1>7. ASSUME NEW j \in 1..N, NEW k \in 1..N, j < k PROVE rs[s[k]].d <= rs[s[j]].d
  <2>1. ~ (rs[s[k]].d > rs[s[j]].d)
    BY <1>1, <1>6, <1>7 DEF Outranks
  <2>2. rs[s[k]].d \in Int /\ rs[s[j]].d \in Int
    BY <1>3, <1>5
  <2> QED
    BY <2>1, <2>2
<1>8. s \in [1..N -> 1..n]
  BY <1>2, <1>5
<1> QED
  BY <1>3, <1>4, <1>5, <1>6, <1>7, <1>8

-----------------------------------------------------------------------------
(* ChooseWinnerAndGhostWinners: the candidates, the ghosts and the other bids. *)

LEMMA ScoreAsInt == ASSUME NEW d \in Int, d > 0 PROVE AsInt(d) \in Int /\ AsInt(d) <= d
BY DEF AsInt

LEMMA Appended ==
    ASSUME NEW T, NEW s \in Seq(T), NEW x \in T
    PROVE  /\ Append(s, x) \in Seq(T) /\ Append(s, x) # <<>>
           /\ ToSet(Append(s, x)) = ToSet(s) \cup {x}
<1>1. /\ DOMAIN s = 1..Len(s) /\ DOMAIN Append(s, x) = 1..Len(s) + 1 /\ Len(s) \in Nat
      /\ Append(s, x)[Len(s) + 1] = x
      /\ \A j \in 1..Len(s) : Append(s, x)[j] = s[j]
  OBVIOUS
<1>2. 1..Len(s) + 1 = (1..Len(s)) \cup {Len(s) + 1}
  BY <1>1
<1>3. ToSet(Append(s, x)) = ToSet(s) \cup {x}
  BY <1>1, <1>2 DEF ToSet
<1>4. Append(s, x) \in Seq(T)
  OBVIOUS
<1>5. Append(s, x) # <<>>
  <2>1. Len(Append(s, x)) = Len(s) + 1 /\ Len(<<>>) = 0
    OBVIOUS
  <2> QED
    BY <1>1, <2>1
<1> QED
  BY <1>3, <1>4, <1>5

\* No ad before the one at k has a lower score.
Descends(s, rs, k) == \A j \in 1..k : rs[s[j]].d \in Int /\ rs[s[k]].d <= rs[s[j]].d

Addable(cs, k, s, rs) ==
    /\ k \in Nat \ {0} /\ cs \in Seq(Nat) /\ ToSet(cs) \subseteq 1..k - 1
    /\ Descends(s, rs, k) /\ rs[s[k]].d > 0

IsAdded(e, cs, k, s, rs) ==
    /\ e \in Seq(Nat) /\ e # <<>> /\ ToSet(e) \subseteq ToSet(cs) \cup {k}
    /\ cs # <<>> => e = cs \/ \E j \in ToSet(cs) : rs[s[j]].d = rs[s[k]].d

\* A candidate that is added is the first, or as good as the last.
LEMMA CandidateIsAdded ==
    ASSUME NEW s, NEW rs, NEW k, NEW cs, Addable(cs, k, s, rs)
    PROVE  IsAdded(AddIfCandsEmptyOrHasEqLastDesirability(k, s, rs, cs), cs, k, s, rs)
<1> DEFINE e == AddIfCandsEmptyOrHasEqLastDesirability(k, s, rs, cs)
<1>a. /\ k \in Nat \ {0} /\ cs \in Seq(Nat) /\ ToSet(cs) \subseteq 1..k - 1
      /\ Descends(s, rs, k) /\ rs[s[k]].d > 0
  BY DEF Addable
<1>b. \/ cs = <<>> /\ e = Append(cs, k)
      \/ cs # <<>> /\ rs[s[Last(cs)]].d = AsInt(rs[s[k]].d) /\ e = Append(cs, k)
      \/ cs # <<>> /\ e = cs
  BY Zenon DEF AddIfCandsEmptyOrHasEqLastDesirability
<1> HIDE DEF e
<1>1. Append(cs, k) \in Seq(Nat) /\ Append(cs, k) # <<>> /\ ToSet(Append(cs, k)) = ToSet(cs) \cup {k}
  BY <1>a, Appended
<1>2. ASSUME cs = <<>> /\ e = Append(cs, k)
      PROVE  IsAdded(e, cs, k, s, rs)
  BY <1>1, <1>2 DEF IsAdded
<1>3. ASSUME cs # <<>> /\ rs[s[Last(cs)]].d = AsInt(rs[s[k]].d) /\ e = Append(cs, k)
      PROVE  IsAdded(e, cs, k, s, rs)
  <2> DEFINE l == Last(cs)
             d == rs[s[k]].d
             c == rs[s[l]].d
  <2>1. l \in ToSet(cs)
    <3>1. Len(cs) \in DOMAIN cs
      BY <1>a, <1>3
    <3> QED
      BY <3>1 DEF ToSet, Last
  <2>2. c = AsInt(d)
    BY <1>3
  <2> HIDE DEF l
  <2>3. l \in 1..k /\ k \in 1..k
    BY <1>a, <2>1
  <2>4. c \in Int /\ d \in Int /\ d <= c /\ d > 0
    BY <1>a, <2>3 DEF Descends
  <2> HIDE DEF c, d
  <2>5. AsInt(d) <= d
    BY <2>4, ScoreAsInt
  <2>6. c = d
    BY <2>2, <2>4, <2>5
  <2>7. \E j \in ToSet(cs) : rs[s[j]].d = rs[s[k]].d
    BY <2>1, <2>6 DEF c, d
  <2> QED
    BY <1>1, <1>3, <2>7 DEF IsAdded
<1>4. ASSUME cs # <<>> /\ e = cs
      PROVE  IsAdded(e, cs, k, s, rs)
  BY <1>a, <1>4 DEF IsAdded
<1>5. IsAdded(e, cs, k, s, rs)
  BY <1>b, <1>2, <1>3, <1>4
<1> QED
  BY <1>5 DEF e

\* What FindWinningAd knows of the candidates among the first m ads of a ranking: a
\* candidate has a positive score, that of the best k-anonymous ad if it may win and
\* that of the best of all ads if it may be a ghost winner.
GoodCands(s, rs, m) ==
    {c \in [winners : Seq(Nat), ghosts : Seq(Nat)] :
        /\ ToSet(c.winners) \cup ToSet(c.ghosts) \subseteq 1..m
        /\ c.winners = <<>> => \A l \in 1..m : KAnonymous(s[l]) => rs[s[l]].d <= 0
        /\ c.winners = <<>> /\ c.ghosts = <<>> => \A l \in 1..m : rs[s[l]].d <= 0
        /\ \A k \in ToSet(c.winners) :
              /\ KAnonymous(s[k]) /\ rs[s[k]].d > 0
              /\ \A l \in 1..Len(s) : KAnonymous(s[l]) => rs[s[l]].d <= rs[s[k]].d
        /\ \A k \in ToSet(c.ghosts) :
              /\ ~KAnonymous(s[k]) /\ rs[s[k]].d > 0
              /\ \A l \in 1..Len(s) : rs[s[l]].d <= rs[s[k]].d}

LEMMA Considering ==
    ASSUME NEW s, NEW rs, NEW N \in Nat, Len(s) = N,
           \A k \in 1..N : rs[s[k]].d \in Int,
           \A j, k \in 1..N : j < k => rs[s[k]].d <= rs[s[j]].d,
           NEW k \in 1..N, NEW c \in GoodCands(s, rs, k - 1)
    PROVE  Consider(c, k, s, rs) \in GoodCands(s, rs, k)
<1> DEFINE D(j) == rs[s[j]].d
           a(j) == KAnonymous(s[j])
           d == Consider(c, k, s, rs)
           V == c.winners
           H == c.ghosts
           add(cs) == AddIfCandsEmptyOrHasEqLastDesirability(k, s, rs, cs)
<1>1. /\ c = [winners |-> V, ghosts |-> H] /\ V \in Seq(Nat) /\ H \in Seq(Nat)
      /\ ToSet(V) \subseteq 1..k - 1 /\ ToSet(H) \subseteq 1..k - 1
      /\ V = <<>> => \A l \in 1..k - 1 : a(l) => D(l) <= 0
      /\ V = <<>> /\ H = <<>> => \A l \in 1..k - 1 : D(l) <= 0
      /\ \A j \in ToSet(V) : a(j) /\ D(j) > 0 /\ \A l \in 1..N : a(l) => D(l) <= D(j)
      /\ \A j \in ToSet(H) : ~a(j) /\ D(j) > 0 /\ \A l \in 1..N : D(l) <= D(j)
  BY DEF GoodCands
<1>2. /\ \A j \in 1..N : D(j) \in Int
      /\ \A j \in 1..k : D(j) \in Int /\ D(k) <= D(j)
      /\ \A l \in 1..N : l >= k => D(l) <= D(k)
  OBVIOUS
<1>3. (1..k - 1) \cup {k} = 1..k /\ k \in Nat \ {0}
  OBVIOUS
<1>a. ASSUME NEW w \in Seq(Nat), NEW h \in Seq(Nat),
             ToSet(w) \subseteq 1..k, ToSet(h) \subseteq 1..k,
             w = <<>> => \A l \in 1..k : a(l) => D(l) <= 0,
             w = <<>> /\ h = <<>> => \A l \in 1..k : D(l) <= 0,
             \A j \in ToSet(w) : a(j) /\ D(j) > 0 /\ \A l \in 1..N : a(l) => D(l) <= D(j),
             \A j \in ToSet(h) : ~a(j) /\ D(j) > 0 /\ \A l \in 1..N : D(l) <= D(j)
      PROVE  [winners |-> w, ghosts |-> h] \in GoodCands(s, rs, k)
  <2> DEFINE e == [winners |-> w, ghosts |-> h]
  <2>1. e \in [winners : Seq(Nat), ghosts : Seq(Nat)] /\ e.winners = w /\ e.ghosts = h
    OBVIOUS
  <2> HIDE DEF e
  <2>2. e \in GoodCands(s, rs, k)
    BY <1>a, <2>1 DEF GoodCands
  <2> QED
    BY <2>2 DEF e
<1>b. ToSet(V) \subseteq 1..k /\ ToSet(H) \subseteq 1..k
  BY <1>1, <1>3
<1>c. ASSUME NEW l \in 1..k PROVE l \in 1..k - 1 \/ l = k
  BY <1>c
<1>4. CASE D(k) <= 0
  <2>1. d = c
    BY <1>4 DEF Consider
  <2> HIDE DEF d, D, a, V, H
  <2>2. V = <<>> => \A l \in 1..k : a(l) => D(l) <= 0
    BY <1>1, <1>4, <1>c
  <2>3. V = <<>> /\ H = <<>> => \A l \in 1..k : D(l) <= 0
    BY <1>1, <1>4, <1>c
  <2>4. [winners |-> V, ghosts |-> H] \in GoodCands(s, rs, k)
    BY <1>1, <1>a, <1>b, <2>2, <2>3
  <2> QED
    BY <1>1, <2>1, <2>4 DEF d
<1>5. CASE ~ (D(k) <= 0) /\ a(k)
  <2> DEFINE e == add(V)
  <2>1. d = [c EXCEPT !.winners = e]
    BY <1>5, Zenon DEF Consider
  <2>2. /\ e \in Seq(Nat) /\ e # <<>> /\ ToSet(e) \subseteq ToSet(V) \cup {k}
        /\ V # <<>> => e = V \/ \E j \in ToSet(V) : D(j) = D(k)
    <3>1. rs[s[k]].d > 0
      BY <1>2, <1>5
    <3>2. V \in Seq(Nat) /\ ToSet(V) \subseteq 1..k - 1 /\ k \in Nat \ {0}
      BY <1>1, <1>3
    <3>3. Descends(s, rs, k)
      BY <1>2 DEF Descends
    <3>4. Addable(V, k, s, rs)
      BY <3>1, <3>2, <3>3, Zenon DEF Addable
    <3> HIDE DEF V, H, D
    <3>5. IsAdded(e, V, k, s, rs)
      BY <3>4, CandidateIsAdded, Zenon
    <3> HIDE DEF e
    <3> QED
      BY <3>5 DEF IsAdded, D
  <2> HIDE DEF d, e
  <2>3. d = [winners |-> e, ghosts |-> H]
    BY <1>1, <2>1
  <2> HIDE DEF D, a, V, H
  <2>4. ASSUME NEW j \in ToSet(e) PROVE a(j) /\ D(j) > 0 /\ \A l \in 1..N : a(l) => D(l) <= D(j)
    <3>1. CASE j \in ToSet(V)
      BY <1>1, <3>1
    <3>2. CASE j = k /\ V = <<>>
      <4>1. ASSUME NEW l \in 1..N, a(l) PROVE D(l) <= D(k)
        <5>1. CASE l >= k
          BY <1>2, <5>1
        <5>2. CASE ~ (l >= k)
          <6>1. D(l) <= 0
            BY <1>1, <3>2, <4>1, <5>2
          <6> QED
            BY <1>2, <1>5, <6>1
        <5> QED
          BY <5>1, <5>2
      <4> QED
        BY <1>2, <1>5, <3>2, <4>1
    <3>3. CASE j = k /\ V # <<>> /\ k \notin ToSet(V)
      <4>1. PICK i \in ToSet(V) : D(i) = D(k)
        BY <2>2, <2>4, <3>3
      <4> QED
        BY <1>1, <1>5, <3>3, <4>1
    <3> QED
      BY <2>2, <2>4, <3>1, <3>2, <3>3
  <2>5. ToSet(e) \subseteq 1..k
    BY <1>1, <1>3, <2>2
  <2>6. d \in GoodCands(s, rs, k)
    BY <1>1, <1>a, <1>b, <2>2, <2>3, <2>4, <2>5
  <2> QED
    BY <2>6 DEF d
<1>6. CASE ~ (D(k) <= 0) /\ ~a(k) /\ V = <<>>
  <2> DEFINE e == add(H)
  <2>1. d = [c EXCEPT !.ghosts = e]
    BY <1>6, Zenon DEF Consider
  <2>2. /\ e \in Seq(Nat) /\ e # <<>> /\ ToSet(e) \subseteq ToSet(H) \cup {k}
        /\ H # <<>> => e = H \/ \E j \in ToSet(H) : D(j) = D(k)
    <3>1. rs[s[k]].d > 0
      BY <1>2, <1>6
    <3>2. H \in Seq(Nat) /\ ToSet(H) \subseteq 1..k - 1 /\ k \in Nat \ {0}
      BY <1>1, <1>3
    <3>3. Descends(s, rs, k)
      BY <1>2 DEF Descends
    <3>4. Addable(H, k, s, rs)
      BY <3>1, <3>2, <3>3, Zenon DEF Addable
    <3> HIDE DEF V, H, D
    <3>5. IsAdded(e, H, k, s, rs)
      BY <3>4, CandidateIsAdded, Zenon
    <3> HIDE DEF e
    <3> QED
      BY <3>5 DEF IsAdded, D
  <2> HIDE DEF d, e
  <2>3. d = [winners |-> V, ghosts |-> e]
    BY <1>1, <2>1
  <2> HIDE DEF D, a, V, H
  <2>4. ASSUME NEW j \in ToSet(e) PROVE ~a(j) /\ D(j) > 0 /\ \A l \in 1..N : D(l) <= D(j)
    <3>1. CASE j \in ToSet(H)
      BY <1>1, <3>1
    <3>2. CASE j = k /\ H = <<>>
      <4>1. ASSUME NEW l \in 1..N PROVE D(l) <= D(k)
        <5>1. CASE l >= k
          BY <1>2, <5>1
        <5>2. CASE ~ (l >= k)
          <6>1. D(l) <= 0
            BY <1>1, <1>6, <3>2, <5>2
          <6> QED
            BY <1>2, <1>6, <6>1
        <5> QED
          BY <5>1, <5>2
      <4> QED
        BY <1>2, <1>6, <3>2, <4>1
    <3>3. CASE j = k /\ H # <<>> /\ k \notin ToSet(H)
      <4>1. PICK i \in ToSet(H) : D(i) = D(k)
        BY <2>2, <2>4, <3>3
      <4> QED
        BY <1>1, <1>6, <3>3, <4>1
    <3> QED
      BY <2>2, <2>4, <3>1, <3>2, <3>3
  <2>5. \A l \in 1..k : a(l) => D(l) <= 0
    BY <1>1, <1>6, <1>c
  <2>6. ToSet(e) \subseteq 1..k
    BY <1>1, <1>3, <2>2
  <2>7. ToSet(V) = {}
    BY <1>6 DEF ToSet
  <2>8. d \in GoodCands(s, rs, k)
    BY <1>1, <1>a, <1>b, <2>2, <2>3, <2>4, <2>5, <2>6, <2>7
  <2> QED
    BY <2>8 DEF d
<1>7. CASE ~ (D(k) <= 0) /\ ~a(k) /\ V # <<>>
  <2>1. d = c
    BY <1>7, Zenon DEF Consider
  <2> HIDE DEF d, D, a, V, H
  <2>2. [winners |-> V, ghosts |-> H] \in GoodCands(s, rs, k)
    BY <1>1, <1>7, <1>a, <1>b
  <2> QED
    BY <1>1, <2>1, <2>2 DEF d
<1> QED
  BY <1>4, <1>5, <1>6, <1>7

LEMMA CandidatesAre ==
    ASSUME NEW n \in Nat, NEW rs \in Answers(n), NEW s \in Rankings(rs)
    PROVE  Candidates(s, rs) \in GoodCands(s, rs, Len(s))
<1> DEFINE N == Len(s)
           T == [winners : Seq(Nat), ghosts : Seq(Nat)]
           q == [k \in DOMAIN s |-> k]
           c0 == [winners |-> <<>>, ghosts |-> <<>>]
           turn(c, k) == Consider(c, k, s, rs)
           G(f) == [m \in 0..Len(q) |->
                      IF m = 0 THEN c0
                      ELSE CHOOSE new \in {turn(c, q[m]) : c \in {f[m - 1]}} : TRUE]
           after == CHOOSE f : f = G(f)
           step == [x \in T \X (1..N) |-> turn(x[1], x[2])]
<1>1. /\ N \in Nat /\ DOMAIN s = 1..N
      /\ \A k \in 1..N : rs[s[k]].d \in Int
      /\ \A j, k \in 1..N : j < k => rs[s[k]].d <= rs[s[j]].d
  BY Ranked
<1> HIDE DEF N
<1>2. Len(q) = N /\ \A k \in 1..N : q[k] = k
  BY <1>1
<1>3. Candidates(s, rs) = after[N]
  <2>1. Candidates(s, rs) = after[Len(q)]
    BY Zenon DEF Candidates, Fold
  <2> QED
    BY <1>2, <2>1
<1>4. c0 \in T
  OBVIOUS
<1>5. \A c \in T, k \in 1..N : turn(c, k) \in T
  <2> SUFFICES ASSUME NEW c \in T, NEW k \in 1..N PROVE turn(c, k) \in T
    OBVIOUS
  <2>1. ASSUME NEW cs \in Seq(Nat)
        PROVE  AddIfCandsEmptyOrHasEqLastDesirability(k, s, rs, cs) \in Seq(Nat)
    BY <1>1, Appended DEF AddIfCandsEmptyOrHasEqLastDesirability
  <2>2. c.winners \in Seq(Nat) /\ c.ghosts \in Seq(Nat)
    OBVIOUS
  <2> QED
    BY <2>1, <2>2 DEF Consider
<1> HIDE DEF q, c0, turn
<1>6. step \in Turns(T, N)
  BY <1>5 DEF Turns
<1>7. PICK f : IsRun(f, T, N, c0, step)
  <2> HIDE DEF step, G, after, T
  <2> QED
    BY <1>1, <1>4, <1>6, Runs
<1> HIDE DEF T
<1>8. f = G(f)
  <2>1. ASSUME NEW m \in 0..N
        PROVE  f[m] = IF m = 0 THEN c0
                      ELSE CHOOSE new \in {turn(c, q[m]) : c \in {f[m - 1]}} : TRUE
    <3>1. CASE m = 0
      BY <1>7, <3>1 DEF IsRun
    <3>2. CASE m # 0
      <4>1. m \in 1..N /\ m - 1 \in 0..N /\ q[m] = m
        BY <1>1, <1>2, <3>2
      <4>2. f[m - 1] \in T /\ f[m] = step[<<f[m - 1], m>>]
        BY <1>7, <4>1 DEF IsRun
      <4>3. f[m] = turn(f[m - 1], m)
        BY <4>1, <4>2
      <4> QED
        BY <3>2, <4>1, <4>3
    <3> QED
      BY <3>1, <3>2
  <2> QED
    BY <1>2, <1>7, <2>1 DEF IsRun
<1>9. after = G(after)
  BY <1>8
<1> HIDE DEF after, step
<1>10. \A m \in 0..N : after[m] = IF m = 0 THEN c0 ELSE turn(after[m - 1], m)
  <2> SUFFICES ASSUME NEW m \in 0..N
               PROVE  after[m] = IF m = 0 THEN c0 ELSE turn(after[m - 1], m)
    OBVIOUS
  <2>1. after[m] = IF m = 0 THEN c0
                   ELSE CHOOSE new \in {turn(c, q[m]) : c \in {after[m - 1]}} : TRUE
    BY <1>2, <1>9
  <2>2. ASSUME m # 0 PROVE q[m] = m
    BY <1>1, <1>2, <2>2
  <2>3. \A x : (CHOOSE new \in {turn(c, m) : c \in {x}} : TRUE) = turn(x, m)
    OBVIOUS
  <2> QED
    BY <2>1, <2>2, <2>3
<1> DEFINE A == {m \in 0..N : after[m] \in GoodCands(s, rs, m)}
<1>11. 0 \in A
  <2>1. after[0] = c0 /\ 0 \in 0..N
    BY <1>1, <1>10
  <2>2. c0 \in T /\ ToSet(c0.winners) = {} /\ ToSet(c0.ghosts) = {}
    BY DEF c0, T, ToSet
  <2>3. c0 \in GoodCands(s, rs, 0)
    BY <2>2 DEF GoodCands, T
  <2> QED
    BY <2>1, <2>3
<1>12. ASSUME NEW m \in 1..N, m - 1 \in A PROVE m \in A
  <2>1. m \in 0..N /\ after[m] = Consider(after[m - 1], m, s, rs)
    BY <1>1, <1>10 DEF turn
  <2>2. after[m - 1] \in GoodCands(s, rs, m - 1)
    BY <1>12
  <2>3. Consider(after[m - 1], m, s, rs) \in GoodCands(s, rs, m)
    BY <1>1, <2>2, Considering DEF N
  <2> QED
    BY <2>1, <2>3
<1>13. N \in A
  <2>1. \A m \in 1..N : m - 1 \in A => m \in A
    BY <1>12
  <2>2. N \in 0..N
    BY <1>1
  <2> HIDE DEF A
  <2> QED
    BY <1>1, <1>11, <2>1, <2>2, UpToN
<1> QED
  BY <1>3, <1>13 DEF N

LEMMA AnInt == \A d \in Int : AsInt(d) \in Int
BY DEF AsInt

\* PopulateHighestScoringOtherBidsData looks at two scores, from the highest on. One
\* that is higher than a score it has reached is before that one, and so has been
\* reached.
LEMMA OthersAre ==
    ASSUME NEW n \in Nat, NEW rs \in Answers(n), NEW s \in Rankings(rs), NEW cs, NEW w,
           NEW others \in OtherBids(s, rs, cs, w)
    PROVE  /\ \A o \in others :
                \E k \in 1..Len(s) : /\ o = s[k] /\ k \notin ToSet(cs.ghosts) /\ k # w
                                     /\ rs[s[k]].d # 0
           /\ \A o \in others, k \in 1..Len(s) :
                /\ AsInt(rs[s[k]].d) > AsInt(rs[o].d) /\ rs[s[k]].d # 0
                /\ k \notin ToSet(cs.ghosts) /\ k # w
                => s[k] \in others
<1> DEFINE D(k) == rs[s[k]].d
           C == DOMAIN s \ ToSet(cs.ghosts)
           S == {D(k) : k \in C}
           O == {o \in SetToSeqs(S) :
                   \A j, k \in DOMAIN o : j < k => AsInt(o[k]) <= AsInt(o[j])}
           top(o) == {o[j] : j \in {k \in DOMAIN o : k <= 2 /\ \A m \in 1..k : o[m] # 0}}
           out(o) == {s[k] : k \in {l \in C \ {w} : D(l) \in top(o)}}
<1>1. Len(s) \in Nat /\ DOMAIN s = 1..Len(s) /\ \A k \in 1..Len(s) : D(k) \in Int
  BY Ranked
<1>2. CASE others = {}
  BY <1>2
<1>3. CASE \E o \in O : others = out(o)
  <2>1. PICK o \in O : others = out(o)
    BY <1>3
  <2>2. IsFiniteSet(S)
    <3>1. IsFiniteSet(C)
      BY <1>1, UpTo
    <3> DEFINE f == [k \in C |-> D(k)]
    <3>2. f \in Surjection(C, S)
      BY DEF Surjection
    <3> HIDE DEF f, C, S
    <3> QED
      BY <3>1, <3>2, FS_Surjection
  <2> DEFINE N == Cardinality(S)
  <2>3. /\ N \in Nat /\ DOMAIN o = 1..N
        /\ \A v \in S : \E k \in 1..N : o[k] = v
        /\ \A j, k \in 1..N : j < k => AsInt(o[k]) <= AsInt(o[j])
    <3>1. o \in SetToSeqs(S)
      OBVIOUS
    <3>2. \A j, k \in DOMAIN o : j < k => AsInt(o[k]) <= AsInt(o[j])
      OBVIOUS
    <3> HIDE DEF S, O
    <3>3. N \in Nat /\ o \in [1..N -> S] /\ \A v \in S : \E k \in 1..N : o[k] = v
      BY <2>2, <3>1, Orders
    <3> QED
      BY <3>2, <3>3
  <2> HIDE DEF N, S, O
  <2>4. ASSUME NEW v, v \in top(o)
        PROVE  \E j \in 1..N : v = o[j] /\ j <= 2 /\ \A m \in 1..j : o[m] # 0
    BY <2>3, <2>4
  <2>5. ASSUME NEW x \in others
        PROVE  \E k \in C \ {w} : x = s[k] /\ D(k) \in top(o)
    BY <2>1
  <2> HIDE DEF top
  <2>6. ASSUME NEW x \in others
        PROVE  \E k \in 1..Len(s) : /\ x = s[k] /\ k \notin ToSet(cs.ghosts) /\ k # w
                                     /\ D(k) # 0
    <3>1. PICK k \in C \ {w} : x = s[k] /\ D(k) \in top(o)
      BY <2>5
    <3>2. PICK j \in 1..N : D(k) = o[j] /\ j <= 2 /\ \A m \in 1..j : o[m] # 0
      BY <2>4, <3>1
    <3>3. j \in 1..j
      BY <2>3
    <3>4. D(k) # 0
      BY <3>2, <3>3
    <3> QED
      BY <1>1, <3>1, <3>4
  <2>7. ASSUME NEW x \in others, NEW k \in 1..Len(s),
               AsInt(D(k)) > AsInt(rs[x].d), D(k) # 0,
               k \notin ToSet(cs.ghosts), k # w
        PROVE  s[k] \in others
    <3>1. PICK l \in C \ {w} : x = s[l] /\ D(l) \in top(o)
      BY <2>5
    <3>2. PICK j \in 1..N : D(l) = o[j] /\ j <= 2 /\ \A m \in 1..j : o[m] # 0
      BY <2>4, <3>1
    <3>3. D(k) \in S /\ k \in C \ {w}
      BY <1>1, <2>7 DEF S
    <3>4. PICK i \in 1..N : o[i] = D(k)
      BY <2>3, <3>3
    <3>5. AsInt(o[i]) > AsInt(o[j])
      BY <2>7, <3>1, <3>2, <3>4
    <3>6. i < j
      <4>1. D(k) \in Int /\ D(l) \in Int
        BY <1>1, <3>1
      <4>2. AsInt(o[i]) \in Int /\ AsInt(o[j]) \in Int
        <5>1. o[i] \in Int /\ o[j] \in Int
          BY <3>2, <3>4, <4>1
        <5> QED
          BY <5>1, AnInt
      <4>3. j < i => AsInt(o[i]) <= AsInt(o[j])
        BY <2>3
      <4>4. i # j
        BY <3>5, <4>2
      <4>5. ~ (j < i)
        BY <3>5, <4>2, <4>3
      <4> QED
        BY <2>3, <4>4, <4>5
    <3>7. i <= 2 /\ \A m \in 1..i : o[m] # 0
      BY <2>3, <3>2, <3>6
    <3>8. D(k) \in top(o)
      BY <2>3, <3>4, <3>7 DEF top
    <3> QED
      BY <2>1, <3>3, <3>8
  <2> QED
    BY <2>6, <2>7
<1>4. others = {} \/ \E o \in O : others = out(o)
  BY DEF OtherBids
<1> QED
  BY <1>2, <1>3, <1>4

\* The ghost winners are ghost winner candidates, as many as are allowed at most.
LEMMA GhostWinnersAre ==
    ASSUME NEW n \in Nat, NEW rs \in Answers(n), NEW s \in Rankings(rs),
           request \in Requests, NEW g \in GhostWinners(Candidates(s, rs)),
           NEW won, won = [k \in DOMAIN g |-> s[g[k]]]
    PROVE  /\ \A x \in ToSet(won) :
                \E k \in ToSet(Candidates(s, rs).ghosts) : x = s[k]
           /\ Cardinality(ToSet(won)) <= request.maxGhosts
<1> DEFINE cs == Candidates(s, rs)
           H == ToSet(cs.ghosts)
           m == IF Len(cs.ghosts) < request.maxGhosts THEN Len(cs.ghosts)
                ELSE request.maxGhosts
<1>1. cs.ghosts \in Seq(Nat) /\ H \subseteq 1..Len(s) /\ Len(s) \in Nat
  BY CandidatesAre, Ranked DEF GoodCands
<1>2. request.maxGhosts \in Nat
  BY ScoreAdsAssumption
<1>3. m \in Nat /\ m <= request.maxGhosts
  BY <1>1, <1>2
<1>4. PICK G \in kSubset(m, H) : g \in SetToSeqs(G)
  BY DEF GhostWinners
<1> HIDE DEF m, cs
<1>5. G \subseteq H /\ Cardinality(G) = m
  BY <1>4 DEF kSubset
<1>6. IsFiniteSet(G)
  BY <1>1, <1>5, UpTo, FS_Subset
<1>7. g \in [1..m -> G]
  BY <1>4, <1>5, <1>6, Orders
<1>8. DOMAIN won = 1..m /\ \A k \in 1..m : won[k] = s[g[k]] /\ g[k] \in H
  BY <1>5, <1>7
<1>9. won \in Surjection(1..m, ToSet(won))
  <2>1. won = [k \in 1..m |-> won[k]] /\ ToSet(won) = {won[k] : k \in 1..m}
    BY <1>7, <1>8 DEF ToSet
  <2> QED
    BY <2>1 DEF Surjection
<1>10. Cardinality(ToSet(won)) <= m
  <2>1. IsFiniteSet(1..m) /\ Cardinality(1..m) = m
    BY <1>3, UpTo
  <2>2. Cardinality(ToSet(won)) <= Cardinality(1..m)
    BY <1>9, <2>1, FS_Surjection
  <2> QED
    BY <2>1, <2>2
<1>11. Cardinality(ToSet(won)) \in Nat
  BY <1>3, <1>9, UpTo, FS_Surjection, FS_CardinalityType
<1>12. ASSUME NEW x \in ToSet(won) PROVE \E k \in H : x = s[k]
  BY <1>8 DEF ToSet
<1> QED
  BY <1>2, <1>3, <1>10, <1>11, <1>12 DEF cs

-----------------------------------------------------------------------------
(* The outcome of a request stays what the ranking made it.                  *)

\* Which ads are k-anonymous and which are dropped is settled before they are scored.
LEMMA SettledAds ==
    ASSUME UNCHANGED <<deployment, request, ads>>
    PROVE  /\ \A i : KAnonymous(i)' <=> KAnonymous(i)
           /\ \A v : Dropped(v)' <=> Dropped(v)
<1>1. Components' = Components
  BY DEF Components
<1>2. \A i : KAnonymous(i)' <=> KAnonymous(i)
  BY <1>1 DEF KAnonymous, IsTopLevel, Ad
<1>3. \A v : Dropped(v)' <=> Dropped(v)
  BY DEF Dropped, Rejected
<1> QED
  BY <1>2, <1>3

\* What BestAdWins says, of any answers, winner, ghost winners and other bids.
RightOutcome(rs, w, ghosts, others) ==
    LET judged == {i \in Valid(rs) : ~Dropped(rs[i])}
        eligible == {i \in judged : rs[i].d > 0}
    IN /\ w = 0 <=> \A i \in eligible : ~KAnonymous(i)
       /\ w # 0 => /\ w \in eligible /\ KAnonymous(w)
                   /\ \A i \in eligible : KAnonymous(i) => rs[i].d <= rs[w].d
       /\ \A g \in ghosts :
            /\ g \in eligible /\ ~KAnonymous(g)
            /\ w # 0 => rs[g].d >= rs[w].d
            /\ \A i \in eligible : rs[i].d <= rs[g].d
       /\ Cardinality(ghosts) <= request.maxGhosts
       /\ others \cap ({w} \cup ghosts) = {}
       /\ others \subseteq {i \in judged : rs[i].d # 0}
       /\ \A o \in others, i \in judged :
            AsInt(rs[i].d) > AsInt(rs[o].d) /\ rs[i].d # 0
            => i \in others \cup {w} \/ ~KAnonymous(i)

\* The outcome of the ranking, its candidates and the other bids is right, whichever
\* candidates are drawn.
LEMMA RankingIsRight ==
    ASSUME NEW n \in Nat, NEW rs \in Answers(n), NEW s \in Rankings(rs),
           request \in Requests, NEW g \in GhostWinners(Candidates(s, rs)),
           NEW won, won = [k \in DOMAIN g |-> s[g[k]]]
    PROVE  /\ Candidates(s, rs).winners = <<>> => RightOutcome(rs, 0, ToSet(won), {})
           /\ \A k \in ToSet(Candidates(s, rs).winners) :
                /\ s[k] \in 1..n /\ rs[s[k]].ok
                /\ \A others \in OtherBids(s, rs, Candidates(s, rs), k) :
                      RightOutcome(rs, s[k], ToSet(won), others)
<1> DEFINE cs == Candidates(s, rs)
           N == Len(s)
           H == ToSet(cs.ghosts)
           V == ToSet(cs.winners)
           D(i) == rs[i].d
           judged == {i \in Valid(rs) : ~Dropped(rs[i])}
           eligible == {i \in judged : D(i) > 0}
           ghosts == ToSet(won)
<1>1. /\ N \in Nat /\ s \in [1..N -> 1..n]
      /\ \A k \in 1..N : s[k] \in judged /\ D(s[k]) \in Int
      /\ \A i \in judged : \E k \in 1..N : s[k] = i
      /\ \A j, k \in 1..N : s[j] = s[k] => j = k
  <2>1. \A i \in Valid(rs) : ~Dropped(rs[i]) => \E k \in 1..Len(s) : s[k] = i
    BY Ranked
  <2>2. \A k \in 1..N : s[k] \in Valid(rs) /\ ~Dropped(rs[s[k]]) /\ rs[s[k]].d \in Int
    BY Ranked
  <2>3. N \in Nat /\ s \in [1..N -> 1..n]
    BY Ranked
  <2>5. ASSUME NEW j \in 1..N, NEW k \in 1..N, s[j] = s[k] PROVE j = k
    BY <2>5, Ranked
  <2> HIDE DEF N
  <2>4. \A i : i \in judged <=> i \in Valid(rs) /\ ~Dropped(rs[i])
    OBVIOUS
  <2> HIDE DEF judged
  <2> QED
    BY <2>1, <2>2, <2>3, <2>4, <2>5 DEF N
<1>2. /\ V \subseteq 1..N /\ H \subseteq 1..N
      /\ cs.winners = <<>> => \A l \in 1..N : KAnonymous(s[l]) => D(s[l]) <= 0
      /\ \A k \in V : /\ KAnonymous(s[k]) /\ D(s[k]) > 0
                      /\ \A l \in 1..N : KAnonymous(s[l]) => D(s[l]) <= D(s[k])
      /\ \A k \in H : /\ ~KAnonymous(s[k]) /\ D(s[k]) > 0
                      /\ \A l \in 1..N : D(s[l]) <= D(s[k])
  <2>1. cs \in GoodCands(s, rs, N)
    BY CandidatesAre
  <2> HIDE DEF cs
  <2> QED
    BY <2>1 DEF GoodCands
<1>3. /\ \A x \in ghosts : \E k \in H : x = s[k]
      /\ Cardinality(ghosts) <= request.maxGhosts
  BY GhostWinnersAre
<1>4. ASSUME NEW k \in V, NEW others \in OtherBids(s, rs, cs, k)
      PROVE  /\ \A o \in others : \E l \in 1..N : o = s[l] /\ l \notin H /\ l # k /\ D(s[l]) # 0
             /\ \A o \in others, l \in 1..N :
                  AsInt(D(s[l])) > AsInt(D(o)) /\ D(s[l]) # 0 /\ l \notin H /\ l # k
                  => s[l] \in others
  BY <1>4, OthersAre
<1>5. \A i \in judged : i \in Valid(rs) /\ rs[i].ok
  BY DEF Valid
<1>6. \A w, others : RightOutcome(rs, w, ghosts, others) <=>
       /\ w = 0 <=> \A i \in eligible : ~KAnonymous(i)
       /\ w # 0 => /\ w \in eligible /\ KAnonymous(w)
                   /\ \A i \in eligible : KAnonymous(i) => D(i) <= D(w)
       /\ \A x \in ghosts :
            /\ x \in eligible /\ ~KAnonymous(x)
            /\ w # 0 => D(x) >= D(w)
            /\ \A i \in eligible : D(i) <= D(x)
       /\ Cardinality(ghosts) <= request.maxGhosts
       /\ others \cap ({w} \cup ghosts) = {}
       /\ others \subseteq {i \in judged : D(i) # 0}
       /\ \A o \in others, i \in judged :
            AsInt(D(i)) > AsInt(D(o)) /\ D(i) # 0
            => i \in others \cup {w} \/ ~KAnonymous(i)
  BY Zenon DEF RightOutcome
<1>7. \A i : i \in eligible <=> i \in judged /\ D(i) > 0
  OBVIOUS
<1> HIDE DEF cs, N, H, V, judged, eligible, ghosts, D
<1>8. \A x \in ghosts :
        /\ x \in eligible /\ ~KAnonymous(x)
        /\ \A i \in judged : D(i) <= D(x)
  <2> SUFFICES ASSUME NEW x \in ghosts
               PROVE  /\ x \in eligible /\ ~KAnonymous(x)
                      /\ \A i \in judged : D(i) <= D(x)
    OBVIOUS
  <2>1. PICK k \in H : x = s[k]
    BY <1>3
  <2>2. k \in 1..N
    BY <1>2, <2>1
  <2>3. x \in eligible /\ ~KAnonymous(x)
    BY <1>1, <1>2, <1>7, <2>1, <2>2
  <2>4. ASSUME NEW i \in judged PROVE D(i) <= D(x)
    <3>1. PICK l \in 1..N : s[l] = i
      BY <1>1
    <3> QED
      BY <1>2, <2>1, <3>1
  <2> QED
    BY <2>3, <2>4
<1>9. ASSUME cs.winners = <<>> PROVE RightOutcome(rs, 0, ghosts, {})
  <2>1. ASSUME NEW i \in eligible PROVE ~KAnonymous(i)
    <3>1. PICK l \in 1..N : s[l] = i
      BY <1>1, <1>7
    <3>2. D(s[l]) \in Int /\ D(s[l]) > 0
      BY <1>1, <1>7, <3>1
    <3> QED
      BY <1>2, <1>9, <3>1, <3>2
  <2> QED
    BY <1>3, <1>6, <1>7, <1>8, <2>1
<1>10. ASSUME NEW k \in V
       PROVE  s[k] \in 1..n /\ rs[s[k]].ok
  BY <1>1, <1>2, <1>5
<1>11. ASSUME NEW k \in V, NEW others \in OtherBids(s, rs, cs, k)
       PROVE  RightOutcome(rs, s[k], ghosts, others)
  <2> DEFINE w == s[k]
  <2>1. k \in 1..N /\ w \in 1..n /\ w # 0 /\ w \in judged
    BY <1>1, <1>2
  <2>2. w \in eligible /\ KAnonymous(w)
    BY <1>2, <1>7, <2>1
  <2>3. ASSUME NEW i \in eligible, KAnonymous(i) PROVE D(i) <= D(w)
    <3>1. PICK l \in 1..N : s[l] = i
      BY <1>1, <1>7
    <3> QED
      BY <1>2, <2>3, <3>1
  <2>4. \A x \in ghosts : D(x) >= D(w)
    <3> SUFFICES ASSUME NEW x \in ghosts PROVE D(x) >= D(w)
      OBVIOUS
    <3>1. x \in judged /\ D(w) <= D(x)
      BY <1>7, <1>8, <2>1
    <3>2. D(x) \in Int /\ D(w) \in Int
      BY <1>1, <2>1, <3>1
    <3> QED
      BY <3>1, <3>2
  <2>5. ASSUME NEW o \in others
        PROVE  o # w /\ o \notin ghosts /\ o \in judged /\ D(o) # 0
    <3>1. PICK l \in 1..N : o = s[l] /\ l \notin H /\ l # k /\ D(s[l]) # 0
      BY <1>4, <1>11
    <3>2. o # w
      BY <1>1, <2>1, <3>1
    <3>3. ASSUME o \in ghosts PROVE FALSE
      <4>1. PICK j \in H : o = s[j]
        BY <1>3, <3>3
      <4>2. j \in 1..N
        BY <1>2, <4>1
      <4> QED
        BY <1>1, <3>1, <4>1, <4>2
    <3> QED
      BY <1>1, <3>1, <3>2, <3>3
  <2>6. ASSUME NEW o \in others, NEW i \in judged, AsInt(D(i)) > AsInt(D(o)), D(i) # 0
        PROVE  i \in others \cup {w} \/ ~KAnonymous(i)
    <3>1. PICK l \in 1..N : s[l] = i
      BY <1>1
    <3>2. CASE l \in H
      BY <1>2, <3>1, <3>2
    <3>3. CASE l = k
      BY <3>1, <3>3
    <3>4. CASE l \notin H /\ l # k
      BY <1>4, <2>6, <3>1, <3>4
    <3> QED
      BY <3>2, <3>3, <3>4
  <2> HIDE DEF w
  <2>7. others \cap ({w} \cup ghosts) = {} /\ others \subseteq {i \in judged : D(i) # 0}
    BY <2>5
  <2>8. w = 0 <=> \A i \in eligible : ~KAnonymous(i)
    BY <2>1, <2>2
  <2>9. \A x \in ghosts :
            /\ x \in eligible /\ ~KAnonymous(x)
            /\ w # 0 => D(x) >= D(w)
            /\ \A i \in eligible : D(i) <= D(x)
    BY <1>7, <1>8, <2>4
  <2>10. RightOutcome(rs, w, ghosts, others)
    BY <1>3, <1>6, <2>2, <2>3, <2>6, <2>7, <2>8, <2>9
  <2> QED
    BY <2>10 DEF w
<1> QED
  BY <1>9, <1>10, <1>11 DEF cs, V, ghosts

\* The ads have been scored, and the request has not been aborted.
Scored ==
    \/ stage \in {"report", "reporting", "reportResult", "reportWin"}
    \/ stage = "done" /\ responses # <<>>

LEMMA BestAdWinsIs ==
    /\ BestAdWins <=>
         (Scored => RightOutcome(responses, response.winner, ToSet(response.ghosts),
                                 response.others))
    /\ BestAdWins' <=>
         (Scored' => RightOutcome(responses, response.winner, ToSet(response.ghosts),
                                  response.others)')
BY Zenon DEF BestAdWins, Scored, RightOutcome, Judged, Score

LEMMA RightStands ==
    ASSUME UNCHANGED <<deployment, request, ads>>
    PROVE  \A rs, w, ghosts, others :
             RightOutcome(rs, w, ghosts, others)' <=> RightOutcome(rs, w, ghosts, others)
<1>1. /\ \A i : KAnonymous(i)' <=> KAnonymous(i)
      /\ \A v : Dropped(v)' <=> Dropped(v)
      /\ request' = request
  BY SettledAds
<1> QED
  BY <1>1 DEF RightOutcome

\* Where the answers and the outcome stay, so does what is said of them.
LEMMA OutcomeStands ==
    ASSUME BestAdWins, UNCHANGED <<deployment, request, ads, responses>>,
           response'.winner = response.winner, response'.ghosts = response.ghosts,
           response'.others = response.others,
           Scored' => Scored
    PROVE  BestAdWins'
<1>1. Scored' => RightOutcome(responses, response.winner, ToSet(response.ghosts),
                              response.others)
  BY BestAdWinsIs
<1>2. Scored' => RightOutcome(responses, response.winner, ToSet(response.ghosts),
                              response.others)'
  BY <1>1, RightStands
<1> QED
  BY <1>2, BestAdWinsIs

-----------------------------------------------------------------------------
(* The inductive invariant of a scoring request.                             *)

\* Until its ads are scored a request has no outcome, and the answers to its batch are
\* verdicts.
ScoringInv ==
    /\ request \in Requests
    /\ stage \in {"execute", "scoreAds"} => responses = <<>> /\ response = NoResponse
    /\ stage = "scoreAds" => batch.size \in Nat /\ batch.response \in Answers(batch.size)
    /\ BestAdWins

LEMMA ScoringStarts ==
    ASSUME Init
    PROVE  ScoringInv
<1>1. request \in Requests /\ stage = "execute" /\ responses = <<>> /\ response = NoResponse
  BY DEF Init
<1> QED
  BY <1>1 DEF ScoringInv, BestAdWins

LEMMA RejectKeepsScoring ==
    ASSUME ScoringInv, RejectRequest
    PROVE  ScoringInv'
<1>1. /\ stage = "execute" /\ stage' = "done"
      /\ UNCHANGED <<deployment, request, ads, responses, response>>
  BY Zenon DEF RejectRequest, FinishWithStatus, Finish, auctionVars, outcomeVars
<1>2. ~Scored'
  BY <1>1 DEF ScoringInv, Scored
<1> QED
  BY <1>1, <1>2, BestAdWinsIs DEF ScoringInv

LEMMA ExecuteKeepsScoring ==
    ASSUME ScoringInv, Execute
    PROVE  ScoringInv'
<1>1. /\ stage = "execute" /\ stage' = "scoreAds" /\ batch' = NewBatch(Len(DispatchRequests))
      /\ UNCHANGED <<request, responses, response>>
  BY Zenon DEF Execute, rankVars, outcomeVars
<1>2. ~Scored'
  BY <1>1 DEF Scored
<1>3. Len(DispatchRequests) \in Nat
  PROOF OBVIOUS
<1>4. batch'.size \in Nat /\ batch'.response \in Answers(batch'.size)
  BY <1>1, <1>3 DEF NewBatch, Answers
<1> QED
  BY <1>1, <1>2, <1>4, BestAdWinsIs DEF ScoringInv

LEMMA BatchKeepsScoring ==
    ASSUME ScoringInv, Dispatch \/ Respond
    PROVE  ScoringInv'
<1>1. UNCHANGED <<deployment, request, stage, ads, responses, response>>
  BY Zenon DEF Dispatch, Respond, auctionVars, outcomeVars
<1>2. BestAdWins'
  BY <1>1, OutcomeStands DEF ScoringInv, Scored
<1>3. ASSUME stage = "scoreAds"
      PROVE  batch'.size \in Nat /\ batch'.response \in Answers(batch'.size)
  <2>1. batch.size \in Nat /\ batch.response \in Answers(batch.size)
    BY <1>3 DEF ScoringInv
  <2>2. CASE Dispatch
    <3>1. batch' = [batch EXCEPT !.sent = @ + 1]
      BY <2>2, Zenon DEF Dispatch, ExecuteOne
    <3> QED
      BY <2>1, <3>1
  <2>3. CASE Respond
    <3>1. PICK i \in 1..batch.size : \/ \E v \in Verdicts \cup {[ok |-> FALSE]} : StoreResponse(i, v)
                                     \/ CountResponse(i)
      BY <1>3, <2>3, Zenon DEF Respond
    <3>2. CASE \E v \in Verdicts \cup {[ok |-> FALSE]} : StoreResponse(i, v)
      <4>1. PICK v \in Verdicts \cup {[ok |-> FALSE]} :
               batch' = [batch EXCEPT !.response[i] = v, !.stored = @ \cup {i}]
        BY <3>2, Zenon DEF StoreResponse
      <4>2. batch'.size = batch.size /\ batch'.response = [batch.response EXCEPT ![i] = v]
        BY <4>1
      <4> QED
        BY <2>1, <4>2 DEF Answers
    <3>3. CASE CountResponse(i)
      <4>1. batch' = [batch EXCEPT !.counted = @ \cup {i}, !.finished_counter = @ + 1]
        BY <3>3, Zenon DEF CountResponse, CountedResponse
      <4>2. batch'.size = batch.size /\ batch'.response = batch.response
        BY <4>1
      <4> QED
        BY <2>1, <4>2
    <3> QED
      BY <3>1, <3>2, <3>3
  <2> QED
    BY <2>2, <2>3
<1> QED
  BY <1>1, <1>2, <1>3 DEF ScoringInv

LEMMA FailureKeepsScoring ==
    ASSUME ScoringInv, DispatchFails \/ CancelledCallback
    PROVE  ScoringInv'
<1>1. /\ stage \in {"scoreAds", "reporting", "reportResult", "reportWin"} /\ stage' = "done"
      /\ UNCHANGED <<deployment, request, ads, responses, response>>
  <2>1. CASE DispatchFails
    <3>1. stage \in Waiting /\ stage' = "done"
      BY <2>1, Zenon DEF DispatchFails, FinishWithStatus, EncryptAndFinishOK, Finish
    <3> QED
      BY <2>1, <3>1, Zenon DEF DispatchFails, Waiting, auctionVars, outcomeVars
  <2>2. CASE CancelledCallback
    <3>1. stage \in {"scoreAds", "reporting", "reportResult"} /\ stage' = "done"
      BY <2>2, Zenon DEF CancelledCallback, Answered, FinishWithStatus, Finish
    <3> QED
      BY <2>2, <3>1, Zenon DEF CancelledCallback, auctionVars, outcomeVars
  <2> QED
    BY <2>1, <2>2
<1>2. CASE stage = "scoreAds"
  <2>1. ~Scored'
    BY <1>1, <1>2 DEF ScoringInv, Scored
  <2> QED
    BY <1>1, <2>1, BestAdWinsIs DEF ScoringInv
<1>3. CASE stage # "scoreAds"
  <2>1. Scored
    BY <1>1, <1>3 DEF Scored
  <2>2. BestAdWins'
    BY <1>1, <2>1, OutcomeStands DEF ScoringInv
  <2> QED
    BY <1>1, <2>2 DEF ScoringInv
<1> QED
  BY <1>2, <1>3

\* What comes after the ranking tells of the outcome and does not change it.
LEMMA ReportKeepsScoring ==
    ASSUME ScoringInv,
           \/ DoWinAndDebugReporting \/ ReportingCallback \/ ReportResultCallback
           \/ ReportWinCallback
    PROVE  ScoringInv'
<1>1. /\ stage \in {"report", "reporting", "reportResult", "reportWin"}
      /\ stage' \notin {"execute", "scoreAds"}
      /\ UNCHANGED <<deployment, request, ads, responses>>
  <2>1. CASE DoWinAndDebugReporting
    BY <2>1, Zenon DEF DoWinAndDebugReporting, auctionVars, EncryptAndFinishOK,
                       FinishWithStatus, Finish
  <2>2. CASE ReportingCallback
    BY <2>2, Zenon DEF ReportingCallback, Answered, auctionVars, EncryptAndFinishOK, Finish
  <2>3. CASE ReportResultCallback
    BY <2>3, Zenon DEF ReportResultCallback, Answered, auctionVars, EncryptAndFinishOK, Finish
  <2>4. CASE ReportWinCallback
    BY <2>4, Zenon DEF ReportWinCallback, Answered, auctionVars, EncryptAndFinishOK, Finish
  <2> QED
    BY <2>1, <2>2, <2>3, <2>4
<1>2. /\ response'.winner = response.winner /\ response'.ghosts = response.ghosts
      /\ response'.others = response.others
  <2>1. CASE DoWinAndDebugReporting
    <3> DEFINE toldTo(d) ==
                 [response EXCEPT
                    !.debug = d.reports,
                    !.urls = IF IsTopLevel /\ ads[WinnerId] \in
                                    {r.winner : r \in ToSet(Components)}
                             THEN {"componentSeller", "buyer"} ELSE {},
                    !.reported = IF deployment.resultUrls THEN WinnerId ELSE 0]
    <3>1. PICK urls \in DebugOutcomes(WinnerId, responses) : response' = toldTo(urls)
      BY <2>1, Zenon DEF DoWinAndDebugReporting
    <3>2. \A x : /\ toldTo(x).winner = response.winner
                 /\ toldTo(x).ghosts = response.ghosts
                 /\ toldTo(x).others = response.others
      OBVIOUS
    <3> QED
      BY <3>1, <3>2, Zenon
  <2>2. CASE \E u : response' = [response EXCEPT !.urls = u]
    BY <2>2
  <2>3. CASE response' = response
    BY <2>3
  <2>4. CASE ReportingCallback
    <3>1. response' = response \/ \E u : response' = [response EXCEPT !.urls = u]
      BY <2>4, Zenon DEF ReportingCallback
    <3> QED
      BY <2>2, <2>3, <3>1
  <2>5. CASE ReportResultCallback
    <3>1. response' = response \/ \E u : response' = [response EXCEPT !.urls = u]
      BY <2>5, Zenon DEF ReportResultCallback
    <3> QED
      BY <2>2, <2>3, <3>1
  <2>6. CASE ReportWinCallback
    <3>1. response' = response \/ \E u : response' = [response EXCEPT !.urls = u]
      BY <2>6, Zenon DEF ReportWinCallback
    <3> QED
      BY <2>2, <2>3, <3>1
  <2> QED
    BY <2>1, <2>4, <2>5, <2>6
<1>3. BestAdWins'
  <2>1. Scored
    BY <1>1 DEF Scored
  <2> QED
    BY <1>1, <1>2, <2>1, OutcomeStands DEF ScoringInv
<1> QED
  BY <1>1, <1>3 DEF ScoringInv

\* The callback of the scoring batch.
LEMMA ScoreAdsKeepsScoring ==
    ASSUME ScoringInv, ScoreAdsCallback
    PROVE  ScoringInv'
<1> DEFINE rs == batch.response
           n == batch.size
           Won(s, g) == [k \in DOMAIN g |-> s[g[k]]]
<1>1. /\ stage = "scoreAds" /\ response = NoResponse /\ request \in Requests
      /\ n \in Nat /\ rs \in Answers(n)
      /\ UNCHANGED <<deployment, request, ads>> /\ responses' = rs
  <2>1. /\ stage = "scoreAds" /\ UNCHANGED <<deployment, request, ads>> /\ responses' = rs
    BY Zenon DEF ScoreAdsCallback, Answered
  <2> QED
    BY <2>1 DEF ScoringInv
<1>2. PICK s \in Rankings(rs) :
        \E w \in IF Candidates(s, rs).winners = <<>> THEN {0}
                 ELSE ToSet(Candidates(s, rs).winners),
           g \in GhostWinners(Candidates(s, rs)) :
             /\ winner_index' = w
             /\ \/ /\ w = 0
                   /\ \E debug \in DebugOutcomes(0, rs) :
                        /\ pings' = debug.pings
                        /\ response' = [response EXCEPT !.ghosts = Won(s, g),
                                                        !.debug = debug.reports]
                   /\ EncryptAndFinishOK
                \/ /\ w # 0 /\ ~rs[w].ok
                   /\ stage' = "aborted"
                   /\ UNCHANGED <<response, pings, finished>>
                \/ /\ w # 0 /\ rs[w].ok
                   /\ \E others \in OtherBids(s, rs, Candidates(s, rs), w) :
                        response' = [response EXCEPT !.ghosts = Won(s, g),
                                                     !.winner = s[w],
                                                     !.others = others,
                                                     !.seller = ComponentSeller(s[w])]
                   /\ stage' = "report"
                   /\ UNCHANGED <<pings, finished>>
  BY ZenonT(30) DEF ScoreAdsCallback
<1> DEFINE cs == Candidates(s, rs)
<1>3. PICK w \in IF cs.winners = <<>> THEN {0} ELSE ToSet(cs.winners),
           g \in GhostWinners(cs) :
             /\ winner_index' = w
             /\ \/ /\ w = 0
                   /\ \E debug \in DebugOutcomes(0, rs) :
                        /\ pings' = debug.pings
                        /\ response' = [response EXCEPT !.ghosts = Won(s, g),
                                                        !.debug = debug.reports]
                   /\ EncryptAndFinishOK
                \/ /\ w # 0 /\ ~rs[w].ok
                   /\ stage' = "aborted"
                   /\ UNCHANGED <<response, pings, finished>>
                \/ /\ w # 0 /\ rs[w].ok
                   /\ \E others \in OtherBids(s, rs, cs, w) :
                        response' = [response EXCEPT !.ghosts = Won(s, g),
                                                     !.winner = s[w],
                                                     !.others = others,
                                                     !.seller = ComponentSeller(s[w])]
                   /\ stage' = "report"
                   /\ UNCHANGED <<pings, finished>>
  BY <1>2, Zenon
<1> DEFINE won == Won(s, g)
<1>4. /\ cs.winners = <<>> => RightOutcome(rs, 0, ToSet(won), {})
      /\ \A k \in ToSet(cs.winners) :
           \A others \in OtherBids(s, rs, cs, k) :
              RightOutcome(rs, s[k], ToSet(won), others)
  <2> HIDE DEF rs, n
  <2>1. won = [k \in DOMAIN g |-> s[g[k]]]
    OBVIOUS
  <2> HIDE DEF won, Won
  <2> QED
    BY <1>1, <2>1, RankingIsRight
<1>5. \A k \in ToSet(cs.winners) : k # 0
  <2> HIDE DEF rs, n
  <2>1. cs \in GoodCands(s, rs, Len(s)) /\ Len(s) \in Nat
    BY <1>1, CandidatesAre, Ranked
  <2> HIDE DEF cs
  <2> QED
    BY <2>1 DEF GoodCands
<1>6. CASE w = 0
  <2>1. cs.winners = <<>>
    BY <1>3, <1>5, <1>6
  <2>2. RightOutcome(rs, 0, ToSet(won), {})
    BY <1>4, <2>1
  <2>3. PICK debug \in DebugOutcomes(0, rs) :
           response' = [response EXCEPT !.ghosts = won, !.debug = debug.reports]
    BY <1>3, <1>6, Zenon
  <2> HIDE DEF won, rs
  <2>4. response'.winner = 0 /\ response'.ghosts = won /\ response'.others = {}
    BY <1>1, <2>3 DEF NoResponse
  <2>5. RightOutcome(responses, response.winner, ToSet(response.ghosts), response.others)'
    BY <1>1, <2>2, <2>4, RightStands
  <2>6. stage' = "done"
    BY <1>3, <1>6, Zenon DEF EncryptAndFinishOK, Finish
  <2> QED
    BY <1>1, <2>5, <2>6, BestAdWinsIs DEF ScoringInv
<1>7. CASE w # 0 /\ stage' = "aborted"
  <2>1. ~Scored'
    BY <1>7 DEF Scored
  <2> QED
    BY <1>1, <1>7, <2>1, BestAdWinsIs DEF ScoringInv
<1>8. CASE w # 0 /\ stage' # "aborted"
  <2>1. w \in ToSet(cs.winners) /\ stage' = "report"
    BY <1>3, <1>8
  <2>2. PICK others \in OtherBids(s, rs, cs, w) :
           response' = [response EXCEPT !.ghosts = won, !.winner = s[w], !.others = others,
                                        !.seller = ComponentSeller(s[w])]
    BY <1>3, <1>8, Zenon
  <2>3. RightOutcome(rs, s[w], ToSet(won), others)
    BY <1>4, <2>1
  <2> HIDE DEF won, rs, cs
  <2>4. response'.winner = s[w] /\ response'.ghosts = won /\ response'.others = others
    BY <1>1, <2>2 DEF NoResponse
  <2>5. RightOutcome(responses, response.winner, ToSet(response.ghosts), response.others)'
    BY <1>1, <2>3, <2>4, RightStands
  <2> QED
    BY <1>1, <2>1, <2>5, BestAdWinsIs DEF ScoringInv
<1> QED
  BY <1>6, <1>7, <1>8

LEMMA ScoringKeeps ==
    ASSUME ScoringInv, Next
    PROVE  ScoringInv'
<1>1. CASE Cancel
  <2>1. UNCHANGED <<batch, deployment, request, stage, ads, responses, response>>
    BY <1>1, Zenon DEF Cancel, auctionVars, outcomeVars
  <2>2. BestAdWins'
    BY <2>1, OutcomeStands DEF ScoringInv, Scored
  <2> QED
    BY <2>1, <2>2 DEF ScoringInv
<1>2. CASE Step
  BY <1>2, RejectKeepsScoring, ExecuteKeepsScoring, BatchKeepsScoring, FailureKeepsScoring,
     ScoreAdsKeepsScoring, ReportKeepsScoring, Zenon DEF Step
<1> QED
  BY <1>1, <1>2 DEF Next

LEMMA AuctionsKeepScoring ==
    ASSUME ScoringInv, [AuctionsNext]_allVars
    PROVE  ScoringInv'
<1>1. CASE Next
  BY <1>1, ScoringKeeps
<1>2. CASE UNCHANGED vars
  <2>1. UNCHANGED <<batch, deployment, request, stage, ads, responses, response>>
    BY <1>2, Zenon DEF vars, auctionVars, outcomeVars
  <2>2. BestAdWins'
    BY <2>1, OutcomeStands DEF ScoringInv, Scored
  <2> QED
    BY <2>1, <2>2 DEF ScoringInv
<1> QED
  BY <1>1, <1>2, Zenon DEF AuctionsNext, allVars

-----------------------------------------------------------------------------
(* The theorems.                                                             *)

\* Whatever the ad server gives, what is taken is of this request, an RPC is
\* finished once at most, and the answers are as they should be.
THEOREM InductiveInvariant == AuctionsSpec => []IInv
<1>1. AuctionsInit => IInv
  BY StartsIn
<1>2. IInv /\ [AuctionsNext]_allVars => IInv'
  BY NextKeeps
<1> QED
  BY <1>1, <1>2, PTL DEF AuctionsSpec

\* What the auction service scores for a seller was made for this request, and is
\* the only result of its seller (DecryptAndValidateComponentAuctionResults).
THEOREM ResultsAreScoredOnce == AuctionsSpec => []ScoredOnceAndForThis
<1>1. IInv => ScoredOnceAndForThis
  BY ScoredOnce DEF IInv, ScoredOnceAndForThis
<1> QED
  BY <1>1, InductiveInvariant, PTL

\* If each component seller gives one result and nothing fails, the device gets the
\* winner of one of them, ghosts, or chaff (Execute, OnScoreAdsDone).
THEOREM ProperAuctionsAreAnswered == AuctionsSpec => []ProperAuctionIsAnswered
<1>1. IInv => ProperAuctionIsAnswered
  BY DEF IInv, ProperAuctionIsAnswered
<1> QED
  BY <1>1, InductiveInvariant, PTL

\* The device is told of the interest groups that got a bid in a component auction
\* that took part, of no others, and of the updates of an owner from one seller
\* (GetBuyerIgsWithBidsMap, component_auction_update_groups_).
THEOREM BrowsersLearnOfEveryBidder == AuctionsSpec => []GroupsOfEveryBidder
<1>1. IInv => GroupsOfEveryBidder
  BY DEF IInv, GroupsOfEveryBidder
<1> QED
  BY <1>1, InductiveInvariant, PTL

\* The best k-anonymous ad that was scored, kept and of a positive score wins, ghost
\* winners are as good as the best ad and no more than allowed, and the other bids that
\* are told are of neither and the highest of the rest (FindWinningAd,
\* ChooseWinnerAndGhostWinners, PopulateHighestScoringOtherBidsData).
THEOREM TheBestAdWins == AuctionsSpec => []BestAdWins
<1>1. AuctionsInit => ScoringInv
  BY ScoringStarts DEF AuctionsInit
<1>2. ScoringInv /\ [AuctionsNext]_allVars => ScoringInv'
  BY AuctionsKeepScoring
<1>3. ScoringInv => BestAdWins
  BY DEF ScoringInv
<1> QED
  BY <1>1, <1>2, <1>3, PTL DEF AuctionsSpec
=============================================================================
