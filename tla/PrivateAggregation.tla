------------------------- MODULE PrivateAggregation -------------------------
(* The contributions to private aggregation of one single-seller auction:    *)
(* what generateBid() and scoreAd() ask for is filtered in the bidding       *)
(* service, in the auction service and, once the outcome is known, in the    *)
(* seller front end, and encoded for the client                              *)
(* (src/services/seller_frontend_service/private_aggregation, k_anon).       *)
(* Scripts decide what they ask for; what is modelled of a value is whether  *)
(* it can be computed.                                                       *)
EXTENDS Naturals, FiniteSets, Sequences, SequencesExt

CONSTANTS
    Workloads,   \* sequences of bids, see IsBid
    Scripts,     \* what scoreAd() contributes for a bid, see IsContribution
    Limit        \* per_adtech_paapi_contributions_limit

Reserved == {"win", "loss", "always"}
Custom == {"click"}
Events == Reserved \cup Custom \cup {"unspecified"}

\* What a value or bucket is computed from: nothing, the reason of a rejection, or a
\* bid from which a negative offset takes something; or there is no bucket.
Bases == {"constant", "reason", "bid", "noBucket"}

\* by: the bid and its place there; the seller's are those of place 0 and below.
IsContribution(c) == c.event \in Events /\ c.base \in Bases

IsBid(b) ==
    /\ b.indexed \in BOOLEAN   \* in interest_group_index_map_
    /\ \A k \in DOMAIN b.contributions : IsContribution(b.contributions[k])

PrivateAggregationAssumption ==
    /\ \A w \in Workloads : \A i \in DOMAIN w : IsBid(w[i])
    /\ \A s \in Scripts : \A k \in DOMAIN s : IsContribution(s[k])
    /\ Limit \in Nat

VARIABLES
    made,     \* the bids as generateBid() returned them
    adBids,   \* shared_buyer_bids_map_ of the front end
    scripted, \* for each bid what scoreAd() contributed
    highScore,\* the winner, 0 if there is none, and who was rejected
    ghosts,   \* ghost_winning_ad_scores
    topLevel, \* top_level_contributions of the winner
    signals,  \* ghost_winner_private_aggregation_signals, for each ghost winner
    encoded,  \* paggResponse
    decoded,  \* what the client reads of it
    step

vars == <<made, adBids, scripted, highScore, ghosts, topLevel, signals, encoded,
          decoded, step>>

Steps == {"generate", "score", "ghosts", "winner", "encode", "decode", "done"}

Seller == "seller"

\* Everybody knows his contributions again by their names.
Named(i, cs, who) == [k \in DOMAIN cs |-> [name |-> <<who, i, k>>, event |-> cs[k].event,
                                          base |-> cs[k].base]]

Generated(w) == [i \in DOMAIN w |-> [w[i] EXCEPT !.contributions = Named(i, @, w[i].owner)]]

Init ==
    /\ \E w \in Workloads : made = Generated(w)
    /\ adBids = made
    /\ scripted = <<>> /\ highScore = [winner |-> 0, rejected |-> {}]
    /\ ghosts = <<>> /\ topLevel = <<>> /\ signals = <<>>
    /\ encoded = <<>> /\ decoded = <<>>
    /\ step = "generate"

Bids == DOMAIN adBids
SameIg(i, j) == adBids[i].owner = adBids[j].owner /\ adBids[i].ig = adBids[j].ig

-----------------------------------------------------------------------------
(* Filters.                                                                  *)

WithinLimit(cs, k) ==
    cs[k].event # "unspecified"
    /\ Cardinality({j \in 1..(k - 1) : cs[j].event = cs[k].event}) < Limit

\* Of each event the first ones; all custom events are one event.
ProcessPAggContributions(cs) ==
    LET kind == [k \in DOMAIN cs |->
                     [event |-> IF cs[k].event \in Custom THEN "custom" ELSE cs[k].event]]
        kept == SetToSortSeq({k \in DOMAIN cs : WithinLimit(kind, k)}, <)
    IN [n \in DOMAIN kept |-> cs[kept[n]]]

Of(cs, events) == SelectSeq(cs, LAMBDA c : c.event \in events)

FilterWinContributions(cs) == Of(cs, {"win", "always"} \cup Custom)
FilterLossContributions(cs) == Of(cs, {"loss", "always"})

\* GetPrivateAggregationValuePostAuction and ...BucketPostAuction: there must be a
\* bucket, the reason be known, and the result not be negative.
Computable(c, baseValues) ==
    CASE c.base = "reason" -> baseValues.rejectReason
      [] c.base = "bid" -> baseValues.bids
      [] OTHER -> c.base = "constant"

\* The event is cleared: what is reported is said to be of no event.
GetProcessedAndFilteredContributions(cs, baseValues, igIdx) ==
    LET valid == SelectSeq(cs, LAMBDA c : Computable(c, baseValues))
    IN [k \in DOMAIN valid |-> [name |-> valid[k].name, event |-> "unspecified",
                                base |-> "constant", ig |-> igIdx]]

\* What is processed is moved out of the bid, and leaves no event behind.
Unprocessed(cs, baseValues) == SelectSeq(cs, LAMBDA c : ~Computable(c, baseValues))

NoIg == "none"
Response(origin, cs) == [origin |-> origin, contributions |-> cs]

-----------------------------------------------------------------------------
(* The bidding service and the auction service.                              *)

GenerateBids ==
    /\ step = "generate" /\ step' = "score"
    /\ adBids' = [i \in Bids |->
                    [made[i] EXCEPT !.contributions = ProcessPAggContributions(@)]]
    /\ UNCHANGED <<made, scripted, highScore, ghosts, topLevel, signals, encoded, decoded>>

\* ParseAndProcessContribution computes the same, but goes on without a bucket.
Parsed(cs, baseValues) ==
    LET valid == SelectSeq(cs, LAMBDA c : c.base = "noBucket" \/ Computable(c, baseValues))
    IN [k \in DOMAIN valid |->
          [name |-> valid[k].name, ig |-> NoIg,
           event |-> IF valid[k].event \in Custom THEN valid[k].event ELSE "unspecified",
           base |-> IF valid[k].base = "noBucket" THEN "noBucket" ELSE "constant"]]

IsMostDesirable(i, winner) == i = winner

HandlePrivateAggregationReporting(i, winner, cs, baseValues) ==
    LET part(event) == Parsed(Of(cs, event), baseValues)
    IN IF IsMostDesirable(i, winner)
       THEN part({"win"}) \o part({"always"}) \o part(Custom)
       ELSE part({"loss"}) \o part({"always"})

\* PerformPrivateAggregationReporting: a ghost winner contributes nothing, unless a bid
\* of its owner was rejected; of each owner one ghost winner is known.
GhostInterestGroup(i, gs, rejected) ==
    /\ \A j \in rejected : adBids[j].owner # adBids[i].owner
    /\ LET own == SelectSeq(gs, LAMBDA g : adBids[g].owner = adBids[i].owner)
       IN own # <<>> /\ SameIg(own[1], i)

Rejected(i, rejected) == \E j \in rejected : SameIg(i, j)

SellersContributions(winner, gs, rejected, scripts) ==
    LET reporting == SetToSortSeq({i \in Bids : ~GhostInterestGroup(i, gs, rejected)}, <)
    IN [n \in DOMAIN reporting |->
          LET i == reporting[n]
          IN Response(Seller,
                HandlePrivateAggregationReporting(i, winner, scripts[i],
                    [bids |-> TRUE, rejectReason |-> Rejected(i, rejected)]))]

\* Without a winner the reactor ends before it reports anything.
ScoreAds ==
    /\ step = "score" /\ step' = "ghosts"
    /\ \E winner \in Bids \cup {0}, rejected \in SUBSET Bids,
          gs \in {<<>>} \cup {<<g>> : g \in Bids} \cup {<<g, h>> : g, h \in Bids},
          s \in [Bids -> Scripts] :
         /\ {winner} \cap rejected = {} /\ ToSet(gs) \cap (rejected \cup {winner}) = {}
         /\ IsInjective(gs)
         /\ highScore' = [winner |-> winner, rejected |-> rejected]
         /\ scripted' = [i \in Bids |-> Named(i, s[i], Seller)]
         /\ topLevel' = IF winner = 0 THEN <<>>
                        ELSE SellersContributions(winner, gs, rejected, scripted')
         /\ ghosts' = [n \in DOMAIN gs |-> [bid |-> gs[n], contributions |-> <<>>]]
    /\ UNCHANGED <<made, adBids, signals, encoded, decoded>>

-----------------------------------------------------------------------------
(* The seller front end, once the auction is over.                           *)

Ig(i) == <<adBids[i].owner, adBids[i].ig>>

\* The bids are not initialized, so that anything may come of them; the reason is that
\* the ad was not k-anonymous.
GhostValues == [bids : BOOLEAN, rejectReason : {TRUE}]

\* HandlePrivateAggregationContributionsForGhostWinner: the first bid of the ghost
\* winner's interest group that has something to report is the one that does; the
\* contributions of those looked at are filtered in place.
GhostWinnersContributions(acc, ghost, values) ==
    LET lookedAt == {i \in Bids : SameIg(i, ghost.bid) /\ adBids[i].indexed
                                  /\ acc.bids[i].contributions # <<>>}
        losing(i) == FilterLossContributions(acc.bids[i].contributions)
        processed(i) == GetProcessedAndFilteredContributions(losing(i), values, Ig(i))
        reporting == {i \in lookedAt : processed(i) # <<>>}
        First(i) == i \in reporting /\ \A j \in reporting : i <= j
        filtered == {i \in lookedAt : \A j \in reporting : First(j) => i <= j}
    IN [bids |-> [i \in Bids |->
            IF i \in filtered
            THEN [acc.bids[i] EXCEPT !.contributions = Unprocessed(losing(i), values)]
            ELSE acc.bids[i]],
        ghosts |-> Append(acc.ghosts,
            [ghost EXCEPT !.contributions =
                 IF reporting = {} THEN <<>> ELSE processed(CHOOSE i \in Bids : First(i))])]

HandleGhostWinners ==
    /\ step = "ghosts" /\ step' = "winner"
    /\ \E values \in GhostValues :
         LET Handle(acc, ghost) == GhostWinnersContributions(acc, ghost, values)
             done == FoldLeft(Handle, [bids |-> adBids, ghosts |-> <<>>], ghosts)
         IN adBids' = done.bids /\ ghosts' = done.ghosts
    /\ UNCHANGED <<made, scripted, highScore, topLevel, signals, encoded, decoded>>

\* A bug: what is left of a bid is told by whether it is the winning bid's.
IsWinningBid(i) == i = highScore.winner

\* All bids of the winner's interest group count as having won.
IsWinnersIg(i) == SameIg(i, highScore.winner)

\* What HandlePrivateAggregationContributions reports for bid i.
BidsContributions(i) ==
    IF ~adBids[i].indexed THEN <<>>
    ELSE IF IsWinnersIg(i)
    THEN GetProcessedAndFilteredContributions(
             FilterWinContributions(adBids[i].contributions),
             [bids |-> TRUE, rejectReason |-> FALSE], Ig(i))
    ELSE GetProcessedAndFilteredContributions(
             FilterLossContributions(adBids[i].contributions),
             [bids |-> TRUE, rejectReason |-> Rejected(i, highScore.rejected)], Ig(i))

OwnersContributions(owner) ==
    FlattenSeq([i \in Bids |-> IF adBids[i].owner = owner THEN BidsContributions(i)
                               ELSE <<>>])

HandlePrivateAggregationContributions ==
    /\ step = "winner" /\ step' = "encode"
    /\ LET owners == SetToSeq({b.owner : b \in ToSet(adBids)})
           responses == [n \in DOMAIN owners |->
                            Response(owners[n], OwnersContributions(owners[n]))]
       IN topLevel' = IF highScore.winner = 0 THEN <<>>
                      ELSE topLevel \o SelectSeq(responses, LAMBDA r : r.contributions # <<>>)
    /\ UNCHANGED <<made, adBids, scripted, highScore, ghosts, signals, encoded, decoded>>

-----------------------------------------------------------------------------
(* What is sent to the client.                                               *)

GroupContributionsByAdTech(responses, origin) ==
    LET all == FlattenSeq([n \in DOMAIN responses |->
                   IF responses[n].origin = origin THEN responses[n].contributions ELSE <<>>])
    IN SubSeq(all, 1, IF Len(all) < Limit THEN Len(all) ELSE Limit)

\* Names of reserved events are not written; no event is written as an empty name.
WrittenEvent(c) == IF c.event \in Custom THEN c.event ELSE "unspecified"

\* By interest group, then by event; a contribution without a bucket is dropped.
CborSerializeIgContributions(cs) ==
    [ig \in {c.ig : c \in ToSet(cs)} |->
        [event \in {WrittenEvent(c) : c \in {x \in ToSet(cs) : x.ig = ig}} |->
            LET group == SelectSeq(cs, LAMBDA c : /\ c.ig = ig /\ WrittenEvent(c) = event
                                                  /\ c.base # "noBucket")
            IN [k \in DOMAIN group |-> group[k].name]]]

CborSerializePAggResponse(responses) ==
    [origin \in {r.origin : r \in ToSet(responses)} |->
        CborSerializeIgContributions(GroupContributionsByAdTech(responses, origin))]

\* Only contributions to the event of losing are put into the signals.
PopulateGhostWinnerPrivateAggregationSignals(ghost) == Of(ghost.contributions, {"loss"})

GetNonEncryptedResponse ==
    /\ step = "encode" /\ step' = "decode"
    /\ signals' = [n \in DOMAIN ghosts |->
                      PopulateGhostWinnerPrivateAggregationSignals(ghosts[n])]
    /\ encoded' = CborSerializePAggResponse(topLevel)
    /\ UNCHANGED <<made, adBids, scripted, highScore, ghosts, topLevel, decoded>>

\* The names are told apart; an interest group without an index has none again.
CborDecodePAggIgContributions(igs) ==
    LET groups == SetToSeq(UNION {{<<ig, event>> : event \in DOMAIN igs[ig]} :
                                     ig \in DOMAIN igs})
    IN FlattenSeq([n \in DOMAIN groups |->
          LET ig == groups[n][1]
              names == igs[ig][groups[n][2]]
          IN [k \in DOMAIN names |-> [name |-> names[k], ig |-> ig,
                                      event |-> groups[n][2]]]])

CborDecodePAggResponse ==
    /\ step = "decode" /\ step' = "done"
    /\ decoded' = [origin \in DOMAIN encoded |->
                      CborDecodePAggIgContributions(encoded[origin])]
    /\ UNCHANGED <<made, adBids, scripted, highScore, ghosts, topLevel, signals, encoded>>

Next ==
    \/ GenerateBids \/ ScoreAds \/ HandleGhostWinners
    \/ HandlePrivateAggregationContributions
    \/ GetNonEncryptedResponse \/ CborDecodePAggResponse

Spec == Init /\ [][Next]_vars

-----------------------------------------------------------------------------
(* Properties.                                                               *)

\* The winner is none of the ghost winners, and a bid keeps a part of what was asked
\* for it.
TypeOK ==
    /\ step \in Steps /\ DOMAIN made = Bids
    /\ highScore.winner \in Bids \cup {0} /\ highScore.rejected \subseteq Bids
    /\ \A n \in DOMAIN ghosts : ghosts[n].bid \in Bids \ {highScore.winner}
    /\ \A i \in Bids : ToSet(adBids[i].contributions) \subseteq ToSet(made[i].contributions)

\* Of a contribution, by its name: who asked for it, for which bid, on which event.
By(name) == name[1]
BidOf(name) == name[2]
EventOf(name) == IF By(name) = Seller THEN scripted[name[2]][name[3]].event
                 ELSE made[name[2]].contributions[name[3]].event

\* A seller's script is told of bids, a buyer is told of interest groups.
HasWon(name) ==
    highScore.winner # 0 /\ IF By(name) = Seller THEN BidOf(name) = highScore.winner
                            ELSE SameIg(BidOf(name), highScore.winner)

HasHappened(name) ==
    \/ EventOf(name) = "always"
    \/ EventOf(name) = "loss" /\ ~HasWon(name)
    \/ EventOf(name) \in {"win"} \cup Custom /\ HasWon(name)

Signalled == FlattenSeq([n \in DOMAIN signals |->
                 [k \in DOMAIN signals[n] |-> signals[n][k].name]])
Reported(origin) == [k \in DOMAIN decoded[origin] |-> decoded[origin][k].name]

\* What a buyer may expect to be reported: within the limit of its event, with a value
\* that can be computed, of an interest group that has an index and no ghost winner
\* (whose contributions are signalled instead).
IsDue(name) ==
    LET i == BidOf(name)
        c == made[i].contributions[name[3]]
        Kind(e) == IF e \in Custom THEN Custom ELSE {e}
    IN /\ c.event # "unspecified" /\ HasHappened(name) /\ adBids[i].indexed
       /\ Cardinality({k \in 1..(name[3] - 1) :
              made[i].contributions[k].event \in Kind(c.event)}) < Limit
       /\ \/ c.base \in {"constant", "bid"}
          \/ c.base = "reason" /\ Rejected(i, highScore.rejected) /\ ~HasWon(name)
       /\ \A n \in DOMAIN ghosts : ~SameIg(i, ghosts[n].bid)

\* A client that decodes the response contributes what happened and nothing else: each
\* contribution is its ad tech's, on an event that has happened to its bid, under its
\* interest group, and there once, even where it is a ghost winner's; an ad tech has no
\* more than its limit, and less only if nothing that is due to it is missing.
ContributionsFollowTheAuction ==
    step = "done" =>
      /\ \A origin \in DOMAIN decoded :
           /\ Len(decoded[origin]) <= Limit
           /\ \A k \in DOMAIN decoded[origin] :
                LET c == decoded[origin][k]
                IN /\ By(c.name) = origin /\ HasHappened(c.name)
                   /\ c.ig = IF origin = Seller THEN NoIg ELSE Ig(BidOf(c.name))
           /\ IsInjective(Reported(origin) \o Signalled)
      /\ highScore.winner # 0 =>
           \A i \in Bids : \A k \in DOMAIN made[i].contributions :
             LET owner == made[i].owner
             IN IsDue(<<owner, i, k>>) =>
                  /\ owner \in DOMAIN decoded
                  /\ Len(decoded[owner]) < Limit
                         => <<owner, i, k>> \in ToSet(Reported(owner))

\* "Private aggregation signals for the ghost winner. Single seller auctions: This would
\* correspond to a ghost winner if available." (api/bidding_auction_servers.proto:612):
\* what the front end has processed for a ghost winner is signalled to the client.
GhostWinnersSignalTheirLoss ==
    step \in {"decode", "done"} =>
        \A n \in DOMAIN ghosts : ghosts[n].contributions # <<>> => signals[n] # <<>>
=============================================================================
