------------------------------ MODULE ScoreAds ------------------------------
(* A ScoreAds request of the auction service: ScoreAdsReactor                *)
(* (src/services/auction_service/score_ads_reactor.cc) over the dispatcher   *)
(* of ad tech code. The ads of the request are scored by one run of scoreAd  *)
(* each, ranked, and the winner and ghost winners go into the response with  *)
(* debug reports, contributions to private aggregation and reporting URLs,   *)
(* for which reportResult and reportWin are run.                             *)
(*                                                                           *)
(* A response of scoreAd is abstracted to a verdict. Scores are in halves:   *)
(* the code compares them as floats in some places, as ints in others.       *)
EXTENDS V8Dispatcher, SequencesExt, FiniteSetsExt

CONSTANTS
    Bids,         \* the bids there are, as a function to their attributes
    Deployments,  \* settings of a server, as records
    Requests,     \* requests, as records
    Verdicts,     \* what a run of scoreAd may end with
    none

ASSUME ScoreAdsAssumption ==
    /\ \A b \in DOMAIN Bids :
         Bids[b].type \in {"PA", "PAS"} /\ Bids[b].bid \in Nat /\ Bids[b].kAnon \in BOOLEAN
    /\ \A a, b \in DOMAIN Bids :
         Bids[a].render = Bids[b].render => Bids[a].type = Bids[b].type
    \* GetAuctionScope: without results an auction is not a top-level one
    /\ \A r \in Requests : r.scope = "topLevel" <=> r.results # <<>>
    /\ \A r \in Requests : r.maxGhosts \in Nat
    /\ \A v \in Verdicts : v.d \in Int /\ v.urls \subseteq {"win", "loss"}

VARIABLES
    deployment,
    request,
    stage,        \* what the reactor waits for, or does next
    ads,          \* dispatch_requests: the bids scored, in the order of the batch
    responses,    \* what ScoreAdsCallback was called with
    ranked,       \* parsed_responses: indices into ads, best first once ranked
    cands,        \* winner_cand_indices and ghost_winner_cand_indices, into ranked
    winner_index, \* of scoring_data, into ranked, or 0
    rejected,     \* ad_rejection_reasons: indices into ads
    response,     \* raw_response_
    contributions,\* top_level_contributions of raw_response_: which ad, which event
    pings,        \* debug URLs sent from here
    cancelled,    \* the client has cancelled
    finished      \* the statuses Finish was called with

auctionVars == <<ads, responses, ranked, cands, winner_index, rejected>>
rankVars == <<responses, ranked, cands, winner_index, rejected>>
outcomeVars == <<response, contributions, pings>>
vars == <<batch, deployment, request, stage, auctionVars, outcomeVars,
          cancelled, finished>>

Stages == {"execute", "scoreAds", "report", "reporting", "reportResult",
           "reportWin", "done", "aborted"}
Statuses == {"OK", "CANCELLED", "INTERNAL", "INVALID_ARGUMENT", "UNKNOWN",
             "encryption failed"}

IsTopLevel == request.scope = "topLevel"
IsComponentAuction == request.scope \in {"deviceComponent", "serverComponent"}

TypeOK ==
    /\ BatchOK
    /\ deployment \in Deployments /\ request \in Requests
    /\ stage \in Stages /\ cancelled \in BOOLEAN
    /\ ads \in Seq(DOMAIN Bids) /\ IsInjective([i \in DOMAIN ads |-> Bids[ads[i]].render])
    /\ ToSet(ranked) \cup rejected \subseteq DOMAIN ads /\ IsInjective(ranked)
    /\ ToSet(cands.winners) \cup ToSet(cands.ghosts) \subseteq DOMAIN ranked
    /\ winner_index \in {0} \cup ToSet(cands.winners)
    /\ ToSet(response.ghosts) \subseteq DOMAIN ads
    /\ finished \in Seq(Statuses)

NoResponse == [winner |-> 0, ghosts |-> <<>>, others |-> {}, seller |-> none,
               reported |-> 0, urls |-> {}, debug |-> <<>>]

Init ==
    /\ batch = NoBatch
    /\ deployment \in Deployments /\ request \in Requests
    /\ stage = "execute"
    /\ ads = <<>> /\ responses = <<>> /\ ranked = <<>> /\ cands = [winners |-> <<>>, ghosts |-> <<>>]
    /\ winner_index = 0 /\ rejected = {}
    /\ response = NoResponse /\ contributions = {} /\ pings = {}
    /\ cancelled = FALSE /\ finished = <<>>

\* A loop over seq, as the function of what it has made after so many turns. (The
\* choice of one is for TLC, which then evaluates the turn before it once.)
Fold(op(_, _), base, seq) ==
    LET after[n \in 0..Len(seq)] ==
            IF n = 0 THEN base
            ELSE CHOOSE new \in {op(acc, seq[n]) : acc \in {after[n - 1]}} : TRUE
    IN after[Len(seq)]

(***************************************************************************)
(* The end of a request                                                    *)
(***************************************************************************)
Cancelled == deployment.cancellation /\ cancelled

Finish(statuses) == stage' = "done" /\ finished' = finished \o statuses

FinishWithStatus(status) == Finish(<<status>>)

\* EncryptAndFinishOK. EncryptResponse finishes the RPC when encryption fails, and
\* its result is not looked at.
EncryptAndFinishOK == Finish(<<"OK">>) \/ Finish(<<"encryption failed", "OK">>)

(***************************************************************************)
(* Execute: which ads are scored                                           *)
(***************************************************************************)
\* An ad without signals is passed over if signals are required.
HasSignals(b) == deployment.requireSignals => Bids[b].render \in request.signals

\* Requests are named by render URL: a second ad of the same URL is not scored.
\* (Interest groups and app signals are taken to have different ads.)
AddAnyRequest(bs, b) == Append(bs, b)
AddRequest(bs, b) ==
    IF \E a \in ToSet(bs) : Bids[a].render = Bids[b].render THEN bs ELSE Append(bs, b)

\* The two lists of ads, each from its end.
PopulateDispatchRequests ==
    LET pas == IF deployment.pas THEN request.pas ELSE <<>>
    IN Fold(AddRequest, <<>>,
                SelectSeq(Reverse(request.ads) \o Reverse(pas), HasSignals))

\* The component auctions of a top-level auction, but for chaff and errors: the
\* winner and, if k-anonymity is enforced, the ghost winners.
ComponentsIn(results) == SelectSeq(results, LAMBDA r : ~r.chaff /\ r.seller # none)
Components == ComponentsIn(request.results)

SameGeneration == Cardinality({r.generation : r \in ToSet(Components)}) <= 1

PopulateTopLevelAuctionDispatchRequests ==
    Fold(LAMBDA bs, r :
                 Fold(AddRequest, bs,
                          (IF r.winner = none THEN <<>> ELSE <<r.winner>>)
                          \o (IF deployment.kAnon THEN r.ghosts ELSE <<>>)),
             <<>>, Components)

DispatchRequests ==
    IF IsTopLevel THEN PopulateTopLevelAuctionDispatchRequests
    ELSE PopulateDispatchRequests

\* The status of a request that is not dispatched, or OK.
Rejection ==
    CASE Cancelled -> "CANCELLED"
      [] ~Cancelled /\ IsTopLevel /\ ~SameGeneration -> "INVALID_ARGUMENT"
      [] ~Cancelled /\ ~IsTopLevel /\ deployment.requireSignals
            /\ request.signals = {} -> "INVALID_ARGUMENT"
      [] OTHER -> IF DispatchRequests = <<>> THEN "INTERNAL" ELSE "OK"

RejectRequest ==
    /\ stage = "execute" /\ Rejection # "OK"
    /\ FinishWithStatus(Rejection)
    /\ UNCHANGED <<batch, deployment, request, auctionVars, outcomeVars, cancelled>>

Execute ==
    /\ stage = "execute" /\ Rejection = "OK"
    /\ ads' = DispatchRequests
    /\ batch' = NewBatch(Len(DispatchRequests))
    /\ stage' = "scoreAds"
    /\ UNCHANGED <<deployment, request, rankVars, outcomeVars, cancelled, finished>>

(***************************************************************************)
(* The batches                                                             *)
(***************************************************************************)
Waiting == {"scoreAds", "reporting", "reportResult", "reportWin"}

Dispatch ==
    /\ stage \in Waiting /\ ExecuteOne
    /\ UNCHANGED <<deployment, request, stage, auctionVars, outcomeVars,
                   cancelled, finished>>

\* BatchExecute fails: a request that was not scored fails, one that was is sent.
DispatchFails ==
    /\ stage \in Waiting /\ FirstRefused
    /\ IF stage = "scoreAds" THEN FinishWithStatus("UNKNOWN") ELSE EncryptAndFinishOK
    /\ batch' = NoBatch
    /\ UNCHANGED <<deployment, request, auctionVars, outcomeVars, cancelled>>

Respond ==
    /\ stage \in Waiting
    /\ \E i \in 1..batch.size :
         \/ \E v \in IF stage = "scoreAds" THEN Verdicts ELSE {[ok |-> TRUE], [ok |-> FALSE]} :
              StoreResponse(i, v)
         \/ CountResponse(i)
    /\ UNCHANGED <<deployment, request, stage, auctionVars, outcomeVars,
                   cancelled, finished>>

\* The callback of a batch is called by the thread of its last response.
Answered(s) == /\ stage = s
               /\ \E i \in 1..batch.size : CanCount(i) /\ IsLast(i)

\* CancellationWrapper.
CancelledCallback ==
    /\ Answered("scoreAds") \/ Answered("reporting") \/ Answered("reportResult")
    /\ Cancelled
    /\ FinishWithStatus("CANCELLED") /\ batch' = NoBatch
    /\ UNCHANGED <<deployment, request, auctionVars, outcomeVars, cancelled>>
(***************************************************************************)
(* FindWinningAd. An ad is named by its index in the batch.                *)
(***************************************************************************)
Valid(rs) == {i \in DOMAIN rs : rs[i].ok /\ rs[i].parsed}

Ad(i) == Bids[ads[i]]

\* The winner of a component auction counts as k-anonymous, its ghosts do not.
KAnonymous(i) ==
    \/ ~deployment.kAnon
    \/ IF IsTopLevel THEN ads[i] \in {r.winner : r \in ToSet(Components)}
       ELSE Ad(i).kAnon

\* GetAdRejectionReason: a reason other than the default one.
Rejected(v) == v.invalid \/ (v.d > 0 /\ v.seller)
Dropped(v) == Rejected(v) \/ (request.scope = "deviceComponent" /\ ~v.allow)

Swapped(s, j, k) == [s EXCEPT ![j] = s[k], ![k] = s[j]]

\* One turn of the loop that moves dropped ads to the end. The ad that comes from
\* there is looked at next.
ExamineNext(acc, rs) ==
    IF acc.index > acc.end THEN acc
    ELSE IF Dropped(rs[acc.ads[acc.index]])
         THEN [acc EXCEPT !.end = @ - 1, !.index = @ + 1,
                          !.ads = Swapped(@, acc.index, acc.end)]
         ELSE [acc EXCEPT !.index = @ + 1]
Examine(acc, rs) ==
    IF acc.index > acc.end THEN acc
    ELSE IF Dropped(rs[acc.ads[acc.index]])
         THEN [acc EXCEPT !.end = @ - 1,
                          !.ads = Swapped(@, acc.index, acc.end)]
         ELSE [acc EXCEPT !.index = @ + 1]

\* CollectValidRomaResponses.
ParsedAds(rs) ==
    Fold(LAMBDA parsed, i : IF i \in Valid(rs) THEN Append(parsed, i) ELSE parsed,
         <<>>, [i \in DOMAIN rs |-> i])

Kept(rs) ==
    LET parsed == ParsedAds(rs)
        last == Fold(LAMBDA acc, i : Examine(acc, rs),
                         [ads |-> parsed, index |-> 1, end |-> Len(parsed)], parsed)
    IN SubSeq(last.ads, 1, last.end)

\* ScoredAdData::operator>.
Outranks(i, j, rs) ==
    \/ rs[i].d > rs[j].d
    \/ rs[i].d = rs[j].d /\ Ad(i).bid > Ad(j).bid
    \/ rs[i].d = rs[j].d /\ Ad(i).bid = Ad(j).bid /\ KAnonymous(i) /\ ~KAnonymous(j)

\* The orders std::sort may leave.
Rankings(rs) ==
    {s \in SetToSeqs(ToSet(Kept(rs))) :
       \A j, k \in DOMAIN s : j < k => ~Outranks(s[k], s[j], rs)}

\* A float passed as an int.
AsInt(d) == IF d >= 0 THEN 2 * (d \div 2) ELSE -2 * ((-d) \div 2)

AddIfCandsEmptyOrHasEqLastDesirability(k, s, rs, cs) ==
    IF cs = <<>> \/ rs[s[Last(cs)]].d = AsInt(rs[s[k]].d) THEN Append(cs, k) ELSE cs

\* One turn of the loop over the ads in order s...
Consider(acc, k, s, rs) ==
    IF rs[s[k]].d <= 0 THEN acc
    ELSE IF KAnonymous(s[k])
    THEN [acc EXCEPT !.winners = AddIfCandsEmptyOrHasEqLastDesirability(k, s, rs, @)]
    ELSE IF acc.winners = <<>>
    THEN [acc EXCEPT !.ghosts = AddIfCandsEmptyOrHasEqLastDesirability(k, s, rs, @)]
    ELSE acc

\* ...and the candidates among them.
Candidates(s, rs) ==
    Fold(LAMBDA acc, k : Consider(acc, k, s, rs),
         [winners |-> <<>>, ghosts |-> <<>>], [k \in DOMAIN s |-> k])

\* PopulateHighestScoringOtherBidsData: the ads of the two highest scores, which
\* are sorted as ints, up to a score of zero. Ghost winner candidates are not
\* considered.
OtherBids(s, rs, cs, w) ==
    LET considered == DOMAIN s \ ToSet(cs.ghosts)
        scores == {rs[s[k]].d : k \in considered}
        orders == {o \in SetToSeqs(scores) :
                     \A j, k \in DOMAIN o : j < k => AsInt(o[k]) <= AsInt(o[j])}
        top(o) == {o[j] : j \in {k \in DOMAIN o :
                                    k <= 2 /\ \A m \in 1..k : o[m] # 0}}
    IN IF IsTopLevel THEN {{}}
       ELSE {{s[k] : k \in {l \in considered \ {w} : rs[s[l]].d \in top(o)}} :
               o \in orders}
(***************************************************************************)
(* Debug reports of the seller                                             *)
(***************************************************************************)
\* The reactor takes an ad for the winner if it is of the winner's interest group.
IsWinningIg(i, w) == w # 0 /\ Ad(i).owner = Ad(w).owner /\ Ad(i).ig = Ad(w).ig

\* PerformDebugReporting goes on. With a cache of attestations, looking for the
\* URLs of the winner creates the field that is tested next.
ReportsDebugUrls(w, rs) ==
    /\ deployment.debug # "off" /\ ~IsTopLevel
    /\ LET urls == IF w = 0 THEN {} ELSE rs[w].urls
       IN CASE deployment.attestation = "off" -> urls # {}
            [] deployment.attestation = "all" -> TRUE
            [] deployment.attestation = "none" -> urls = {}

DebugUrl(i, w) == IF IsWinningIg(i, w) THEN "win" ELSE "loss"

\* A report in the response; its URL is one of an ad's, or empty for a cooldown.
Report(ad, win, component) == [ad |-> ad, win |-> win, component |-> component]

PingedUrls(w, rs) ==
    {<<i, DebugUrl(i, w)>> :
       i \in {j \in Valid(rs) : /\ DebugUrl(j, w) \in rs[j].urls
                               /\ ~(IsComponentAuction /\ IsWinningIg(j, w))}}

\* The winner of a component auction may still lose: both its URLs are reported,
\* once for each ad of its interest group.
PerformUnsampledDebugReporting(w, rs) ==
    IF ~IsComponentAuction \/ w = 0 THEN <<>>
    ELSE FlattenSeq([k \in 1..Cardinality({i \in Valid(rs) : IsWinningIg(i, w)
                                                          /\ rs[i].urls # {}}) |->
             (IF "win" \in rs[w].urls THEN <<Report(w, TRUE, TRUE)>> ELSE <<>>)
             \o (IF "loss" \in rs[w].urls THEN <<Report(w, FALSE, TRUE)>> ELSE <<>>)])

\* The ads come in the order of a hash map; passes says which URLs pass sampling.
PerformSampledDebugReporting(w, rs, order, passes) ==
    LET considered == SelectSeq(order, LAMBDA i : DebugUrl(i, w) \in rs[i].urls)
        selected == SelectSeq(considered, LAMBDA i : <<i, DebugUrl(i, w)>> \in passes)
    IN IF considered = <<>> THEN <<>>
       ELSE IF selected = <<>>
       THEN <<Report(0, IsWinningIg(Last(considered), w), FALSE)>>
       ELSE <<Report(selected[1], IsWinningIg(selected[1], w), FALSE)>>

SampleWin(acc, w, rs, passes) ==
    [acc EXCEPT !.checked = TRUE,
                !.reports = IF "win" \notin rs[w].urls THEN @
                            ELSE Append(@, Report(IF <<w, "win">> \in passes THEN w ELSE 0,
                                                  TRUE, TRUE))]

\* SampleDebugLossReportForComponentAuctionAd.
SampleLoss(acc, i, w, rs, passes) ==
    IF "loss" \notin rs[i].urls THEN acc
    ELSE IF ~acc.selected /\ <<i, "loss">> \in passes
    THEN [acc EXCEPT !.reports = Append(@, Report(i, FALSE, IsWinningIg(i, w))),
                     !.selected = TRUE]
    ELSE IF IsWinningIg(i, w)
    THEN [acc EXCEPT !.reports = Append(@, Report(0, FALSE, TRUE))]
    ELSE [acc EXCEPT !.cooldown = TRUE]

PerformSampledDebugReportingForComponentAuction(w, rs, order, passes) ==
    LET last == Fold(
            LAMBDA acc, i :
                IF acc.checked /\ acc.selected /\ acc.cooldown THEN acc
                ELSE SampleLoss(IF IsWinningIg(i, w) THEN SampleWin(acc, w, rs, passes)
                                ELSE acc, i, w, rs, passes),
            [reports |-> <<>>, checked |-> FALSE, selected |-> FALSE, cooldown |-> FALSE],
            order)
    IN last.reports \o (IF last.cooldown THEN <<Report(0, FALSE, FALSE)>> ELSE <<>>)

\* What PerformDebugReporting may send and put into the response.
DebugOutcomes(w, rs) ==
    LET sampled == UNION {{i} \X {u \in rs[i].urls : u = "loss" \/ IsWinningIg(i, w)} :
                            i \in Valid(rs)}
        draws == SetToSeqs(Valid(rs)) \X SUBSET sampled
        outcome(sent, reports) == [pings |-> sent, reports |-> reports]
    IN IF ~ReportsDebugUrls(w, rs) THEN {outcome({}, <<>>)}
       ELSE IF deployment.debug = "unsampled"
       THEN {outcome(PingedUrls(w, rs), PerformUnsampledDebugReporting(w, rs))}
       ELSE IF IsComponentAuction
       THEN {outcome({}, PerformSampledDebugReportingForComponentAuction(w, rs, d[1], d[2])) :
               d \in draws}
       ELSE {outcome({}, PerformSampledDebugReporting(w, rs, d[1], d[2])) : d \in draws}

(***************************************************************************)
(* The callback of the scoring batch                                       *)
(***************************************************************************)
\* As many ghost winners as are allowed, in the order of the candidates.
GhostWinners(cs) ==
    LET ghosts == ToSet(cs.ghosts)
        n == IF Len(cs.ghosts) < request.maxGhosts THEN Len(cs.ghosts)
             ELSE request.maxGhosts
        InOrder(g) == \A j, k \in 1..n : j < k => g[j] < g[k]
    IN {g \in UNION {SetToSeqs(G) : G \in kSubset(n, ghosts)} : InOrder(g)}

ComponentSeller(i) ==
    IF ~IsTopLevel THEN none
    ELSE (CHOOSE r \in ToSet(Components) :
            ads[i] = r.winner \/ ads[i] \in ToSet(r.ghosts)).seller

\* ScoreAdsCallback, up to what is done for a winner. The id of the winner is read
\* from the response at the place of the winner in the ranking: if that is an error,
\* the process aborts.
ScoreAdsCallback ==
    /\ Answered("scoreAds") /\ ~Cancelled
    /\ responses' = batch.response /\ batch' = NoBatch
    /\ \E s \in Rankings(batch.response) :
         LET rs == batch.response
             cs == Candidates(s, rs)
         IN /\ ranked' = s /\ cands' = cs
            /\ rejected' = {i \in Valid(rs) : Rejected(rs[i])}
            /\ \E w \in IF cs.winners = <<>> THEN {0} ELSE ToSet(cs.winners),
                  g \in GhostWinners(cs) :
                 /\ winner_index' = w
                 /\ \/ /\ w = 0
                       /\ \E debug \in DebugOutcomes(0, rs) :
                            /\ pings' = debug.pings
                            /\ response' = [response EXCEPT
                                   !.ghosts = [k \in DOMAIN g |-> s[g[k]]],
                                   !.debug = debug.reports]
                       /\ EncryptAndFinishOK
                    \/ /\ w # 0 /\ ~rs[w].ok
                       /\ stage' = "aborted"
                       /\ UNCHANGED <<response, pings, finished>>
                    \/ /\ w # 0 /\ rs[w].ok
                       /\ \E others \in OtherBids(s, rs, cs, w) :
                            response' = [response EXCEPT
                                !.ghosts = [k \in DOMAIN g |-> s[g[k]]],
                                !.winner = s[w], !.others = others,
                                !.seller = ComponentSeller(s[w])]
                       /\ stage' = "report"
                       /\ UNCHANGED <<pings, finished>>
    /\ UNCHANGED <<deployment, request, ads, contributions, cancelled>>
(***************************************************************************)
(* Reports for the winner                                                  *)
(***************************************************************************)
\* The id everything but private aggregation goes by.
IdInBatch == winner_index
WinnerId == ranked[winner_index]

\* PerformPrivateAggregationReporting. A ghost winner contributes nothing, unless
\* an ad of its buyer was rejected. Of each buyer one ghost winner is known.
IsKnownGhost(i) ==
    /\ \A j \in rejected : IsTopLevel \/ Ad(j).owner # Ad(i).owner
    /\ LET own == SelectSeq(response.ghosts, LAMBDA g : Ad(g).owner = Ad(i).owner)
       IN own # <<>> /\ Ad(own[1]).ig = Ad(i).ig

Contributions ==
    {<<i, IF i = winner_index THEN "win" ELSE "loss">> :
       i \in {j \in Valid(responses) : /\ responses[j].pagg /\ Ad(j).type = "PA"
                                      /\ ~IsKnownGhost(j)}}

\* DoWinAndDebugReporting: the rest of the callback, which ends the request or
\* runs the code that makes reporting URLs.
DoWinAndDebugReporting ==
    /\ stage = "report"
    /\ contributions' = IF deployment.pagg THEN Contributions ELSE {}
    /\ \E debug \in DebugOutcomes(WinnerId, responses) :
         /\ pings' = debug.pings
         /\ response' = [response EXCEPT
                !.debug = debug.reports,
                !.urls = IF IsTopLevel /\ ads[WinnerId] \in
                                {r.winner : r \in ToSet(Components)}
                         THEN {"componentSeller", "buyer"} ELSE {},
                !.reported = IF deployment.resultUrls THEN WinnerId ELSE 0]
    /\ \/ ~deployment.resultUrls /\ EncryptAndFinishOK /\ UNCHANGED batch
       \/ /\ deployment.resultUrls /\ deployment.isolation
          /\ stage' = "reportResult" /\ batch' = NewBatch(1) /\ UNCHANGED finished
       \/ /\ deployment.resultUrls /\ ~deployment.isolation
          /\ IF Cancelled
             THEN FinishWithStatus("CANCELLED") /\ UNCHANGED batch
             ELSE stage' = "reporting" /\ batch' = NewBatch(1) /\ UNCHANGED finished
    /\ UNCHANGED <<deployment, request, auctionVars, cancelled>>

SellerUrl == IF request.scope = "deviceComponent" THEN "componentSeller" ELSE "topSeller"

\* One run has made all URLs.
ReportingCallback ==
    /\ Answered("reporting") /\ ~Cancelled
    /\ response' = IF ~batch.response[1].ok THEN response
                   ELSE [response EXCEPT !.urls = @ \cup {SellerUrl}
                             \cup (IF deployment.winUrls THEN {"buyer"} ELSE {})]
    /\ EncryptAndFinishOK /\ batch' = NoBatch
    /\ UNCHANGED <<deployment, request, auctionVars, contributions, pings, cancelled>>

\* reportWin is run if the buyer of the winner has one. A top-level auction does not
\* know the buyer.
RunsReportWin ==
    /\ deployment.winUrls /\ ~IsTopLevel
    /\ <<Ad(WinnerId).type, Ad(WinnerId).owner>> \in deployment.buyers

ReportResultCallback ==
    /\ Answered("reportResult") /\ ~Cancelled
    /\ response' = IF ~batch.response[1].ok THEN response
                   ELSE [response EXCEPT !.urls = @ \cup
                          {IF IsComponentAuction THEN "componentSeller" ELSE "topSeller"}]
    /\ IF RunsReportWin
       THEN stage' = "reportWin" /\ batch' = NewBatch(1) /\ UNCHANGED finished
       ELSE EncryptAndFinishOK /\ batch' = NoBatch
    /\ UNCHANGED <<deployment, request, auctionVars, contributions, pings, cancelled>>

\* The contributions of reportWin go under winning_ad_dispatch_id_.
ReportWinCallback ==
    /\ Answered("reportWin")
    /\ IF batch.response[1].ok
       THEN /\ response' = [response EXCEPT !.urls = @ \cup {"buyer"}]
            /\ contributions' = contributions \cup {<<winner_index, "reportWin">>}
       ELSE UNCHANGED <<response, contributions>>
    /\ EncryptAndFinishOK /\ batch' = NoBatch
    /\ UNCHANGED <<deployment, request, auctionVars, pings, cancelled>>

Cancel ==
    /\ ~cancelled /\ finished = <<>>
    /\ cancelled' = TRUE
    /\ UNCHANGED <<batch, deployment, request, stage, auctionVars, outcomeVars, finished>>

Step ==
    \/ RejectRequest \/ Execute \/ Dispatch \/ DispatchFails \/ Respond
    \/ CancelledCallback \/ ScoreAdsCallback \/ DoWinAndDebugReporting
    \/ ReportingCallback \/ ReportResultCallback \/ ReportWinCallback

Next == Step \/ Cancel

\* The threads run, Roma ends every run it accepts by a timeout and so accepts
\* again in the end; nothing makes a client cancel.
Spec == Init /\ [][Next]_vars /\ WF_vars(Step)

(***************************************************************************)
(* Properties                                                              *)
(***************************************************************************)
Judged == {i \in Valid(responses) : ~Dropped(responses[i])}
Score(i) == responses[i].d

\* Who wins, against the definition of an auction: of the ads that were scored,
\* not rejected, allowed and of a positive score, the best k-anonymous one wins if
\* there is one; a ghost winner is not k-anonymous, is not worse than the winner
\* and is of the best score there is, and there are as many of them as allowed at
\* most. The other bids told to the buyer do not include the winner or a ghost, and
\* none that is left out has a score that is higher when both are cut to ints.
\* (FindWinningAd, ChooseWinnerAndGhostWinners, PopulateHighestScoringOtherBidsData)
BestAdWins ==
    LET eligible == {i \in Judged : Score(i) > 0}
        w == response.winner
        ghosts == ToSet(response.ghosts)
    IN stage \in {"report", "reporting", "reportResult", "reportWin"}
       \/ (stage = "done" /\ responses # <<>>)
       =>
       /\ w = 0 <=> \A i \in eligible : ~KAnonymous(i)
       /\ w # 0 => /\ w \in eligible /\ KAnonymous(w)
                   /\ \A i \in eligible : KAnonymous(i) => Score(i) <= Score(w)
       /\ \A g \in ghosts :
            /\ g \in eligible /\ ~KAnonymous(g)
            /\ w # 0 => Score(g) >= Score(w)
            /\ \A i \in eligible : Score(i) <= Score(g)
       /\ Cardinality(ghosts) <= request.maxGhosts
       /\ response.others \cap ({w} \cup ghosts) = {}
       /\ response.others \subseteq {i \in Judged : Score(i) # 0}
       /\ \A o \in response.others, i \in Judged :
            AsInt(Score(i)) > AsInt(Score(o)) /\ Score(i) # 0
            => i \in response.others \cup {w} \/ ~KAnonymous(i)

\* The seller, the reporting URLs and the code that makes them are those of the ad
\* that won, though the batch, the list of valid responses and the ranking number
\* the ads differently: the seller is the one whose component auction offered the
\* ad, and reportWin of a buyer runs for an ad of that buyer. A win is told to a
\* debug URL for the interest group of the winner only, and from here only if its
\* seller cannot lose any more; of the losses that pass sampling one is reported
\* (PerformSampledDebugReporting: "there is a limit of max one debug loss url per
\* adtech").
ReportsMatchOutcome ==
    LET w == response.winner
    IN /\ w # 0 =>
            /\ response.reported \in {0, w}
            /\ IsTopLevel => \E r \in ToSet(Components) :
                 /\ r.seller = response.seller
                 /\ ads[w] \in {r.winner} \cup ToSet(r.ghosts)
            /\ deployment.isolation /\ ~IsTopLevel /\ "buyer" \in response.urls =>
                 <<Ad(w).type, Ad(w).owner>> \in deployment.buyers
       /\ \A p \in pings : (p[2] = "win") = IsWinningIg(p[1], w)
       /\ \A p \in pings : p[2] = "win" => ~IsComponentAuction
       /\ deployment.debug = "sampled" =>
            Cardinality({k \in DOMAIN response.debug :
                LET r == response.debug[k]
                IN r.ad # 0 /\ (IsComponentAuction => ~r.win)}) <= 1

\* The RPC of a request is finished, and once, whatever responses fail, wherever the
\* client cancels: unless the process aborts or encryption fails, which
\* EncryptResponse and its caller both answer.
FinishedOnce ==
    stage = "aborted" \/ Len(finished) = 1 \/ finished = <<"encryption failed", "OK">>

FinishedExactlyOnce == <>[]FinishedOnce

\* "Parses paapi_contributions_doc based on whether the ad won or lost"
\* (private_aggregation_manager.h): the contributions to the event of winning are
\* those of the ad that won.
WinContributionsOfTheWinner ==
    \A c \in contributions : c[2] \in {"win", "reportWin"} => c[1] = response.winner
=============================================================================
