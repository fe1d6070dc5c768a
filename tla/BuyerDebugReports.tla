-------------------------- MODULE BuyerDebugReports --------------------------
(* The debug URLs of buyers, from the bids of generateBid() to what the       *)
(* seller front end pings or has the client report: validated and sampled in  *)
(* the bidding service (bidding_service/utils/validation.cc), chosen after    *)
(* the auction (PerformDebugReporting of select_ad_reactor.cc), filled in     *)
(* (common/util/reporting_util.cc) and merged with the seller's.              *)
EXTENDS Integers, FiniteSets, Sequences, SequencesExt, FiniteSetsExt

CONSTANTS
    DebugAuctions,  \* see IsDebugAuction
    MaxUrl,         \* max_allowed_size_debug_url_chars
    MaxAllUrls      \* max_allowed_size_all_debug_urls_chars, of one buyer

Kinds == {"win", "loss"}

\* url gives the characters of each URL, 0 if there is none; enrolled those whose site
\* the attestation cache knows.
IsDebugBid(b) == b.url \in [Kinds -> Nat] /\ b.enrolled \subseteq Kinds

\* winner: a bid, 0 if there is none; others: who made the second-highest bid;
\* rejected: reasons by bid; sellers: reports of the auction service.
IsDebugAuction(a) ==
    /\ \A i \in DOMAIN a.bids : IsDebugBid(a.bids[i])
    /\ {a.enabled, a.sampled, a.component, a.currency} \subseteq BOOLEAN
    /\ a.winner \in 0..Len(a.bids)
    /\ DOMAIN a.rejected \subseteq DOMAIN a.bids \ {a.winner}

BuyerDebugReportsAssumption ==
    /\ MaxUrl \in Nat /\ MaxAllUrls \in Nat
    /\ \A a \in DebugAuctions : IsDebugAuction(a)

VARIABLES
    sale,      \* the auction
    validated, \* the bids so far, as the bidding service returns them
    chars,     \* total_debug_urls_chars of each buyer
    outcome,   \* the post-auction signals
    reports,   \* adtech_origin_debug_urls_map_
    urlPings,  \* debug URLs requested by the server
    phase

vars == <<sale, validated, chars, outcome, reports, urlPings, phase>>

Bids == sale.bids
Owners == {Bids[i].owner : i \in DOMAIN Bids}
Origins == Owners \cup {sale.seller}

None == "none"

TypeOK ==
    /\ sale \in DebugAuctions
    /\ Len(validated) <= Len(Bids)
    /\ \A i \in DOMAIN validated :
         validated[i].url \in [Kinds -> Nat] /\ validated[i].failed \subseteq Kinds
    /\ chars \in [Owners -> Nat]
    /\ DOMAIN reports = Origins
    /\ phase \in {"bids", "auction", "buyers", "seller", "done"}

NoOutcome == [winner |-> 0, other |-> None, reasons |-> {}]

Init ==
    /\ sale \in DebugAuctions
    /\ validated = <<>>
    /\ chars = [o \in Owners |-> 0]
    /\ outcome = NoOutcome
    /\ reports = [o \in Origins |-> <<>>]
    /\ urlPings = <<>>
    /\ phase = "bids"

-----------------------------------------------------------------------------
(* The bidding service.                                                      *)

\* GetRejectReasonIfBuyerDebugUrlInvalid: DebugUrlPassesSampling draws one of
\* debug_reporting_sampling_upper_bound numbers.
Verdict(size, total, passes) ==
    CASE size = 0 -> "absent"
      [] size > MaxUrl -> "size"
      [] size <= MaxUrl /\ size + total > MaxAllUrls -> "totalSize"
      [] size \in 1..MaxUrl /\ size + total <= MaxAllUrls ->
           IF sale.sampled /\ ~passes THEN "sampling" ELSE "accepted"

Accepted(size, verdict) == IF verdict = "accepted" THEN size ELSE 0

\* AttestDebugUrls.
Attested(bid) == [k \in Kinds |-> IF k \in bid.enrolled THEN bid.url[k] ELSE 0]

\* passes: the URLs that pass sampling if it comes to it. The win URL comes first; a
\* buyer at the limit is not even sampled.
ValidateBuyerDebugUrls(bid, total, passes) ==
    LET size == Attested(bid)
        full == total >= MaxAllUrls
        win == Verdict(size["win"], total, "win" \in passes)
        won == Accepted(size["win"], win)
        loss == Verdict(size["loss"], total + won, "loss" \in passes)
        lost == Accepted(size["loss"], loss)
        verdict == [k \in Kinds |-> IF k = "win" THEN win ELSE loss]
    IN [bid |-> [owner |-> bid.owner, ig |-> bid.ig,
                 url |-> [k \in Kinds |-> IF full THEN 0 ELSE Accepted(size[k], verdict[k])],
                 failed |-> {k \in Kinds : ~full /\ verdict[k] = "sampling"}],
        total |-> IF full THEN total ELSE total + won + lost]

Validate ==
    /\ phase = "bids" /\ Len(validated) < Len(Bids)
    /\ LET bid == Bids[Len(validated) + 1] IN
       \E passes \in SUBSET Kinds :
         LET v == ValidateBuyerDebugUrls(bid, chars[bid.owner], passes) IN
           /\ validated' = Append(validated, v.bid)
           /\ chars' = [chars EXCEPT ![bid.owner] = v.total]
    /\ UNCHANGED <<sale, outcome, reports, urlPings, phase>>

-----------------------------------------------------------------------------
(* The outcome of the auction.                                               *)

Ig(i) == <<Bids[i].owner, Bids[i].ig>>

\* The first reason of each interest group; without a winner, none at all.
RejectionReasons ==
    LET first == {i \in DOMAIN sale.rejected :
                    \A j \in DOMAIN sale.rejected : Ig(j) = Ig(i) => i <= j}
    IN {[ig |-> Ig(i), reason |-> sale.rejected[i]] : i \in first}

\* Of the map of second-highest bids the first entry, in an order of its own.
GeneratePostAuctionSignals(other) ==
    IF sale.winner = 0 THEN NoOutcome
    ELSE [winner |-> sale.winner, other |-> other,
          reasons |-> RejectionReasons]

EndAuction ==
    /\ phase = "bids" /\ Len(validated) = Len(Bids)
    /\ \E other \in IF sale.others = {} THEN {None} ELSE sale.others :
         outcome' = GeneratePostAuctionSignals(other)
    /\ phase' = IF sale.enabled THEN "buyers" ELSE "done"
    /\ UNCHANGED <<sale, validated, chars, reports, urlPings>>

-----------------------------------------------------------------------------
(* What is put into a URL.                                                   *)

IsWinningIg(i) == outcome.winner # 0 /\ Ig(i) = Ig(outcome.winner)

Reason(i) ==
    LET known == {r \in outcome.reasons : r.ig = Ig(i)}
    IN IF known = {} THEN None ELSE (CHOOSE r \in known : TRUE).reason

GetPlaceholderDataForInterestGroup(i) ==
    [madeWinning |-> outcome.winner # 0 /\ Bids[i].owner = Bids[outcome.winner].owner,
     other |-> outcome.other,
     madeOther |-> outcome.other = Bids[i].owner,
     reason |-> Reason(i),
     currency |-> IF sale.currency THEN "seller" ELSE "unknown"]

\* Only the winner is told about the second-highest bid; a placeholder is in a URL
\* once.
CreateDebugReportingUrlForInterestGroup(i, kind, winning) ==
    LET data == GetPlaceholderDataForInterestGroup(i)
    IN [bid |-> i, kind |-> kind,
        data |-> IF winning THEN data ELSE [data EXCEPT !.other = None, !.madeOther = FALSE]]

\* A report with bid 0 has an empty URL: it only starts a cooldown.
NoUrl == [bid |-> 0, kind |-> None, data |-> <<>>]

Report(url, seller, win, component) ==
    [url |-> url, seller |-> seller, win |-> win, component |-> component]

BuyerDebugReport(i, win, component) ==
    Report(CreateDebugReportingUrlForInterestGroup(i, IF win THEN "win" ELSE "loss",
                                                   win \/ component),
           FALSE, win, component)

Cooldown(win, component) == Report(NoUrl, FALSE, win, component)

-----------------------------------------------------------------------------
(* The reports of one buyer.                                                 *)

BidsOf(o) == SelectSeq([i \in DOMAIN Bids |-> i], LAMBDA i : Bids[i].owner = o)

Kind(i) == IF IsWinningIg(i) THEN "win" ELSE "loss"

\* Up to the first URL that passed sampling; without one, a cooldown of its own if one
\* failed.
PerformSampledDebugReporting(o) ==
    LET bids == BidsOf(o)
        sampled == SelectSeq(bids, LAMBDA i : /\ Kind(i) \notin validated[i].failed
                                              /\ validated[i].url[Kind(i)] > 0)
        failed == {Kind(i) : i \in {j \in Range(bids) : Kind(j) \in validated[j].failed}}
    IN IF sampled # <<>>
       THEN <<BuyerDebugReport(sampled[1], IsWinningIg(sampled[1]), FALSE)>>
       ELSE IF failed = {} THEN <<>> ELSE <<Cooldown("win" \in failed, FALSE)>>

WinReports(i) ==
    CASE ~IsWinningIg(i) -> <<>>
      [] IsWinningIg(i) /\ validated[i].url["win"] > 0 -> <<BuyerDebugReport(i, TRUE, TRUE)>>
      [] IsWinningIg(i) /\ validated[i].url["win"] = 0 ->
           IF "win" \in validated[i].failed THEN <<Cooldown(TRUE, TRUE)>> ELSE <<>>

\* HandleSampledDebugLossReportForComponentAuctionAd; acc is what the loop remembers.
HandleLoss(acc, i) ==
    LET url == validated[i].url["loss"] > 0
    IN IF ~url /\ "loss" \notin validated[i].failed THEN acc
       ELSE IF ~acc.selected /\ url
       THEN [acc EXCEPT !.reports = Append(@, BuyerDebugReport(i, FALSE, IsWinningIg(i))),
                        !.selected = TRUE]
       ELSE IF IsWinningIg(i)
       THEN [acc EXCEPT !.reports = Append(@, Cooldown(FALSE, TRUE))]
       ELSE [acc EXCEPT !.cooldown = TRUE]

\* Mutant: the loop also ends when only the win URL was checked and a loss URL selected.
BugHandleAd(acc, i) ==
    IF acc.checked /\ acc.selected THEN acc
    ELSE HandleLoss([acc EXCEPT !.reports = @ \o WinReports(i),
                                !.checked = @ \/ IsWinningIg(i)], i)

HandleAd(acc, i) ==
    IF acc.checked /\ acc.selected /\ acc.cooldown THEN acc
    ELSE HandleLoss([acc EXCEPT !.reports = @ \o WinReports(i),
                                !.checked = @ \/ IsWinningIg(i)], i)

\* A winner's ad may still lose against those of other sellers.
PerformSampledDebugReportingForComponentAuction(o) ==
    LET last == FoldLeft(HandleAd, [reports |-> <<>>, checked |-> FALSE,
                                    selected |-> FALSE, cooldown |-> FALSE], BidsOf(o))
    IN last.reports \o (IF last.cooldown THEN <<Cooldown(FALSE, FALSE)>> ELSE <<>>)

\* The winner's ads in a component auction: the client reports when it knows more.
UnsampledReports(o) ==
    LET of(i, kind) == IF sale.component /\ IsWinningIg(i) /\ validated[i].url[kind] > 0
                       THEN <<BuyerDebugReport(i, kind = "win", TRUE)>> ELSE <<>>
    IN FoldLeft(LAMBDA rs, i : rs \o of(i, "win") \o of(i, "loss"), <<>>, BidsOf(o))

Pinged(i) ==
    /\ ~(sale.component /\ IsWinningIg(i))
    /\ validated[i].url[Kind(i)] > 0 \* SendDebugReportingPing

UnsampledPings ==
    LET is == SelectSeq([i \in DOMAIN Bids |-> i], Pinged)
    IN [n \in DOMAIN is |->
          CreateDebugReportingUrlForInterestGroup(is[n], Kind(is[n]), IsWinningIg(is[n]))]

BuyersReports(o) ==
    IF ~sale.sampled THEN UnsampledReports(o)
    ELSE IF sale.component THEN PerformSampledDebugReportingForComponentAuction(o)
    ELSE PerformSampledDebugReporting(o)

\* If the client asked for debug reporting (EndAuction).
PerformDebugReporting ==
    /\ phase = "buyers" /\ phase' = "seller"
    /\ reports' = [o \in Origins |-> IF o \in Owners THEN BuyersReports(o) ELSE <<>>]
    /\ urlPings' = IF sale.sampled THEN <<>> ELSE UnsampledPings
    /\ UNCHANGED <<sale, validated, chars, outcome>>

-----------------------------------------------------------------------------
(* The reports of the seller, who may be a buyer too.                        *)

\* DebugReportsInResponseCounts::Create.
AllowedReports ==
    IF sale.sampled THEN [win |-> 1, loss |-> 1, all |-> IF sale.component THEN 2 ELSE 1]
    ELSE [win |-> 2, loss |-> 2, all |-> 4]

IsEmpty(r) == r.url = NoUrl

\* DecrementCountsForDebugReport.
Decremented(counts, r) ==
    IF IsEmpty(r) THEN counts
    ELSE [win |-> counts.win - (IF r.win THEN 1 ELSE 0),
          loss |-> counts.loss - (IF r.win THEN 0 ELSE 1), all |-> counts.all - 1]

CanAddDebugReport(counts, r) ==
    IsEmpty(r) \/ (counts.all > 0 /\ (IF r.win THEN counts.win ELSE counts.loss) > 0)

AddIfAllowed(acc, r) ==
    IF CanAddDebugReport(acc.counts, r)
    THEN [reports |-> Append(acc.reports, r), counts |-> Decremented(acc.counts, r)]
    ELSE acc

MergeSellerDebugReportsToResponse ==
    /\ phase = "seller" /\ phase' = "done"
    /\ LET own == reports[sale.seller]
           counts == FoldLeft(Decremented, AllowedReports, own)
       IN reports' = [reports EXCEPT ![sale.seller] =
                        FoldLeft(AddIfAllowed, [reports |-> own, counts |-> counts],
                                 sale.sellers).reports]
    /\ UNCHANGED <<sale, validated, chars, outcome, urlPings>>

Next ==
    Validate \/ EndAuction \/ PerformDebugReporting \/ MergeSellerDebugReportsToResponse

Spec == Init /\ [][Next]_vars
-----------------------------------------------------------------------------
(* Properties.                                                               *)

Real(rs) == SelectSeq(rs, LAMBDA r : ~IsEmpty(r))
BuyersUrls(o) == {r.url : r \in {q \in Range(Real(reports[o])) : ~q.seller}}
Urls == UNION {BuyersUrls(o) : o \in Origins} \cup Range(urlPings)
BidsOfWinner == {i \in DOMAIN Bids : IsWinningIg(i)}

\* URLs that are reported or pinged were enrolled, passed sampling, and together are not
\* longer than what one buyer may have.
OnlyValidUrls ==
    /\ \A u \in Urls : u.kind \in Bids[u.bid].enrolled \ validated[u.bid].failed
    /\ \A o \in Owners :
         MapThenSumSet(LAMBDA u : Bids[u[1]].url[u[2]],
                       {<<u.bid, u.kind>> : u \in {v \in Urls : Bids[v.bid].owner = o}})
           <= MaxAllUrls

\* No origin has more reports than it may, those of a seller that also bids included. A
\* winner in a component auction counts for each bid of his interest group.
WithinLimits ==
    \A o \in Origins :
      LET rs == Real(reports[o])
          wins == SelectSeq(rs, LAMBDA r : r.win)
      IN \/ sale.component /\ Cardinality(BidsOfWinner) > 1
         \/ /\ Len(wins) <= AllowedReports.win
            /\ Len(rs) - Len(wins) <= AllowedReports.loss
            /\ Len(rs) <= AllowedReports.all

\* What the client learns for bid i, whose URL of this kind was to be reported.
Learns(i, kind) ==
    \E r \in Range(reports[Bids[i].owner]) :
      /\ ~r.seller
      /\ sale.component => r.win = (kind = "win") /\ r.component = IsWinningIg(i)

\* A URL that failed sampling costs the buyer a cooldown, unless the client gets a URL
\* of his instead; and nobody cools down for nothing.
FailedSamplingIsKnown ==
    /\ \A i \in DOMAIN Bids, kind \in Kinds :
         /\ kind \in validated[i].failed
         /\ kind = Kind(i) \/ (sale.component /\ IsWinningIg(i))
         => Learns(i, kind)
    /\ \A o \in Owners : \A r \in Range(reports[o]) :
         IsEmpty(r) /\ ~r.seller =>
           \E i \in Range(BidsOf(o)), kind \in Kinds :
             /\ r.win = (kind = "win") /\ (r.win => IsWinningIg(i))
             /\ kind \in validated[i].failed \/ validated[i].url[kind] > 0

\* A sampled auction is reported by the client alone. Otherwise each URL is used once.
EachUrlOnce ==
    /\ sale.sampled => urlPings = <<>>
    /\ \A u, v \in Urls : <<u.bid, u.kind>> = <<v.bid, v.kind>> => u = v
    /\ Cardinality(Range(urlPings)) = Len(urlPings)
    /\ \A o \in Owners : BuyersUrls(o) \cap Range(urlPings) = {}
    /\ \A o \in Owners : Cardinality(BuyersUrls(o))
                         = Len(SelectSeq(Real(reports[o]), LAMBDA r : ~r.seller))
    /\ ~sale.sampled =>
         \A i \in DOMAIN Bids : validated[i].url[Kind(i)] > 0 =>
             \E u \in Urls : u.bid = i /\ u.kind = Kind(i)

\* Only the winner's interest group is told of the second-highest bid, and buyers who
\* lost to a winner why their ads were rejected.
OnlyWinnerLearnsOtherBid ==
    \A u \in Urls :
      /\ u.data.other # None \/ u.data.madeOther => IsWinningIg(u.bid)
      /\ u.bid \in DOMAIN sale.rejected /\ outcome.winner # 0 => u.data.reason # None

\* Debug reports go by the limits, the sampling and the privacy that the client and the
\* buyers are promised.
DebugReportsKeepPromises ==
    phase = "done" /\ sale.enabled =>
      /\ WithinLimits /\ FailedSamplingIsKnown
      /\ OnlyValidUrls /\ EachUrlOnce /\ OnlyWinnerLearnsOtherBid
=============================================================================
