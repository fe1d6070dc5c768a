------------------------------ MODULE SelectAd ------------------------------
(* One SelectAd request in the seller front end (SelectAdReactor,            *)
(* src/services/seller_frontend_service/select_ad_reactor.cc), and its       *)
(* replay: buyers are asked for bids in parallel, the scoring signals and    *)
(* the k-anonymity of the bids are fetched in parallel, the bids are scored, *)
(* and the RPC is finished, after which gRPC deletes the reactor. Every      *)
(* callback runs on a thread of its own. The two AsyncTaskTrackers are used  *)
(* through the atomic steps that module AsyncTaskTracker justifies.          *)
EXTENDS FiniteSets, Sequences, TaskCounters

CONSTANTS
    Buyer,               \* the buyers configured here and in the auction config
    NoReportWinUrl,      \* the buyers without a report-win URL: no k-anon hashes
    MaxBuyersSolicited,  \* max_buyers_solicited_
    MaxRequests,         \* bound: how often one generation ID is used
    Deployments,         \* the combinations of flags to consider
    NoEntry              \* invoked_buyers_cache holds nothing for the ID

Flags == [cancellation : BOOLEAN,  \* enable_cancellation_
          kanon : BOOLEAN,         \* enable_enforce_kanon_, after decryption
          fetch : BOOLEAN,         \* perform_scoring_signals_fetch_
          v2 : BOOLEAN,            \* UseKvV2 of the client and the host
          provider : BOOLEAN,      \* the client of the signals is not null
          chaffing : {"off", "v1", "v2"},
          caching : BOOLEAN]       \* buyer_caching_enabled_

ASSUME SelectAdAssumption ==
    /\ IsFiniteSet(Buyer)
    /\ NoReportWinUrl \subseteq Buyer
    /\ MaxBuyersSolicited \in Nat
    /\ MaxRequests \in Nat \ {0}
    /\ Deployments \subseteq Flags
    /\ \A S, T \in SUBSET Buyer : NoEntry # [chaff |-> S, nonChaff |-> T]

VARIABLES
    conf,        \* the flags of this server
    cache,       \* invoked_buyers_cache, at the generation ID
    requests,    \* requests served with the generation ID, this one included
    inputs,      \* the buyers in the ciphertext (buyer_inputs_)
    exec,        \* the thread in Execute: "execute", "dispatch", "returned"
    previous,    \* previously_invoked_buyers_
    chaff,       \* the buyers to be sent a chaff request
    rpc,         \* GetBids of each buyer: its progress, then its TaskStatus
    solicited,   \* chaff_buyers and non_chaff_buyers of FetchBids
    bids,        \* shared_buyer_bids_map_
    bidTracker,  \* async_task_tracker_
    sigTracker,  \* fetch_scoring_signals_query_kanon_tracker_
    chain,       \* what the callback of the last task runs, one after another
    kv,          \* the scoring signals lookup
    signals,     \* maybe_scoring_signals_
    kanon,       \* the k-anonymity query
    finishes,    \* the statuses Finish was called with
    cancelled,   \* request_context_->IsCancelled()
    deleted      \* OnDone has deleted the reactor

bidVars == <<exec, chaff, rpc, solicited, bids, bidTracker>>
sigVars == <<sigTracker, kv, signals, kanon>>
requestVars == <<conf, requests, inputs, previous, cancelled, deleted>>
vars == <<bidVars, sigVars, requestVars, cache, chain, finishes>>

BidKind == {"valid", "mismatched", "unrenderable"}
RpcState == {"none", "todo", "sent"} \cup TaskStatus
Plans == [chaff : SUBSET Buyer, nonChaff : SUBSET Buyer]
Statuses == {"OK", "CANCELLED", "INVALID_ARGUMENT", "INTERNAL", "UNAVAILABLE"}

TypeOK ==
    /\ conf \in Deployments
    /\ cache \in Plans \cup {NoEntry} /\ previous \in Plans \cup {NoEntry}
    /\ requests \in 1..MaxRequests
    /\ inputs \subseteq Buyer /\ chaff \subseteq Buyer /\ solicited \subseteq Buyer
    /\ exec \in {"execute", "dispatch", "returned"}
    /\ rpc \in [Buyer -> RpcState]
    /\ bids \in [Buyer -> BidKind \cup {"none"}]
    /\ bidTracker \in Trackers /\ sigTracker \in Trackers
    /\ chain \in {"bids", "bidsDone", "fetch", "wait", "signalsDone", "score",
                  "scoring", "ended"}
    /\ kv \in {"none", "sent", "lost", "logging", "answered"}
    /\ signals \in {"unset", "error", "empty", "some"}
    /\ kanon \in {"none", "queued", "querying", "inserting", "done"}
    /\ finishes \in Seq(Statuses)
    /\ cancelled \in BOOLEAN /\ deleted \in BOOLEAN

\* Mutant: the parallel k-anonymity query is not counted.
OneSignalTask(c) == 1

\* The lookups and queries the second tracker waits for (DecryptRequest).
SignalTasks(c) == IF c.kanon /\ c.fetch THEN 2 ELSE 1

Init ==
    /\ conf \in Deployments
    /\ inputs \in SUBSET Buyer
    /\ cache = NoEntry /\ previous = NoEntry
    /\ requests = 1
    /\ exec = "execute" /\ chain = "bids"
    /\ chaff = {} /\ solicited = {}
    /\ rpc = [b \in Buyer |-> "none"]
    /\ bids = [b \in Buyer |-> "none"]
    /\ bidTracker = Tracking(0)
    /\ sigTracker = Tracking(SignalTasks(conf))
    /\ kv = "none" /\ signals = "unset" /\ kanon = "none"
    /\ finishes = <<>> /\ cancelled = FALSE /\ deleted = FALSE

\* enable_cancellation_ && request_context_->IsCancelled()
Cancelled == conf.cancellation /\ cancelled

\* FinishWithStatus, where the chain of callbacks ends.
FinishWithStatus(s) ==
    /\ finishes' = Append(finishes, s)
    /\ chain' = "ended"

\* OnScoreAdsDone without a winner and without an error to report: a chaff
\* response, unless encoding or encrypting it fails.
RespondWithChaff == \E s \in {"OK", "INTERNAL"} : FinishWithStatus(s)

\* CreateGetBidsRequest: the interest groups of a buyer twice, of which the second
\* copy is cleared when this seller does not support Protected Audience; the buyer
\* then makes the second of the first again, and bids for the groups.
CreateGetBidsRequest(groups, sellerAudience, appSignals) ==
    [chaff |-> FALSE,
     buyerInput |-> groups,
     forBidding |-> IF sellerAudience THEN groups ELSE "empty",
     pas |-> IF appSignals THEN "signals" ELSE "absent"]

-----------------------------------------------------------------------------
(* Execute and FetchBids                                                     *)

\* The early returns of Execute: cancelled, undecodable or invalid input. Errors
\* the client should see travel in a response that is OK.
RejectRequest ==
    /\ exec = "execute"
    /\ exec' = "returned"
    /\ \/ Cancelled /\ FinishWithStatus("CANCELLED")
       \/ FinishWithStatus("INVALID_ARGUMENT")
       \/ RespondWithChaff
    /\ UNCHANGED <<chaff, rpc, solicited, bids, bidTracker, sigVars,
                   requestVars, cache>>

\* GetChaffingConfig: how many of the buyers without input get a chaff request.
\* V2 scales the number drawn, down to none; each of 95 to 99% of the requests
\* is sent without chaff.
ChaffChoices ==
    LET candidates == Buyer \ inputs
        wanted == IF inputs = {} THEN 2 ELSE 1
    IN  {{}} \cup
        {C \in SUBSET candidates :
            \/ conf.chaffing = "v2"
            \/ /\ conf.chaffing = "v1"
               /\ \/ Cardinality(C) >= wanted
                  \/ C = candidates}

\* The buyers to ask: those of the request served before, or new ones.
BuyerPlans ==
    IF previous # NoEntry
      THEN {previous}
      ELSE [chaff : ChaffChoices, nonChaff : {inputs}]

\* Mutant: chaff requests are not counted.
RealBuyersOnly(plan) == Cardinality(plan.nonChaff)

\* GetEffectiveNumberOfBuyers
EffectiveNumberOfBuyers(plan) ==
    Cardinality(plan.nonChaff)
      + IF conf.chaffing = "off" THEN 0 ELSE Cardinality(plan.chaff)

\* The buyers whose requests are built: a buyer without input is passed over.
RequestsToBuild(plan) == (plan.nonChaff \cap inputs) \cup plan.chaff

FetchBids ==
    /\ exec = "execute"
    /\ \E plan \in BuyerPlans :
          LET n == EffectiveNumberOfBuyers(plan)
              asked == IF n = 0 THEN {} ELSE RequestsToBuild(plan)
          IN  /\ bidTracker' = Tracking(n)
              /\ chaff' = plan.chaff
              /\ rpc' = [b \in Buyer |-> IF b \in asked THEN "todo" ELSE "none"]
              /\ exec' = IF n = 0 THEN "returned" ELSE "dispatch"
              /\ chain' = IF n = 0 THEN "bidsDone" ELSE chain
    /\ UNCHANGED <<solicited, bids, sigVars, requestVars, cache, finishes>>

\* Mutant: the callback is made with one task still pending.
CompletedOneEarly(b, s) ==
    /\ rpc' = [rpc EXCEPT ![b] = s]
    /\ bidTracker' = Counted(bidTracker, s)
    /\ chain' = IF bidTracker'.pending <= 1 THEN "bidsDone" ELSE chain

\* Mutant: skipped buyers are left pending.
CompletedUnlessSkipped(b, s) ==
    /\ rpc' = [rpc EXCEPT ![b] = s]
    /\ bidTracker' = IF s = "SKIPPED" THEN bidTracker ELSE Counted(bidTracker, s)
    /\ chain' = IF bidTracker'.pending = 0 THEN "bidsDone" ELSE chain

\* Mutant: an error is told to the tracker as an empty response.
CompletedAsEmpty(b, s) ==
    /\ rpc' = [rpc EXCEPT ![b] = s]
    /\ bidTracker' = Counted(bidTracker, IF s = "ERROR" THEN "EMPTY_RESPONSE" ELSE s)
    /\ chain' = IF bidTracker'.pending = 0 THEN "bidsDone" ELSE chain

\* async_task_tracker_.TaskCompleted(s) for buyer b; the callback of the last
\* task is due when the lock is released.
BidCompleted(b, s) ==
    /\ rpc' = [rpc EXCEPT ![b] = s]
    /\ bidTracker' = Counted(bidTracker, s)
    /\ chain' = IF bidTracker'.pending = 0 THEN "bidsDone" ELSE chain

\* A buyer beyond the cap is told to the tracker, not asked.
SkipBuyer(b) ==
    /\ exec = "dispatch" /\ rpc[b] = "todo"
    /\ Cardinality(solicited) >= MaxBuyersSolicited
    /\ BidCompleted(b, "SKIPPED")
    /\ UNCHANGED <<exec, chaff, solicited, bids, sigVars, requestVars, cache,
                   finishes>>

\* FetchBid. The names come from the factory of clients, which has one for each.
FetchBid(b) ==
    /\ exec = "dispatch" /\ rpc[b] = "todo"
    /\ Cardinality(solicited) < MaxBuyersSolicited
    /\ solicited' = solicited \cup {b}
    /\ \/ Cancelled /\ BidCompleted(b, "CANCELLED")
       \/ ~Cancelled /\ BidCompleted(b, "ERROR")
       \/ /\ ~Cancelled
          /\ rpc' = [rpc EXCEPT ![b] = "sent"]
          /\ UNCHANGED <<bidTracker, chain>>
    /\ UNCHANGED <<exec, chaff, bids, sigVars, requestVars, cache, finishes>>

\* Mutant: the candidates are cached, asked or not.
AllCandidates == [chaff |-> chaff, nonChaff |-> inputs]

\* The entry for invoked_buyers_cache.
InvokedBuyers == [chaff |-> solicited \cap chaff, nonChaff |-> solicited \ chaff]

\* The end of FetchBids: the buyers asked are cached under the generation ID,
\* unless they came from there or the insertion fails.
EndFetchBids ==
    /\ exec = "dispatch"
    /\ \A b \in Buyer : rpc[b] # "todo"
    /\ exec' = "returned"
    /\ \/ /\ conf.caching /\ previous = NoEntry
          /\ cache' = InvokedBuyers
       \/ UNCHANGED cache
    /\ UNCHANGED <<chaff, rpc, solicited, bids, bidTracker, sigVars,
                   requestVars, chain, finishes>>

-----------------------------------------------------------------------------
(* The callbacks of the GetBids RPCs                                         *)

\* The closure of FetchBid and OnFetchBidsDone. A chaff request is answered
\* without bids.
OnFetchBidsDone(b) ==
    /\ rpc[b] = "sent"
    /\ \/ /\ \/ Cancelled /\ BidCompleted(b, "CANCELLED")
             \/ ~Cancelled /\ BidCompleted(b, "ERROR")
             \/ ~Cancelled /\ BidCompleted(b, "EMPTY_RESPONSE")
          /\ UNCHANGED bids
       \/ /\ ~Cancelled /\ b \notin chaff
          /\ BidCompleted(b, "SUCCESS")
          /\ \E k \in BidKind : bids' = [bids EXCEPT ![b] = k]
    /\ UNCHANGED <<exec, chaff, solicited, sigVars, requestVars, cache, finishes>>

Bidders == {b \in Buyer : bids[b] # "none"}

\* FilterBidsWithMismatchingCurrency
Filtered == [b \in Buyer |-> IF bids[b] = "mismatched" THEN "none" ELSE bids[b]]

OnAllBidsDone ==
    /\ chain = "bidsDone"
    /\ \/ /\ Cancelled
          /\ FinishWithStatus("CANCELLED")
          /\ UNCHANGED <<bids, kanon>>
       \/ /\ ~Cancelled /\ Bidders = {}
          /\ IF AnyTaskSuccessfullyCompleted(bidTracker)
               THEN RespondWithChaff
               ELSE FinishWithStatus("INTERNAL")
          /\ UNCHANGED <<bids, kanon>>
       \/ /\ ~Cancelled /\ Bidders # {}
          /\ bids' = Filtered
          /\ \A b \in Bidders : bids[b] = "mismatched"
          /\ FinishWithStatus("INVALID_ARGUMENT")
          /\ UNCHANGED kanon
       \/ /\ ~Cancelled
          /\ bids' = Filtered
          /\ \E b \in Bidders : bids[b] # "mismatched"
          /\ kanon' = IF conf.kanon THEN "queued" ELSE kanon
          /\ chain' = IF conf.fetch THEN "fetch"
                      ELSE IF conf.kanon THEN "wait" ELSE "score"
          /\ UNCHANGED finishes
    /\ UNCHANGED <<exec, chaff, rpc, solicited, bidTracker, sigTracker, kv,
                   signals, requestVars, cache>>

-----------------------------------------------------------------------------
(* Scoring signals and k-anonymity, in parallel                              *)

\* TaskCompleted(s) of the second tracker.
SignalTaskCompleted(s) ==
    /\ sigTracker' = Counted(sigTracker, s)
    /\ chain' = IF sigTracker'.pending = 0 THEN "signalsDone" ELSE chain

\* CreateV2ScoringRequest fails when no bid has a URL to look up. The status of
\* the V2 call itself is not looked at either.
V2RequestFails == \A b \in Bidders : bids[b] = "unrenderable"

FetchScoringSignals ==
    /\ chain = "fetch"
    /\ \/ /\ Cancelled
          /\ FinishWithStatus("CANCELLED")
          /\ UNCHANGED kv
       \/ /\ ~Cancelled /\ ~conf.provider
          /\ FinishWithStatus("INTERNAL")
          /\ UNCHANGED kv
       \/ /\ ~Cancelled /\ conf.provider
          /\ chain' = "wait"
          /\ kv' \in IF ~conf.v2 THEN {"sent"}
                     ELSE IF V2RequestFails THEN {"lost"} ELSE {"sent", "lost"}
          /\ UNCHANGED finishes
    /\ UNCHANGED <<bidVars, sigTracker, signals, kanon, requestVars, cache>>

\* The callback of the V1 lookup.
OnScoringSignalsV1 ==
    /\ kv = "sent" /\ ~conf.v2
    /\ kv' = "answered"
    /\ \/ Cancelled /\ SignalTaskCompleted("CANCELLED") /\ UNCHANGED signals
       \/ /\ ~Cancelled
          /\ signals' \in {"error", "empty", "some"}
          /\ SignalTaskCompleted("SUCCESS")
    /\ UNCHANGED <<bidVars, kanon, requestVars, cache, finishes>>

\* The callback of the V2 lookup ends the request itself when it is cancelled or
\* fails, and then may still log.
OnScoringSignalsV2 ==
    /\ kv = "sent" /\ conf.v2
    /\ \/ /\ Cancelled
          /\ kv' = "answered"
          /\ FinishWithStatus("CANCELLED")
          /\ UNCHANGED <<sigTracker, signals>>
       \/ /\ ~Cancelled
          /\ kv' = "logging"
          /\ FinishWithStatus("INVALID_ARGUMENT")
          /\ UNCHANGED <<sigTracker, signals>>
       \/ /\ ~Cancelled
          /\ kv' = "answered"
          /\ signals' \in {"empty", "some"}
          /\ SignalTaskCompleted("SUCCESS")
          /\ UNCHANGED finishes
    /\ UNCHANGED <<bidVars, kanon, requestVars, cache>>

\* log_context_ after OnScoreAdsDone. What would run on a deleted reactor is left
\* out of the behaviours, here and below; KAnonQueryAwaited says when it is due.
LogScoringSignals ==
    /\ kv = "logging" /\ ~deleted
    /\ kv' = "answered"
    /\ UNCHANGED <<bidVars, sigTracker, signals, kanon, requestVars, cache,
                   chain, finishes>>

\* QueryKAnonHashes: no hash to resolve, all resolved by the caches, the query
\* fails at once, or it is sent.
QueryKAnonHashes ==
    /\ kanon = "queued" /\ ~deleted
    /\ \/ /\ Bidders \subseteq NoReportWinUrl
          /\ kanon' = "done"
          /\ SignalTaskCompleted("SKIPPED")
       \/ /\ ~(Bidders \subseteq NoReportWinUrl)
          /\ \/ /\ kanon' = "done"
                /\ \E s \in {"SUCCESS", "ERROR"} : SignalTaskCompleted(s)
             \/ kanon' = "querying" /\ UNCHANGED <<sigTracker, chain>>
    /\ UNCHANGED <<bidVars, kv, signals, requestVars, cache, finishes>>

\* The answer of the k-anon service: the reactor's callback runs inside the one
\* of KAnonCacheManager, which may go on to cache the hashes.
OnKAnonHashes ==
    /\ kanon = "querying" /\ ~deleted
    /\ kanon' \in {"inserting", "done"}
    /\ SignalTaskCompleted("SUCCESS")
    /\ UNCHANGED <<bidVars, kv, signals, requestVars, cache, finishes>>

\* InsertShardedCaches, on views of strings the reactor owns.
InsertKAnonHashes ==
    /\ kanon = "inserting" /\ ~deleted
    /\ kanon' = "done"
    /\ UNCHANGED <<bidVars, sigTracker, kv, signals, requestVars, cache, chain,
                   finishes>>

OnFetchScoringSignalsDone ==
    /\ chain = "signalsDone"
    /\ \/ /\ conf.fetch /\ signals \in {"unset", "error"}
          /\ FinishWithStatus("INVALID_ARGUMENT")
       \/ conf.fetch /\ signals = "empty" /\ RespondWithChaff
       \/ /\ conf.fetch => signals = "some"
          /\ chain' = "score"
          /\ UNCHANGED finishes
    /\ UNCHANGED <<bidVars, sigVars, requestVars, cache>>

-----------------------------------------------------------------------------
(* Scoring and the end of the request                                        *)

ScoreAds ==
    /\ chain = "score"
    /\ \/ Cancelled /\ FinishWithStatus("CANCELLED")
       \/ ~Cancelled /\ FinishWithStatus("INTERNAL")
       \/ ~Cancelled /\ chain' = "scoring" /\ UNCHANGED finishes
    /\ UNCHANGED <<bidVars, sigVars, requestVars, cache>>

\* An INTERNAL error of the auction service is answered with chaff, any other
\* is passed on.
OnScoreAdsDone ==
    /\ chain = "scoring"
    /\ \/ Cancelled /\ FinishWithStatus("CANCELLED")
       \/ ~Cancelled /\ RespondWithChaff
       \/ ~Cancelled /\ FinishWithStatus("UNAVAILABLE")
    /\ UNCHANGED <<bidVars, sigVars, requestVars, cache>>

\* The client gives up.
Cancel ==
    /\ ~cancelled /\ ~deleted
    /\ cancelled' = TRUE
    /\ UNCHANGED <<bidVars, sigVars, conf, requests, inputs, previous, deleted,
                   cache, chain, finishes>>

\* gRPC calls OnDone when Finish has been called and the handler has returned
\* the reactor to it.
OnDone ==
    /\ finishes # <<>> /\ exec = "returned" /\ ~deleted
    /\ deleted' = TRUE
    /\ UNCHANGED <<bidVars, sigVars, conf, requests, inputs, previous,
                   cancelled, cache, chain, finishes>>

\* The ciphertext is sent again and served by a new reactor (Execute up to the
\* query of invoked_buyers_cache). Without that cache the two share nothing.
Replay ==
    /\ deleted /\ conf.caching /\ requests < MaxRequests
    /\ requests' = requests + 1
    /\ previous' = cache
    /\ exec' = "execute" /\ chain' = "bids"
    /\ chaff' = {} /\ solicited' = {}
    /\ rpc' = [b \in Buyer |-> "none"]
    /\ bids' = [b \in Buyer |-> "none"]
    /\ bidTracker' = Tracking(0)
    /\ sigTracker' = Tracking(SignalTasks(conf))
    /\ kv' = "none" /\ signals' = "unset" /\ kanon' = "none"
    /\ finishes' = <<>> /\ cancelled' = FALSE /\ deleted' = FALSE
    /\ UNCHANGED <<conf, inputs, cache>>

Progress ==
    \/ RejectRequest \/ FetchBids \/ EndFetchBids
    \/ \E b \in Buyer : SkipBuyer(b) \/ FetchBid(b) \/ OnFetchBidsDone(b)
    \/ OnAllBidsDone \/ FetchScoringSignals
    \/ OnScoringSignalsV1 \/ OnScoringSignalsV2 \/ LogScoringSignals
    \/ QueryKAnonHashes \/ OnKAnonHashes \/ InsertKAnonHashes
    \/ OnFetchScoringSignalsDone \/ ScoreAds \/ OnScoreAdsDone \/ OnDone

Next == Progress \/ Cancel \/ Replay

\* Every RPC and lookup has a deadline after which its callback runs, and threads
\* that can run do: as each step happens once per request, fairness to their
\* disjunction is fairness to each of them.
Spec == Init /\ [][Next]_vars /\ WF_vars(Progress)

-----------------------------------------------------------------------------

\* When on_all_tasks_done_ has started, no buyer is still to be asked or to
\* answer: "The map can be freely used without a lock after all the bids have
\* completed" (select_ad_reactor.h). And once every request is dispatched the tasks
\* pending are the calls in flight: a buyer that is not asked, for the cap or for
\* an input it lacks, is not waited for either.
AllBuyersAccountedFor ==
    /\ chain # "bids" => \A b \in Buyer : rpc[b] \notin {"todo", "sent"}
    /\ exec = "returned" =>
           bidTracker.pending = Cardinality({b \in Buyer : rpc[b] = "sent"})

\* Bids are scored, and the scoring runs, only with the scoring signals fetched
\* if they are to be, and with the k-anonymity of the bids known if it is
\* enforced; whichever of the two comes last.
ScoredWithSignalsAndKAnon ==
    chain \in {"score", "scoring"} =>
        /\ conf.fetch => signals = "some"
        /\ conf.kanon => kanon \in {"inserting", "done"}

\* A request some buyer failed, and none answered or was left out for the cap, is
\* not answered with a response that says no bid was made: "If all bids ended up
\* in an error state then that should be flagged as an error eventually"
\* (select_ad_reactor.h).
FailureIsReported ==
    finishes = <<"OK">> =>
        ~ /\ \E b \in Buyer : rpc[b] = "ERROR"
          /\ \A b \in Buyer : rpc[b] \in {"none", "ERROR", "CANCELLED"}

\* A replay asks the buyers the first request asked, as what they were then:
\* whoever watches the traffic of both cannot tell chaff from real requests
\* (test VerifySameBuyersInvokedOnRequestReplay).
ReplayAsksTheSameBuyers ==
    previous # NoEntry /\ exec = "returned" /\ rpc # [b \in Buyer |-> "none"] =>
        solicited = previous.chaff \cup previous.nonChaff

\* The RPC is finished at most once, by the thread that stopped the request or by
\* the last callback of the chain, never by both (gRPC aborts on a second Finish),
\* and no RPC or lookup the request waits for answers to a deleted reactor.
FinishedOnceAndLast ==
    /\ Len(finishes) <= 1
    /\ deleted =>
           /\ chain = "ended" /\ kv # "sent"
           /\ \A b \in Buyer : rpc[b] # "sent"

\* Every request is answered, whatever the buyers and the services do, if its
\* tasks all report ("this class expects the client to update this object about
\* the completion status of every task", async_task_tracker.h): not when the V2
\* lookup of the scoring signals was not made, of which nobody tells the tracker.
EventuallyFinished == (exec = "execute") ~> (finishes # <<>> \/ kv = "lost")

\* A request that is over has waited for its k-anonymity query: the scoring
\* signals are stored "temporarily till k-anon statuses are also fetched"
\* (select_ad_reactor.h), and the query's callback uses the reactor.
KAnonQueryAwaited == deleted => kanon \notin {"queued", "querying"}

-----------------------------------------------------------------------------
(* What the state of a request keeps true, of which SelectAdProofs shows that *)
(* every step preserves it.                                                   *)

ToDo == {b \in Buyer : rpc[b] = "todo"}
Unanswered == {b \in Buyer : rpc[b] \in {"todo", "sent"}}
EndedWith(s) == {b \in Buyer : rpc[b] = s}

\* The buyers asked for a request and for its replay.
BuyersOf(plan) == plan.chaff \cup plan.nonChaff

\* The counters of async_task_tracker_ are the buyers they stand for.
CountersMatchBuyers ==
    /\ bidTracker.pending = Cardinality(Unanswered)
    /\ \A s \in TaskStatus : bidTracker.count[s] = Cardinality(EndedWith(s))

\* Nothing has happened before Execute; the last task makes the callback due, and
\* FetchBids leaves no buyer behind.
CallbackIsDueOnce ==
    /\ exec = "execute" =>
           /\ chain = "bids" /\ kv = "none" /\ signals = "unset" /\ kanon = "none"
           /\ chaff = {} /\ solicited = {} /\ ~deleted
           /\ \A b \in Buyer : rpc[b] = "none"
    /\ exec # "execute" => (chain = "bids" <=> Unanswered # {})
    /\ exec = "returned" => ToDo = {}

\* A plan that a replay may get gives every buyer the role it has by its input, and
\* was within the cap.
PlanFitsInputs(plan) ==
    /\ plan.chaff \cap inputs = {} /\ plan.nonChaff \subseteq inputs
    /\ conf.chaffing = "off" => plan.chaff = {}
    /\ Cardinality(BuyersOf(plan)) <= MaxBuyersSolicited

PlansFitInputs ==
    /\ cache # NoEntry => PlanFitsInputs(cache)
    /\ previous # NoEntry => PlanFitsInputs(previous)
    /\ (solicited \cup ToDo) \ chaff \subseteq inputs
    /\ chaff \cap inputs = {}
    /\ conf.chaffing = "off" => chaff = {}
    /\ Cardinality(solicited) <= MaxBuyersSolicited

\* A replay passes over none of the buyers asked before.
ReplayFollowsThePlan ==
    /\ ToDo \cap solicited = {}
    /\ previous # NoEntry /\ (\E b \in Buyer : rpc[b] # "none") =>
           solicited \cup ToDo = BuyersOf(previous)

\* The tasks of the second tracker that have not reported: 1 or 0 for the query.
KAnonPending == IF conf.kanon /\ kanon \notin {"inserting", "done"} THEN 1 ELSE 0

\* fetch_scoring_signals_query_kanon_tracker_ waits for the query and the lookup; a
\* V2 lookup that ends the request itself stays pending for ever.
SignalsTracked ==
    /\ sigTracker.pending \in {KAnonPending, KAnonPending + 1}
    /\ conf.fetch /\ kv # "answered" => sigTracker.pending = KAnonPending + 1
    /\ conf.fetch /\ kv = "answered" /\ chain # "ended" => sigTracker.pending = KAnonPending
    /\ ~conf.fetch /\ conf.kanon => sigTracker.pending = KAnonPending
    /\ ~conf.fetch => kv = "none"
    /\ kanon \in {"queued", "querying"} /\ sigTracker.pending = KAnonPending =>
           chain = "wait"
    /\ kanon # "none" => conf.kanon

\* Where the chain of callbacks is, by what has been sent and answered.
ChainInOrder ==
    /\ chain \in {"bids", "bidsDone"} => kv = "none" /\ kanon = "none"
    /\ chain = "fetch" => kv = "none" /\ conf.fetch
    /\ chain \in {"fetch", "wait", "signalsDone", "score", "scoring"} =>
           /\ conf.kanon => kanon # "none"
           /\ \E b \in Buyer : bids[b] # "none"
    /\ chain \in {"wait", "signalsDone", "score", "scoring"} /\ conf.fetch =>
           kv \notin {"none", "logging"}
    /\ chain = "wait" => conf.fetch \/ conf.kanon
    /\ chain \in {"signalsDone", "score", "scoring"} /\ (conf.fetch \/ conf.kanon) =>
           sigTracker.pending = 0
    /\ chain \in {"score", "scoring"} /\ conf.fetch => signals = "some"
    /\ kv = "sent" => chain = "wait"

\* Bids come of successful calls, and a finished request is at the end of its chain.
FinishedAtTheEnd ==
    /\ \A b \in Buyer : bids[b] # "none" => rpc[b] = "SUCCESS"
    /\ Len(finishes) = IF chain = "ended" THEN 1 ELSE 0
    /\ deleted => chain = "ended" /\ exec = "returned"

IInv ==
    /\ TypeOK /\ CountersMatchBuyers /\ CallbackIsDueOnce /\ PlansFitInputs
    /\ ReplayFollowsThePlan /\ SignalsTracked /\ ChainInOrder /\ FinishedAtTheEnd
    /\ FailureIsReported
=============================================================================
