# A TLA+ model of the Bidding and Auction servers

The Bidding and Auction servers run ad auctions inside trusted execution
environments. This directory models the parts of `src/services` where several
threads, remote calls and timeouts meet, and the data that passes through many hands;
it checks them with TLC on small instances and proves, with TLAPS, what matters most of
seven of them for every size.

Contents: inventory of the system, plan, the modules and how they correspond to
the code, the runs with their bounds and fairness, the findings, the proofs, and
what is left out.

## 1. Inventory

A client's **SelectAd** request reaches a *seller front end* (SFE), which sends
**GetBids** to many *buyer front ends* (BFE). Each BFE looks up signals in a
key-value service and calls its *bidding service* (**GenerateBids**, and
**GenerateProtectedAppSignalsBids**). The SFE then looks up scoring signals, asks a
k-anonymity service about the bids, and calls its *auction service* (**ScoreAds**).
In an auction of several sellers each component seller's SFE answers SelectAd with a
result of its own, and the top-level seller's SFE chooses among the results.
Every server is a gRPC callback server: one reactor object per request, callbacks
in any thread, `Finish` exactly once, and `OnDone` (`delete this`) after `Finish`
has been called and the handler has returned the reactor.

| Component | State | Operations | Interacts by | What is hard | Correct when |
|---|---|---|---|---|---|
| `common/util/async_task_tracker` | counters under a mutex, a one-shot callback | `SetNumTasksToTrack`, `TaskCompleted` | called from every RPC callback; calls the reactor back without the lock | last task decided under the lock, acted on outside; callback may delete the tracker | one callback, after every closure, with the right summary |
| SFE `SelectAdReactor` | buyers, bids, two trackers, signals, k-anon hashes | `Execute`, `FetchBids`, `OnFetchBidsDone`, `OnAllBidsDone`, `FetchScoringSignals`, `QueryKAnonHashes`, `ScoreAds`, `OnDone` | GetBids, KV and ScoreAds RPCs; executor; `invoked_buyers_cache`; `KAnonCacheManager` | parallel buyers, parallel fetches, cancellation anywhere, cap, chaff, replay | finished once, after all it waits for; every buyer accounted for; replays ask the same buyers |
| SFE k-anonymity cache | two sharded LRU caches | `AreKAnonymous` | callback into the reactor, then insertion | requests interleave shard by shard, the service fails in part | statuses as the service said; capacity, expiry |
| SFE response encoding | none | `GetNonEncryptedResponse`, `Encode`, `EncodeComponent`, `AdScoreToAuctionResult` | result read by browsers, apps and the top-level seller | three forms of one result, maps of fixed capacity, order of keys | the client reads what the auction came to |
| Debug reports of buyers | size of the URLs so far; reports per origin | `ValidateBuyerDebugUrls`, `PerformDebugReporting`, `MergeSellerDebugReportsToResponse` | bidding service, pings, the client, the seller's own reports | sampling twice remembered, limits by mode, a seller who is a buyer | limits kept, failed sampling known to the client, second-highest bid told to the winner only |
| SFE private aggregation | per request | filters of contributions in three servers, `CborSerializePAggResponse` | scripts, ScoreAds, the client | contributions are known by bid, group and event in turn | what happened is contributed and nothing else |
| SFE `SelectAuctionResultReactor`, `GetComponentAuctionCiphertextsReactor` | per request | decrypt, validate, merge, score, answer | ad server in between | results dropped, repeated and mixed | a result scored once, for its request; groups of every bidder |
| `common/chaffing`, SFE and BFE chaffing | windows of samples, shared by requests | `AddNumber`, `GetMedian`, `IsWindowFilled` | reactors | window read in steps while others sample | median of the window; chaff like real |
| BFE `GetBidsUnaryReactor` | raw request, tracker, errors | `Execute`, `ExecuteChaffRequest`, V1/V2/hybrid lookups, two bidding calls | KV and bidding RPCs; timer for chaff | count of calls against calls made; three paths to signals | finished once; every counted call made and reported |
| Bidding service | bids per interest group, UDF statistics | generate-bids reactors, BYOB client, PAS chain | code sandbox, ad retrieval | parallel executions in the binary reactor | response once, after all executions |
| Inference sidecar, model fetcher | model maps and inference counts; model entries; contexts of calls | put, get, reset, delete; periodic fetch, grace period; `runInference()` | gRPC between processes, timers, threads of scripts | reset against registration, grace period against re-registration, cancellation against new calls, calls that cannot be cancelled, errors of one inference in a batch | a used model is reset, a listed model kept, each inference answered in its place |
| Auction service | ads, scores, reports | `ScoreAds`, reporting chain | code sandbox, private aggregation | chain of callbacks with optional links; ads known by four indices | best score wins, reports speak of it, response once |
| Reports of a win | the document made for the seller; the response | `PerformReporting...`, `ReportResultCallback`, `ReportWinCallback` | scripts of the seller and the buyer in turn | one document edited for two parties, four scopes, two ways of running the code | each party told what it may know, rounded; URLs kept apart |
| `common/cache` | map, recency list, timers | `Query`, `Insert`, `Evict`, expiry | event-loop thread, executor | expiry queued while the entry is refreshed or evicted | capacity, recency, time to live |
| HTTP fetchers | bounded queue, workers, curl handles | `Enqueue`, `Dequeue`, expiry, shutdown | event loop, workers, callbacks | expiry order, callbacks under the lock | each request answered once |
| Periodic and blob fetchers, UDF and egress managers | last blob, timer | `Start`, `End`, `OnFetch` | timers, HTTP or blob storage | `End` against a fetch that re-arms the timer | newest good version loaded |
| gRPC and KV clients | contexts, channels | `ExecuteInternal` | callbacks | cancellation of contexts | callback once or error at once |
| Configuration, keys, encryption, attestation, metrics, loggers, compression, reporting utilities, deployment | none that requests change | conversions | | | tested case by case |

`PROJECT.json` lists each component with its sources and status, and every hazard
with its line and the properties aimed at it.

## 2. Plan

Most important behaviour first; all of these are done.

1. `TaskCounters`, `CompletionBarrier`, `AsyncTaskTracker`, and their proofs. Most request reactors wait through this class. Abstract: the barrier. Detailed: lock, counters, threads.
2. `SelectAd`: the longest protocol, on top of the tracker's atomic steps.
3. `GetBids`: the other end of the SFE's RPC.
4. `Cache`, `KAnonCacheManager`: recency, capacity and expiry; two requests
   through the two sharded caches.
5. `HttpFetcher`, `PeriodicUrlFetcher`: both fetchers with their queue, workers and
   destructors; one periodic fetcher on top.
6. `V8Dispatcher`, `ScoreAds`: batches, ranking against its definition, reporting;
   `WinReporting`: the data of the reports.
7. `UnaryReactor`, `GenerateBids`, `GenerateBidsBinary`, `BiddingService`: the four
   bidding reactors, with ad tech code in V8 or as a binary.
8. `ModelStore`, `PeriodicModelFetcher`, `BatchInference`.
9. `UdfFetch` and `FetchModes`: how the services get code and schemas.
10. `MultiSellerAuction`; `MovingMedian` with `SellerChaffing` and `BuyerChaffing`.
11. `PrivateAggregation`, `BuyerDebugReports`, `AuctionResult`: what the client is told.

Next would come the decoding and
validation of requests, and the cancellation of contexts in
the gRPC client.

Proofs, in this order: the tracker, `SelectAd`, `GetBids`, `BiddingService`,
`PeriodicModelFetcher` with `ModelStore`, `PeriodicUrlFetcher` with `HttpFetcher`,
`BatchInference`, `UdfFetch`, `MultiSellerAuction`, the k-anonymity caches and the windows
of chaffing; all of these are done (section 6). The
theorems that would come next are the parts of `ReportsMatchOutcome` that do not go over
all ads, and that reports of a win keep their URLs apart. These modules were written
without RECURSIVE operators for that.

## 3. Modules and the code

No module models bytes, encryption, logging or metrics. A message is the facts the
control depends on.

The `MC...` modules put several components side by side. Components that share no state,
or of which one takes only the outcome of the other, would only multiply each other's
states if their steps interleaved; a variable `part`, chosen in the initial state, says
which of them takes steps, while the others stay as they began:

| Module | Parts |
|---|---|
| `MCFrontEnds` | `SelectAd`; `GetBids`; contributions (`PrivateAggregation`); debug reports (`BuyerDebugReports`); result (`AuctionResult`) |
| `MCSharedState` | tracker (`AsyncTaskTracker`); k-anonymity caches (`KAnonCacheManager` over `Cache`); windows of the seller and of the buyer (`SellerChaffing`, `BuyerChaffing`) |
| `MCAuctions` | `ScoreAds`; `MultiSellerAuction`; reports of a win (`WinReporting`) |
| `MCFetchers` | `PeriodicUrlFetcher` over `HttpFetcher`; `UdfFetch` |
| `MCBiddingServer` | `BiddingService`; `PeriodicModelFetcher` over `ModelStore`; `BatchInference` |

Their configurations give the constants values. Of a part that is extended the runs check the
properties themselves; a part that is an instance has them under a name of the `MC...`
module, where `...InBoth` is a conjunction over two parts and `...Then` is restricted to
the part. So that `MCBiddingServer` and `MCFetchers` can extend their parts, the
specification of each has names of its own (`FetcherSpec`, `InferenceSpec`, `CodeSpec`).
`MCSharedState` has instances under the names of their users, `Seller`, `Buyer` and `KAnon`,
with the constants of each as its own.

**`TaskCounters`** holds the fields of `AsyncTaskTracker` that `mu_` guards as one
record: `Tracking(n)` is `SetNumTasksToTrack`, `Counted(tr, s)` the switch of
`TaskCompleted`, `AnyTaskSuccessfullyCompleted` the function of that name. All
reactor models that wait for several tasks use it, so that they share the code's arithmetic.

**`CompletionBarrier`** is the promise of the class comment: tasks complete in any
order; once all have, the callback is called once, with `Summary`. No lock and no
counter appears in it.

**`AsyncTaskTracker`** has one thread per task, and one action per stretch of
`TaskCompleted` that another thread can observe:

| Action | Code in `async_task_tracker.cc` |
|---|---|
| `SetNumTasksToTrack(S)` | 95-107; in the reactors always before a task starts, possibly twice |
| `TaskCompleted(t, s)` | entry, 42-46 |
| `Lock` | `MutexLock`, 49 |
| `OnSingleTaskDone` | the closure, 54-56 |
| `Count` | counters and `is_last_response`, 58-85 |
| `Unlock` | end of the block, 86 |
| `OnAllTasksDone` | 90-92, in this thread, without the lock |

A second `SetNumTasksToTrack`, as both reactors make it, is allowed until the first
task starts.

**`SelectAd`** is one reactor from the handler's call of `Execute` to `OnDone`,
followed by a replay: the same ciphertext in a new reactor, which shares
`invoked_buyers_cache` with the first. `exec` is the handler's thread (`FetchBids`
is a loop during which buyers may answer already), `rpc[b]` a buyer's RPC, `chain`
the one sequence of callbacks that the last bid starts, `kv` and `kanon` the two
parallel fetches, `finishes` the calls of `Finish`. The trackers' steps are atomic
here; module `AsyncTaskTracker` is why they may be: between a thread's entry and
the callback no other step can tell the difference, since the callback runs in a
step of its own (`chain = "bidsDone"`, `"signalsDone"`), as late as it likes.
`Cancelled` is looked at wherever the code or its wrapper does, and the client may
cancel at any time. `conf` holds the flags, constant for a server: cancellation,
k-anonymity, signal fetch, V2 lookup, missing client, chaffing, cache. The
closures run on the executor are steps of their own. Where k-anonymity is
enforced without a fetch of signals, the query runs in the thread of
`OnAllBidsDone`; the step between the two changes nothing, as nothing else is under
way then.

**`GetBids`** is one reactor of the buyer: `Task` are the two bidding calls,
`rpc["PA"]` goes from a lookup (`"v1"`, `"v2"`, or V1 then V2 for a hybrid) to
`"prepare"` and `"bidding"`. `ForBidding` is the request's second field after the
conversion in `CancellableExecute`, `GetNumberOfMaximumBiddingCalls` the count
before it. `CreateGetBidsRequest` is what the SFE puts into these fields, so that
requests come from a seller of this repository; the MC module adds the forms that
have only one of the fields, which the code handles for older and newer sellers.

**`Cache`** is `cache.h` at the grain of `cache_mutex_`: `Query`, `Insert` with
eviction, and expiry are operators on the state of one cache, a sequence of entries in
order of recency, each with what its timer is doing. A timer fires on the event loop
(one thread for all caches) and puts a closure on the executor, which looks at the
entry again under the mutex. **`KAnonCacheManager`** has the two caches of hashes, each
in shards, as its users see them: a request queries shard by shard, asks the service
about what is left, calls the reactor back and inserts shard by shard. It assumes that
the hashes are still valid at the insertion, which a hazard questions.

**`HttpFetcher`** has the fetcher with a bounded queue and workers, whose tickers expire
requests in another thread, and the one without a queue, which adds transfers to a
session from the caller's thread; both call back once per request, and `FetchUrls`
counts the results of a batch. **`PeriodicUrlFetcher`** runs on it: fetch, wait, compare,
load, arm the timer; `End` and the destructors come at any time.

**`V8Dispatcher`** is `BatchExecute`: requests are handed to Roma one by one, the first
refusal ends the batch without a callback, later ones are retried; the threads of Roma
store a response and count it. **`ScoreAds`** is one request in each auction scope
(single seller, component auction, top level, server component): which ads are
dispatched, the verdicts of ad tech code (any of a set), `FindWinningAd` with its
comparisons as ints, ghost winners, debug reports, private aggregation contributions
and the chain of reporting batches. Scores are in halves, so that a truncated score
differs from its value. A request is told to be a top-level auction by its results, as
in the code: one without results is not.

**`WinReporting`** takes the chain of reporting from `ScoreAds` and adds its data: a
document is a sequence of members, as `AddMember` appends, and `seller_device_signals_` is
one variable that the seller's functions make and the buyer's take over. Numbers that are
rounded are naturals, of which `K` bits are kept; one draw stands for all numbers of a
document. The deprecated entry function, which the server still has beside the isolated
code but does not choose, is the second half.

**`UnaryReactor`** is what the bidding reactors share: the RPC, whose `Finish` before gRPC
has the reactor only keeps the status, decryption in the constructor (after whose
failure `Execute` still goes on), encryption at the end (whose failure finishes the RPC
twice). **`GenerateBids`** adds the V8 reactors: the batch of Protected Audience and the
chain of prepare, look-up of ads and generation for app signals.
**`GenerateBidsBinary`** adds the binary ones: runs dispatched one by one with a tracker
and statistics that their threads share, or by `GenerateBidByobDispatchClient` as a
batch that holds a thread of the executor, up to a limit of pending batches.
**`BiddingService`** composes the two by the service's `udf_mode`. Three differences
between the paths are modelled as they are in the code: one by one, a run that is not
started counts as a success, so that a request none of whose runs was started is
answered OK without bids, where a batch answers RESOURCE_EXHAUSTED; a run with more than
`multi_bid_limit` bids is an error one by one and a success in a batch; and `OnCancel`
for app signals cancels the contexts of the superclass, which that reactor does not use.

**`ModelStore`** is the store of the inference sidecar: its locks are taken one after the
other, only `model_data_mutex_` over several steps; the reset thread lists models,
takes a count, builds a fresh model and puts it in the map; an inference is counted
before (proto requests) or after (JSON requests) it has its model.
**`PeriodicModelFetcher`** polls the configuration: deletions, some after a grace
period, then downloads and registrations, one RPC at a time under
`model_entry_mutex_`. An RPC fails before the sidecar acts or because the sidecar must
refuse. A crash of the sidecar and `End` are left out.

**`BatchInference`** is `runInference()` from a script to the modules of the sidecar and
back. A batch is a sequence of inferences, each with what is wrong with it: it may not
parse, name no model, have values its type cannot hold, fail, or give outputs that have no
form in the answer. `Kept` says what a loop that passes over some elements keeps of a
sequence, place by place. In JSON the sidecar parses it; in protocol buffers the bidding service
does, sends what parses, keeps the errors of the rest by their index, and merges the
two (`MergeBatchResponse`). `client[c]` and `server[c]` are the two ends of a call, with
one task for each inference in its own thread; `TryCancelAll` is two steps, as its flag is
not set under the mutex. A call may fail at any time after it was made: its deadline, a
cancelled context and a sidecar that is gone look the same to the script. Only
`generateBid` scripts are given the `CancellableGrpcContextManager` of the request
(`HasManager`). A call of `prepareDataForAdRetrieval` (`PreparationCalls`) gets a plain
`grpc::ClientContext`, whether the request is cancelled or not: it has no deadline, fails
only if the sidecar is gone, and Predict never finds it cancelled. Of one request these
calls come first (`ScriptRuns`).

**`UdfFetch`** has the fetchers that a bidding or auction service starts, one after the
other, in each fetch mode; what the managers' `Init` makes is in **`FetchModes`**
(`BuyerCodeFetchers`, `SellerUdfFetchers`, `BuyerReporting`, `EgressSchemaFetchers`). `poll[i]`
is one poll or the timer; `cachedCode` is what fetchers of URLs compare with, `loadedCode`
what Roma or the schema cache has. `published` is what a source holds at the moment: present, empty,
refused by the loader, or gone. `scoped` marks fetchers that end with the block that
made their manager, as those of egress schemas do in `bidding_main.cc`; `ScopeEnds` is
that end.

**`MultiSellerAuction`** is an auction on several servers: the ciphertexts made for the
component sellers, the results the ad server comes to have of them (`Available`: winners,
chaff and errors, also of other requests, any number of times up to `MaxResults`), and
the top-level request with its checks in their order, the merge of the groups and
updates of the sellers, the call of the auction service and the answer. What the auction
service does is here a status and a winner; `ScoreAds` has it in detail. A top-level
request that cannot be decrypted ends the server (`"crashed"`): its error is encrypted
with a context that is null then.

**`MovingMedian`** is the window kept in the order of arrival and sorted, with the
iterator `mid_` moved at each insertion and removal, as operators.
**`SellerChaffing`** and **`BuyerChaffing`** are its users under chaffing V2, over several
reactors at once: a reactor asks for the status of a window and for its median in
separate steps, between which others sample it.

**`PrivateAggregation`** follows the contributions of a single-seller auction through
the bidding service, the auction service, the SFE and the client, one action per
handler: which are dropped, to which event and interest group they are assigned, which
reach the limit, and what is encoded and decoded. Of a value it is modelled whether it can
be computed. **`BuyerDebugReports`** follows the debug URLs of each bid: `Validate` is one
call of `ValidateBuyerDebugUrls` in either bidding reactor, `EndAuction` the post-auction
signals, `PerformDebugReporting` and `MergeSellerDebugReportsToResponse` the functions of
these names. A URL is its number of characters and what is put into it; sampling may go
either way for each. The seller's reports are those `ScoreAds` makes.
**`AuctionResult`** is the response: `HighScore` and `Ghosts` are what
`OnScoreAdsDone` takes from the scores, `Encoded` and `Mapped` the CBOR map and the
proto, down to every nested map with its capacity and its keys in the order they are
added; `Decoded` is the repository's decoder. Texts are `<<field, ad>>` and a
hash stands for what it is made of, so that a field of the wrong ad, or in the wrong
place, is seen.

Steps that would run on a deleted reactor are not taken (their guard has
`~deleted`): the language gives them no meaning. The properties say whether such a
step can be due.

## 4. Runs

| Run | Result | Question |
|---|---|---|
| `front_ends` | passes, 266,876 states | is each request of a front end finished once, after all its RPCs, with every buyer and call accounted for, whatever fails or is cancelled, and does the client read and contribute what happened? |
| `shared_state` | passes, 191,403 states | does the tracker implement the barrier; do caches and windows that requests share keep their promises under any interleaving? |
| `auctions` | passes, 193,045 states | does the best ad win, do all reports speak of it, are the parties told what they may know, and is an auction of several sellers held over the right results? |
| `fetchers` | passes, 309,959 states | is each HTTP request answered once, through expiry, full queues and shutdown, and does a service run the code that is published? |
| `bidding_server` | passes, 842,094 states | is each bidding request answered once, with a status that says what happened; are the listed models kept, and only those; is every inference answered in its place? |
| `select_ad_kanon` | violated | does a finished request wait for its k-anonymity query? |
| `score_ads_contributions` | violated | do the contributions of a win go to the winner? |
| `egress_schemas` | violated | are the egress schemas fetched again? |
| `chaff_results` | violated | are component results that are chaff left to the auction service? |
| `buyer_chaffing_generator` | violated | does a full window of a buyer take more samples? |
| `ghost_winner_signals` | violated | are a ghost winner's contributions signalled? |
| `component_result_metadata` | violated | do a component seller's metadata and currency reach the top-level seller? |

What the passing runs check, besides type invariants:

* `front_ends`: `FinishedOnceAndLast` (one `Finish`, nothing of the request under
  way once the reactor is deleted), `FailureIsReported`, `AllBuyersAccountedFor`,
  `ScoredWithSignalsAndKAnon`, `ReplayAsksTheSameBuyers` of `SelectAd`;
  `BuyerAnswersOnceAndTruly` (`FinishedOnceAndLast` and `OkMeansAnswered` of `GetBids`);
  `EventuallyFinishedInBoth`; `ContributionsFollowTheAuction`;
  `ClientReadsTheAuction` (with `KeysInCanonicalOrder`); `DebugReportsKeepPromises`
  (limits, sizes, cooldowns, each URL once, and who learns the second-highest bid).
* `shared_state`: `DChecksHold` (both DCHECKs), `ResponsesMergedBeforeCallback` and
  `ImplementsBarrier` (refinement, with the fairness half) of the tracker;
  `AnswersComeFromTheService`, `BatchIsCached` and `EntriesExpire` of the caches, whose
  type invariant holds `CachesOK` (capacity, no key twice, a timer for every entry);
  `ChaffFollowsTheWindows` (the medians, and the chaff made with them). `TypesOK` holds
  the tracker's inductive invariant `IInv`.
* `auctions`: `BestAdWins` (against a definition by quantifiers), `ReportsMatchOutcome`;
  `ScoredOnceAndForThis`, `GroupsOfEveryBidder`, `ProperAuctionIsAnswered`;
  `ReportsTellWhatTheyMay` (no secrets for the buyer, no member twice, one identity that
  the response repeats, numbers rounded, URLs with their owners);
  `FinishedExactlyOnceInBoth`.
* `fetchers`: `EachIsAnsweredOnce`; `ServerHasItsCode` (of every fetcher, and reporting
  functions for their auction); `FetchesEndAndCodeFollows`.
* `bidding_server`: `CallbacksFindTheirState` (neither a reactor nor a batch ends before
  what calls back into it), `StatusMatchesOutcome`, `EveryRequestAnswered`, with the bound
  on pending batches in the type invariant; `MapsAgree` (models, counts and copies of the
  store), `NoUseForgotten` (no inference escapes the count that resets its model),
  `ModelsFollowListing`; `AnswersMatchInferences` (each in its place, with the first
  thing that is wrong with it) and `CancellationReachesCalls` (of `generateBid` scripts; see
  section 5 for the others).

**Bounds.** *Tracker*: three tasks, one that is last, one that races it and one in
between, so that a "last but one" mistake differs from a race. *SelectAd*: three buyers
with a cap of two, one without a report-win URL: a request can hold real, chaff and
skipped buyers at once, and bids without k-anonymity hashes; a first request and its
replay; eleven of the flag combinations, as flags that guard disjoint parts of the code
are not multiplied. *GetBids*: its two tasks are the code's; the requests and
configurations name every path to the signals. *Contributions*: two auctions of three
bids with every event, one with more contributions than the limit of two. *Debug reports*:
three and four bids of two buyers, of whom one may be the seller, with URLs too long alone
and together, in each mode and scope. *Results*: 424
auctions over every client and scope, won by an ad with every field that may be set, by
one with the least, or by none, with up to two ghost winners. *Caches*: three hashes of which a request asks for two, one
cache with a shard of two and one with two shards of one, and two requests, so that an
entry can be evicted, refreshed and expire while another request is between query and
insertion. *Windows*: two samples for the seller (an even window, whose median is an
average), three for the buyer; two reactors each. *HTTP*: two workers, a queue of two,
batches of two and one URLs and a single request, two rounds of the periodic fetcher.
*ScoreAds*: batches of three ads (two may tie and one not), five verdicts, three
deployments. *Reports of a win*: twenty wins over every scope, every set of reporting IDs,
both kinds of ads and both ways, with numbers of two bits that are exact, between two, too
small, and beyond or next to infinity. *Several sellers*: two sellers, one with two spellings, three results, two
buyers of whom both sellers ask one. *Bidding*: V8 with three interest groups and app
signals with and without contextual look-ups; binaries with one or two interest groups,
two requests at the limit of batches or sharing one thread (the second cannot be
decrypted, and has nothing to run). *Inference*: every pair of thirteen inferences, triples with an error of parsing
first, none, no batch at all, two calls at once, and calls of `prepareDataForAdRetrieval`
with and without a call of `generateBid` after them, over both modules and forms. *Models*: two models, two
contents of which one has a grace period, two configurations (the first model in that
content; both, with the first in the other), two changes, one failure, one inference. *UdfFetch*: two fetchers with at most two sources, contents that are good
(two), empty and broken, two changes, one failure: a source can change and change back,
or fail to be read or loaded between two changes.

**Deadlock** is not checked where a request that is over, or a service whose start has
failed, takes no further step; the liveness properties say that none stops earlier.

**Fairness.** Threads inside `TaskCompleted` are scheduled and a mutex is passed on,
hence weak fairness of each thread (`Lock` is enabled again after every unlock, and
each thread locks once, so a thread cannot be overtaken for ever). In the reactor
models every RPC and lookup carries a deadline after which its callback runs
(`GET_BID_RPC_TIMEOUT_MS`, `KEY_VALUE_SIGNALS_FETCH_RPC_TIMEOUT_MS`,
`SCORE_ADS_RPC_TIMEOUT_MS`, `bidding_signals_load_timeout_ms`,
`generate_bid_timeout_ms`), and each step happens at most once per request, so weak
fairness of their disjunction gives each of them. Runs of ad tech code have timeouts of
Roma's, and transfers have curl's; executor and event loop run what they are given. The
ticker that expires the queue of HTTP requests is *not* assumed to tick. Polls of models
are at least a minute apart (`kMinModelFetchPeriod`), so the end of a grace period gets
its mutex between two of them: strong fairness of `GracePeriodEnds`. Nobody has to cancel,
replay, give results, ask for an inference or publish anything; chaffing, contributions
and results have no liveness properties and no fairness. In the `MC...` modules, where one
part takes steps in a behaviour, fairness of a step of any part stands for fairness of
each. Every request of a behaviour is there from its start: `FinishedExactlyOnceInBoth` and
`FetchesEndAndCodeFollows` say what comes to hold and stays so, `EveryRequestAnswered` what
comes to hold and no step undoes.

**Exceptions stated in the properties**: requests that cannot be decrypted, and
responses that cannot be encrypted (`CallbacksFindTheirState`,
`FinishedExactlyOnceInBoth`); a V2 lookup that is not made (`EventuallyFinishedInBoth`);
handles left dangling by the direct fetcher, and requests that destructors drop
(`EachIsAnsweredOnce`); inferences on a model that was never counted (`NoUseForgotten`); a
version whose last load failed, a bucket whose client refuses a request, and lists of
`reportWin()` URLs with one left out (`UdfFetch`); the URLs of a component seller alone,
several bids of a component winner's group (`WithinLimits`), the ghost winners
of a proto without a winner (`ClientReadsTheAuction`), and `modifiedBid` by the deprecated
entry function (`ReportsTellWhatTheyMay`). Each is a
hazard of `PROJECT.json` or a divergence of section 5.

## 5. Findings

Each is a behaviour of the code against a sentence of the repository, quoted in
`PROJECT.json`, and has a run that shows it.

1. **`KAnonQueryAwaited`** (`select_ad_reactor.cc:1221`). The k-anonymity query is put
   on the executor as a closure over the reactor, in parallel with the fetch of the
   scoring signals. If the client has cancelled meanwhile, or the V2 lookup fails,
   the RPC is finished and the reactor deleted without waiting for the closure or
   for the query's callback.
2. **`WinContributionsOfTheWinner`** (`score_ads_reactor.cc:1773`). The id of the winner
   is read from the batch at the place the winner has in the ranking: the private
   aggregation contributions of a win may be those of another ad.
3. **`SchemasFollowPublishedThen`** (`bidding_main.cc:663`). The manager of the egress
   schemas is a local of the block that calls its `Init`; its destructor ends the
   fetchers, so that the schemas of the start are used for ever.
4. **`ChaffReachesAuction`** (`proto_mapping_util.cc:465`). Chaff and error results of
   component sellers have no seller's name, and two of them count as two results of one
   seller: the whole auction is aborted.
5. **`SamplingGoesOn`** (`get_bids_unary_reactor.cc:958`). A request that is neither chaff
   nor sampled for debugging has no random generator, which `AddNumber` needs as soon as
   the window is full.
6. **`GhostWinnersSignalTheirLoss`** (`k_anon_utils.cc:85`). The contributions of a ghost
   winner lose their event when they are processed, and are then chosen by it.
7. **`TopLevelSellerGetsMetadata`** (`proto_mapping_util.cc:57`). The proto of a server
   component's result leaves out the metadata and the currency that its script set for
   the top-level seller's `scoreAd()`, which is given both fields.

Divergences that the passing runs name as exceptions, or have as they are in the code:

* *Never answered.* A V2 lookup of scoring signals that cannot be built or sent
  (`select_ad_reactor.cc:1414`, `1435`), or of bidding signals without keys
  (`get_bids_unary_reactor.cc:728`), is not reported to the tracker.
* *A buyer bids unasked.* A seller without Protected Audience clears the interest groups
  in one of two fields (`select_ad_reactor.cc:962`); the buyer restores them from the
  other (`get_bids_unary_reactor.cc:440`) and bids for them.
* *After the end.* Other places where a step may come after the reactor's end
  (`HandleV2Failure`, the V2 scoring callback, `PerformReporting`, the insertion into the
  k-anonymity caches) are listed as hazards: no document says what they should do.
* *Several sellers.* A top-level auction of only chaff is answered INVALID_ARGUMENT
  (`score_ads_reactor.cc:878`); a request that cannot be decrypted is answered through a
  null context (`select_auction_result_reactor.cc:314`).
* *Chaffing.* A failed RPC is sampled as a request of 0 bytes (`select_ad_reactor.cc:1074`).
* *Private aggregation.* Values computed from a bid are arbitrary for ghost winners, whose
  base values are not set (`private_aggregation_post_auction_util.h:39`); a value is
  truncated to an int before it is scaled; a group with a winner and a ghost winner loses
  contributions of its win; the names of custom events are lost.
* *Reports of a win.* By the deprecated entry function: the buyer of a component auction
  sees `modifiedBid` (`seller_code_wrapper.h:85`); a server component's URLs go to the
  field of the top-level seller, against the comment at `score_ads_reactor.cc:1824`, where
  the top-level auction does not look for them; an ad with a buyer's reporting ID on a
  server with protected app signals has no `reportWin()`, since `interestGroupName` is
  undefined and then trimmed (107); counts and recency are told as they are if the noise
  fails (`reporting_helper.cc:311`, 325). Isolated: a top-level seller is told a
  desirability of −1 if the rounding fails (`top_level_seller_reporting_manager.cc:63`);
  the second-highest bid is never rounded; the selected reporting ID does not reach the
  top level (`score_ads_reactor.cc:127`).
* *Debug reports.* The winner is known by owner and interest group: if that group bid
  several times in a component auction, each of its bids has a win report, beyond the
  limits of `reporting_util.h:120-141` (`WithinLimits` excepts it). Without a winner no loss
  has a reason, as the reasons come with the winner's score. A placeholder of the
  second-highest bid that is in the winner's URL twice is replaced by the default the
  second time (`reporting_util.cc:258-272`); the model has each once.
* *Join candidates.* They hash other reporting IDs than were queried for the bid: the
  selected ID never (`k_anon_utils.cc:122`), and none for ghost winners, whose scores
  have no IDs. A candidate of a buyer without a report-win URL takes the value of an end
  iterator, guarded by a DCHECK only (`k_anon_utils.cc:112`; stage `"undefined"`). The
  index of the winner is never computed and is always −1 (`data/k_anon.h:33`), which the
  repository's decoder reads as 0.
* *Reporting code.* URLs of `reportWin()` that are empty or malformed are skipped, but the
  auction of an answer is told by its place, counted among all configured URLs
  (`buyer_reporting_udf_fetch_manager.cc:253`): behind a skipped URL for Protected Audience,
  code for app signals is loaded as code for Protected Audience.
  `ReportsForTheirAuction` excepts lists with a skipped URL.
* *Inference.* With `INFERENCE_ENABLE_PROTO_PARSING` the PyTorch module still parses
  `input()`, which is empty, and answers with an error in a field that is not read: the
  script sees the errors of parsing only, or an empty list. In protocol buffers an output
  that cannot be expressed is left out, and its error, which is "to be propagated back to
  the JS caller", is shown only if no output is left (`request_proto_parser.cc:308`); in
  JSON it fails the whole batch. A cancelled task is reported as MODEL_EXECUTION.
* *Cancelling inference.* `cancellable_grpc_context_manager.h:34-37` offers to "forward the
  cancellation to all outbound calls" of a request. `prepareDataForAdRetrieval` is run with
  `Create()`, without the manager
  (`protected_app_signals_generate_bids_reactor.cc:611`), so that its `runInference()` takes
  the branch "for backwards compatibility" (`inference_utils.cc:389-392`): no
  cancellation reaches the call, and `inference_model_execution_timeout_ms` does not bound
  it. `CancellationReachesCalls` excepts these calls. Nothing says that this script is meant to be
  covered, which makes it no finding.
* *Encoding.* `paggResponse` is written before `debugReports`, out of canonical order
  (`web_utils.cc:590-598`; `KeysInCanonicalOrder` excepts this pair); the URLs of a
  component seller alone are dropped (`web_utils.cc:1997`); bids below the machine epsilon
  become zero (`cbor_common_util.cc:58-74`); ghost winners of a server component without a
  winner are dropped (`proto_mapping_util.cc:89`); a failed encoding finishes the RPC
  twice, or, in the top-level server, notifies a notification twice or waits for one that
  does not come (`proto_mapping_util.cc:136-158`). `ClientReadsTheAuction` shows that no
  encoding fails as the capacities are; a mutant with the capacity of an earlier
  version breaks it.

## 6. Proofs

Every theorem is about the module's own specification and holds for every value of the
constants that its assumption allows. `InductiveInvariant` is `Spec => []IInv`, from a
lemma for each action; each `IInv` was an invariant of a run before it was proved.

| Module | Theorems, besides `InductiveInvariant` | For any |
|---|---|---|
| `SharedStateProofs` on `AsyncTaskTracker` | `CountersAreExact`, `NoDCheckFails` (`DChecksHold`), `CallbackSeesEveryResponse` (`ResponsesMergedBeforeCallback`), `ImplementsBarrierSafety` | finite set of tasks (`TaskAssumption`) |
| `SharedStateProofs` on all of `MCSharedState` | `SharedStateIsInvariant`, `SharedStateTypesOK` (`TypesOK`), `NothingIsMadeUp` (`AnswersComeFromTheService`), `BatchesAreCached` (`BatchIsCached`), `ChaffKeepsToTheWindows` (`ChaffFollowsTheWindows`) | requests, hashes, shards, capacities, finite sets of hashes to ask for (`CachesAssumption`); auctions, reactors, sizes of windows, samples up to the fixed values (`WindowsAssumption`) |
| `SelectAdProofs` | `TypeCorrect`, `BuyersAccountedFor` (`AllBuyersAccountedFor`), `SignalsAndKAnonKnown` (`ScoredWithSignalsAndKAnon`), `ReplaysAreAlike` (`ReplayAsksTheSameBuyers`), `FinishedAtMostOnce` (`FinishedOnceAndLast`), `FailuresAreReported` (`FailureIsReported`) | finite set of buyers, cap, flags and number of requests (`SelectAdAssumption`) |
| `GetBidsProofs` | `TypeCorrect`, `FinishedOnceByTheLast` (`FinishedOnceAndLast`), `OkIsAnAnswer` (`OkMeansAnswered`) | requests and configurations; `GetBidsAssumption`, which gives their types, is not needed |
| `BiddingServiceProofs` | `TypeCorrect`, with the bound on pending batches, `NothingOutlivesItsReactor` (`CallbacksFindTheirState`), `StatusTellsTheOutcome` (`StatusMatchesOutcome`) | requests, numbers of runs, limits and threads (`V8Assumption`, `ByobAssumption`) |
| `InferenceProofs` on `PeriodicModelFetcher` (`Models...`) | `ModelsTypeCorrect`, `MapsAlwaysAgree` (`MapsAgree`), `UsesAreRemembered` (`NoUseForgotten`) | models, contents and configurations, finite set of inferences (`StoreAssumption`, `FetcherAssumption`) |
| `InferenceProofs` on all of `MCBiddingServer` | `ServerInvariant`, `ServerTypesOK` (`TypesOK`) | all of these |
| `InferenceProofs` on `BatchInference` (`Batch...`) | `BatchTypeCorrect`, `NoManagedCallEscapesCancellation` (`CancellationReachesCalls`), `EachInItsPlace` (`AnswersMatchInferences`) | scripts, calls, batches of any length, tensors and flags (`BatchInferenceAssumption`) |
| `FetcherProofs` on `PeriodicUrlFetcher` | `FetchInvariant`, `FetchTypeCorrect` with the bound on queues, `EveryRequestHasOneOwner` (`EachIsAnsweredOnce`) | batches without a request in common, rounds that ask for a batch once, capacity, finite set of workers, of either fetcher (`HttpFetcherAssumption`, `PeriodicAssumption`) |
| `FetcherProofs` on `UdfFetch` | `CodeInvariant`, `CodeTypeCorrect`, `StartedServicesHaveCode` (`ServerHasItsCode`) | fetchers with any lists of sources, contents, numbers of changes and failures (`UdfFetchAssumption`, which says what `FetchModes` makes of a configuration: only the list of buyers has URLs that are not asked for, and PA comes before PAS in it) |
| `FetcherProofs` on all of `MCFetchers` | `FetchersInvariant`, `FetchersTypesOK` (`TypesOK`) | all of these |
| `AuctionsProofs` on `MultiSellerAuction` | `ResultsAreScoredOnce` (`ScoredOnceAndForThis`), `ProperAuctionsAreAnswered` (`ProperAuctionIsAnswered`), `BrowsersLearnOfEveryBidder` (`GroupsOfEveryBidder`) | names of sellers, buyers and their groups, bids, updates, deployments and number of results (`SellersAssumption`) |
| `AuctionsProofs` on `ScoreAds` | `TheBestAdWins` (`BestAdWins`) | deployments, bids, requests and verdicts, batches of any length (`ScoreAdsAssumption`) |

In brackets is the property, if the theorem has another name. `TaskCountersProofs` has the
lemmas on `TaskCounters` and on finite sets that several of them need: what `Tracking` and
`Counted` do to each counter, the cardinality of subsets and intervals, and what a loop
that is written as a recursive function keeps (`Runs`). All assumptions are evaluated by the runs.

### The tracker

`SharedStateProofs` proves first, for any finite set `Task` and an owner `NoTask` that
is none of them (`TaskAssumption`):

| Theorem | Statement |
|---|---|
| `InductiveInvariant` | `Spec => []IInv` |
| `CountersAreExact` | `Spec => [](TypeOK /\ CountersMatchTasks)` |
| `NoDCheckFails` | `Spec => []DChecksHold` |
| `CallbackSeesEveryResponse` | `Spec => []ResponsesMergedBeforeCallback` |
| `ImplementsBarrierSafety` | `Spec => Barrier!BarrierSafety` |

The argument: `CountersMatchTasks` is not inductive, because a thread's local
`is_last_response` outlives the lock under which it was computed. `IInv` adds what
connects the two: the thread between `Lock` and `Unlock` is the owner of the lock
(`MutualExclusion`); only announced tasks call, and a task has a status from its
call on (`CallersAreTracked`); the merged tasks are those past their closure
(`MergedTasks`); at most one thread is the last, and only once every task is counted
(`LastIsUnique`), so that no later step changes the counters; and what it computed is
the barrier's `Summary`, which is the argument of the one call (`SummaryIsRight`).
Each action preserves each conjunct (one lemma per action); the cardinality facts
are lemmas on finite sets, and `AnyTaskSuccessfullyCompleted` of the counters equals
`Summary` of the tasks because a counter is positive exactly when some task ended so.
The refinement maps `Count` to `Complete`, the last thread's `OnAllTasksDone` to
`Fire`, `SetNumTasksToTrack` to `Announce`, and every other step to a stutter. The
sum that the DCHECK computes is kept by every step (`CountKeepsSum`).

### Caches and windows

`SharedStateInv` is the tracker's `IInv` with an invariant for each of the others; a step of
one part leaves the variables of the others as they are.

*Caches (`KInv`).* What a cache holds and what a caller was told must go back to `said`, and
between the two are the hashes a request carries: those found in the first cache, those
found in the second, and, once the service has answered, the arguments of the callback
(`GoodRequest`, `Called`). `said` only grows, so whatever others do meanwhile leaves a
request as good as it was. On the side of the caches the loops of `Query`, `Evict` and `Insert` are
functions of the number of turns made, and what they keep is shown turn by turn (`Turns`,
by induction over the naturals on the set of turns after which it holds, which needs no
operator as a parameter): the list has no key twice, is as long as `num_entries` says, each
of its entries has a timer or a closure, and its keys were there or in the batch
(`GoodCaches`). `Insert` stays within the capacity, although the room it makes
does not count which keys are there, because `full` ends the loop (`Within`). For
`BatchIsCached` the same loop is shown to have room for one more key at each turn of a
batch that fits (`Filled`), so that `full` is not set before the last.

*Windows (`SellerInv`, `BuyerInv`).* `MovingMedian` keeps the samples twice, in the order of
arrival and sorted, and moves the iterator `mid_` where a sample enters or leaves. The
invariant is that the sorted copy is in order and has each value as often as the queue
(`Copies`), and that `mid_` of a full window is at its half (`GoodWindow`). Then what
`GetMedian` returns is made of the samples of the middle ranks (`IsTheMedian`). The chaff rests on what a request knows between its steps. A window that
was seen full stays full, as samples replace samples. A median of the seller comes from
samples that were sent, or are 0 for an RPC that has failed, so that it is not greater than
all of them, nor less (`ChaffLike`). A buyer that found both windows full reads both
medians, and otherwise answers with both fixed values (`GoodAnswer`).

### The reactors

*SelectAd.* `AllBuyersAccountedFor` says what `pending` is once all requests are
dispatched; to keep it, every counter must be the number of buyers with that outcome, at any
point of the loop (`CountersMatchBuyers`), and the callback must be due exactly when nobody
is left to ask or to answer (`CallbackIsDueOnce`). Then `OnAllBidsDone` runs once, so that
`Finish` is called once by the chain (`FinishedAtTheEnd`), whose stages tell what is known of
signals and hashes (`ChainInOrder`, `SignalsTracked`). The plan of chaff and candidates
(`PlansFitInputs`) is what makes a replay meet no cap: those it has still to ask are of
those that were asked before (`ReplayFollowsThePlan`). The finding about the k-anonymity
query is no contradiction: `FinishedOnceAndLast` is about buyers, signals and scoring.

*GetBids.* Either nothing is tracked (`NothingTracked`: not yet, rejected, or chaff with
its timer) or `pending` is the number of tracked tasks that have not reported
(`BidsTracked`). The tracked tasks are defined from the request and the flags, as
`GetNumberOfMaximumBiddingCalls` counts them, and not from what was started: that each is
started, and so reports, is what is proved. `OK` after an early end is excluded by
`FinishedByTasks`. `FinishedOnceAndLast` excepts the V2 lookup without a client, which
finishes the RPC of both tasks (section 5).

*BiddingService.* Over V8 a batch has a response for each run that has stored one, and is
the current one exactly while its callback is awaited (`BatchOfRuns`); what was generated is
what the valid responses are for (`GeneratedByRuns`). Over BYOB the invariant is of each
call by itself (`CallInv`), for the number of interest groups it has: one by one, the tracker
counts the runs that are over by their status, and pending are those to be dispatched and
those running (`RunsOneByOne`); in a batch, the count of awaited answers is the number of
runs without one (`RunsInABatch`). `ClientCounts` joins the calls: the counter of pending
batches is the number of calls with a batch. The racy statistics enter as upper bounds
only, which is all the statuses need. For both, the RPC is finished in the step after which
the reactor waits for nothing (`FinishedWhenDone`, `FinishedWhenOver`), from which
`CallbacksFindTheirState` follows.

### Inference

*The model store and its fetcher.* `NoUseForgotten` is about a count that the reset thread
takes from an inference still running. It needs that no counter exceeds the inferences
that were counted (`CountsWithin`; so it never becomes the value that stands for none), that a
production copy in use is of a model the store has (`UsesFound`), and that what `ResetModel`
builds is what the store holds, as it keeps `model_data_mutex_` meanwhile
(`ResetterKnows`). `MapsAgree` also needs that a poll registers only models without an entry
(`PollKnows`).

*A batch.* `Stages` says where the client and the sidecar can be at once, and that the
sidecar goes on alone only for a client that has given up. `Served` says what each task may
have come to, inference by inference: the place of an inference in the request that was
sent is its `Rank` among those that parse. `MergeBatchResponse` is then right because the
inference at `k` takes the next unread answer, which is the one at its rank (`MergeMatches`,
with `RankOf` and `KeptAtRank` on the selection of positions); JSON, where the place is
the inference's own, needs that a task without an expressible output fails the batch.
Cancellation is the flag set before the contexts are gone through, and that a call with a
manager has no context but the manager's (`Cancellation`).

### HTTP

*Requests.* An owner of a request is a place of the code that will call its callback: a
queue, a worker, a posted transfer, a multi handle, a task of the event loop, or the answer
that has been given. `Owners` counts them, over all workers, as a sum of cardinalities; a
request that was made and not dropped by a destructor has exactly one (`OwnedOnce`). Each
step moves requests from one place to another, and the lemmas say by how much it changes
each term. The batch's counter is the number of its requests without an answer
(`BatchesCounted`), so that `allDone` is called at the last. `RunsInOrder` of the periodic
fetcher says that rounds that have not begun have asked for nothing, so that no request is
made twice.

*Code.* `Start` returns OK on account of `some_load_success_`, which a later load that
fails resets; so that the flag says nothing of a service that has started. What does is that
code is replaced and never removed, and that a fetcher has code when its flag is set
(`SuccessIsCode`) and, for good, once the start has gone past it (`CodeOfThoseBefore`).
That the place of an answer in the list of URLs tells its auction holds only if no URL was left out
(`LoadBuyerCodeKeeps`): the precondition of `ReportsForTheirAuction`, without which the
answers after the missing one are taken for another auction's (section 5).

### Auctions of several sellers

The results that are scored are those valid for this request, one for each seller
(`ResultsAreOfGiven`), and stay until the end, which is `ScoredOnceAndForThis`. The two
others are conditions on the answer, and part of `IInv` as they are. What the device is told
of a buyer is told of the bids of the sellers who took part (`GroupsOfBidders`), because a
result that names a seller carries the groups of that seller's bids; the updates of an
owner come from the first result that has some (`UpdatesOfOneSeller`), which exists as the
least place does: `Least` takes it from the well-foundedness of the naturals
(`NatLessThanWellFounded`), which is induction without an operator as a parameter. If each
seller has given one result, made for this request, no result is dropped and no check
fails (`ProperIsTaken`): two places with one seller would have been given by one. Then
every end but `OK` needs a cancellation or a failure, which `ProperAuctionIsAnswered` excepts.

### Scoring

`BestAdWins` says by quantifiers over the ads what `FindWinningAd` comes to by three loops and
a sort. Each loop is a recursive function, of which `Runs` (from `NatLessThanWellFounded`)
says that a set that holds the first value and is kept by every turn holds the last. The
loop that drops ads keeps a partition: what is before the index was not dropped, what is
behind the end was, and no ad is lost (`GoodScans`, `KeptAre`). The sort gives a sequence of what was kept
that descends (`Ranked`). The loop over it keeps `GoodCands`: a candidate to win is the best k-anonymous
ad so far, one to be a ghost the best ad of all, and no candidate means no ad of
a positive score. The loop compares the score of the last candidate with the next score cut
to an int. This adds no worse ad: the scores descend and the cut does not raise one
(`ScoreAsInt`), so that the two can only be equal if nothing was cut off. The outcome (`RightOutcome`) is then made once, from the verdicts, and the reports change
neither (`OutcomeStands`), so that `ScoringInv` is inductive.

### Only model-checked

* Liveness (`ImplementsBarrier` with its fairness, `EventuallyFinishedInBoth`,
  `FinishedExactlyOnceInBoth`, `FetchesEndAndCodeFollows`, `EveryRequestAnswered`,
  `EntriesExpire`, `ModelsFollowListing`): the prover handles neither ENABLED nor
  fairness.
* `ReportsMatchOutcome` of `ScoreAds`, about the chain of reporting and the loops that sample
  debug reports, and `TypesOK` of `MCAuctions`.
* `ClientReadsTheAuction`: `AuctionResult` declares a RECURSIVE operator (the order of keys
  at every depth of a map), and no proof reaches it; nor, as it is a part of the same module
  of the run, `TypesOK` of `MCFrontEnds`. `BuyerAnswersOnceAndTruly` is the conjunction of
  the two theorems on `GetBids`.
* The invariants of `WinReporting` (which count in powers of two), `PrivateAggregation`,
  `BuyerDebugReports`, which have no proofs yet; most go over
  sequences that are filtered or sorted.

## 7. Not modelled

* Decoding and validation of requests, encryption, compression, metrics, logging, debug
  info: conversions that keep no state, tested case by case.
* The features of egress schemas. Of reports: hosts, currencies and URLs of interactions;
  the probabilities of rounding and noise.
* The gRPC and key-value clients, beyond "fails at once or calls back once, later".
* Concurrent requests with one generation ID; data races on debug info, on the
  reactor's random generator and on statistics, which no property here tells apart.
* Inference: the sandbox process and its restart, `getModelPaths()`, the operators a
  TensorFlow model may have, `End` of the model fetcher.
* `End` of the code fetchers, whose race with a run is in `PeriodicUrlFetcher`;
  `BuyerReportingFetcher`, which the auction service never starts.
* Roma, curl, libcbor, the blob storage client and TensorFlow, which are taken at the
  promises the code relies on.
* Start-up apart from code fetching, deployment and cloud integration, which run before
  any request. The mains, headers and metric definitions are a third of the sources;
  they have declarations and flags but no behaviour to check.
