------------------------------ MODULE UdfFetch ------------------------------
(* How the bidding and auction services get the code of the ad techs and the *)
(* egress schemas: BuyerCodeFetchManager, SellerUdfFetchManager,             *)
(* BuyerReportingUdfFetchManager and EgressSchemaFetchManager start fetchers *)
(* one after the other (src/services/common/data_fetch and its subclasses);  *)
(* each polls URLs or a bucket on the executor and loads what it gets into   *)
(* Roma or EgressSchemaCache. Module PeriodicUrlFetcher has the requests and *)
(* the shutdown of one such fetcher in detail; here a request has one        *)
(* answer. The auction service always isolates seller and buyer code         *)
(* (auction_main.cc:338), so that BuyerReportingFetcher is never started.    *)
EXTENDS Integers, Sequences, FiniteSets, SequencesExt, FetchModes

CONSTANTS
    Names,        \* ad techs, scripts or blobs
    Contents,     \* what a URL, a blob or a file holds
    Initial,      \* what the sources hold at first
    None,         \* it is not there, or nothing was loaded
    Empty,        \* a content without data, or without the required header
    Broken,       \* a content that Roma or the schema cache refuses
    Deployments,  \* the fetchers a service starts
    MaxFetchers,  \* bound on their number
    MaxChanges,   \* bound on the changes of what is published
    MaxFaults     \* bound on failing requests and loads

Auctions == {"code", "PA", "PAS"}

\* Where code is published, and the version it is loaded as: code of the
\* service's own ad tech or a schema, or a buyer's reportWin() for an auction.
Sources == Auctions \X Names

\* cpio and parc are the two builds of a bucket fetcher. requests are what one poll
\* asks for, audience is the number of configured PA URLs.
Fetchers == [kind : {"local", "url", "cpio", "parc", "buyers"}, sources : Seq(Sources),
             requests : Seq(Sources), schemas : BOOLEAN, audience : Nat]

\* Only the list of the buyers' URLs has some that are not asked for, and only it is
\* of two auctions, one after the other.
WellConfigured(f) ==
    /\ f \in Fetchers /\ ToSet(f.requests) \subseteq ToSet(f.sources)
    /\ f.kind = "buyers" =>
          \A k \in DOMAIN f.sources : f.sources[k][1] = IF k <= f.audience THEN "PA" ELSE "PAS"
    /\ f.kind # "buyers" =>
          /\ f.requests = f.sources /\ f.sources # <<>>
          /\ \A k \in DOMAIN f.sources : f.sources[k][1] = "code"

Scripts == [from : Sources, content : Contents]

ASSUME UdfFetchAssumption ==
    /\ {Initial, Empty, Broken} \subseteq Contents /\ Empty # Broken
    /\ None \notin Contents /\ None \notin Seq(Scripts)
    /\ MaxFetchers \in Nat /\ MaxChanges \in Nat /\ MaxFaults \in Nat
    /\ \A d \in Deployments :
          /\ d.scoped \in BOOLEAN /\ Len(d.fetchers) \in 1..MaxFetchers
          /\ d.fetchers \in Seq(Fetchers)
          /\ \A i \in DOMAIN d.fetchers : WellConfigured(d.fetchers[i])

VARIABLES
    conf,       \* the deployment
    published,  \* what each source holds
    changes,    \* changes so far
    faults,     \* failures so far
    starting,   \* the fetcher whose Start runs; past the last once Init is done, 0 if it failed
    poll,       \* for each fetcher the poll under way, or the timer
    success,    \* some_load_success_ of each fetcher
    cachedCode, \* what the fetchers of URLs and buyers compare with, per version
    loadedCode, \* what Roma or the schema cache has, per version
    rejected    \* versions whose last load failed

codeVars == <<conf, published, changes, faults, starting, poll, success, cachedCode,
              loadedCode, rejected>>

fetcher == conf.fetchers
Script(s, c) == [from |-> s, content |-> c]
Version(i) == fetcher[i].sources[1]
IsBucket(i) == fetcher[i].kind \in {"cpio", "parc"}
Started == starting > Len(fetcher)

RequestsOf(i) == fetcher[i].requests
NothingLeftOut(i) == RequestsOf(i) = fetcher[i].sources

Deployed == UNION {ToSet(fetcher[i].sources) : i \in DOMAIN fetcher}

NoAnswer == [s \in Sources |-> None]

CodeTypeOK ==
    /\ conf \in Deployments
    /\ published \in [Sources -> Contents \cup {None}]
    /\ changes \in 0..MaxChanges /\ faults \in 0..MaxFaults
    /\ starting \in 0..Len(fetcher) + 1
    /\ success \in [DOMAIN fetcher -> BOOLEAN]
    /\ DOMAIN poll = DOMAIN fetcher
    /\ \A i \in DOMAIN fetcher :
          /\ poll[i].pc \in {"unstarted", "get", "load", "timer", "ended"}
          /\ poll[i].waiting \subseteq ToSet(RequestsOf(i))
          /\ poll[i].remaining \in Nat /\ Cardinality(poll[i].waiting) <= poll[i].remaining
          /\ poll[i].next \in 1..Len(RequestsOf(i)) + 1
          /\ poll[i].results \in [Sources -> Contents \cup {None}]
    /\ \A v \in Sources :
          /\ cachedCode[v] = None \/ cachedCode[v] \in Seq(Scripts)
          /\ loadedCode[v] = None \/ loadedCode[v] \in Seq(Scripts)
    /\ rejected \subseteq Sources

Idle(pc) == [pc |-> pc, waiting |-> {}, remaining |-> 0, next |-> 1, results |-> NoAnswer]

\* A source may change before it is asked for the first time.
CodeInit ==
    /\ conf \in Deployments
    /\ published = [s \in Sources |-> IF s \in Deployed THEN Initial ELSE None]
    /\ changes = 0 /\ faults = 0 /\ starting = 1
    /\ poll = [i \in DOMAIN fetcher |-> Idle("unstarted")]
    /\ success = [i \in DOMAIN fetcher |-> FALSE]
    /\ cachedCode = NoAnswer /\ loadedCode = NoAnswer /\ rejected = {}

Fault == faults < MaxFaults /\ faults' = faults + 1

Publish ==
    /\ changes < MaxChanges /\ changes' = changes + 1
    /\ \E s \in Deployed, c \in Contents \cup {None} :
          c # published[s] /\ published' = [published EXCEPT ![s] = c]
    /\ UNCHANGED <<conf, faults, starting, poll, success, cachedCode, loadedCode, rejected>>

\* V8Dispatcher::LoadSync and EgressSchemaCache::Update: what they refuse
\* leaves the code of an earlier load in use.
Loadable(i, code) ==
    \A k \in DOMAIN code :
        /\ code[k].content # Broken
        /\ fetcher[i].schemas => code[k].content # Empty

LoadSync(i, v, code) ==
    \/ /\ Loadable(i, code)
       /\ loadedCode' = [loadedCode EXCEPT ![v] = code]
       /\ rejected' = rejected \ {v}
       /\ UNCHANGED faults
    \/ /\ IF Loadable(i, code) THEN Fault ELSE UNCHANGED faults
       /\ rejected' = rejected \cup {v}
       /\ UNCHANGED loadedCode

NothingLoaded == UNCHANGED <<faults, loadedCode, rejected>>

\* A timer does not fire before Start, which armed it, has returned, nor
\* before the scope of a fetcher ends: the period is more than a minute.
MayBegin(i) ==
    \/ poll[i].pc = "unstarted" /\ starting = i
    \/ poll[i].pc = "timer" /\ i < starting /\ ~(conf.scoped /\ Started)

-----------------------------------------------------------------------------
(* FETCH_MODE_LOCAL: a file is loaded once.                                  *)

LocalLoad(i) ==
    /\ fetcher[i].kind = "local" /\ MayBegin(i)
    /\ poll' = [poll EXCEPT ![i] = Idle("ended")]
    /\ IF published[Version(i)] = None
       THEN NothingLoaded /\ UNCHANGED success
       ELSE /\ LoadSync(i, Version(i), <<Script(Version(i), published[Version(i)])>>)
            /\ success' = [success EXCEPT ![i] = Version(i) \notin rejected']
    /\ UNCHANGED <<conf, published, changes, starting, cachedCode>>

-----------------------------------------------------------------------------
(* PeriodicUrlFetcher with its subclasses, and the reportWin() of buyers.    *)

FetchUrls(i) ==
    /\ fetcher[i].kind \in {"url", "buyers"} /\ MayBegin(i)
    /\ poll' = [poll EXCEPT ![i] =
                   IF RequestsOf(i) = <<>> THEN Idle("ended")
                   ELSE [Idle("get") EXCEPT !.waiting = ToSet(RequestsOf(i)),
                                            !.remaining = Len(RequestsOf(i))]]
    /\ UNCHANGED <<conf, published, changes, faults, starting, success, cachedCode, loadedCode,
                   rejected>>

AnswerUrl(i, s) ==
    /\ fetcher[i].kind \in {"url", "buyers"} /\ poll[i].pc = "get" /\ s \in poll[i].waiting
    /\ \E c \in {published[s], None} :
          /\ IF c # published[s] THEN Fault ELSE UNCHANGED faults
          /\ poll' = [poll EXCEPT ![i].waiting = @ \ {s}, ![i].remaining = @ - 1,
                                  ![i].results[s] = c]
    /\ UNCHANGED <<conf, published, changes, starting, success, cachedCode, loadedCode,
                   rejected>>

Answers(i) == [k \in DOMAIN RequestsOf(i) |->
                  Script(RequestsOf(i)[k], poll[i].results[RequestsOf(i)[k]])]

AllFetched(i) == \A k \in DOMAIN RequestsOf(i) : Answers(i)[k].content # None

\* A bug: only a change of the script is noticed, not of its WASM helper.
ScriptChanged(i) == cachedCode[Version(i)] = None \/ cachedCode[Version(i)][1] # Answers(i)[1]

Changed(i) == cachedCode[Version(i)] # Answers(i)

\* A failed load is remembered like any other: it is not repeated.
OnUrlFetch(i) ==
    /\ fetcher[i].kind = "url" /\ poll[i].pc = "get" /\ poll[i].waiting = {}
    /\ poll' = [poll EXCEPT ![i] = Idle("timer")]
    /\ IF AllFetched(i) /\ Changed(i)
       THEN /\ LoadSync(i, Version(i), Answers(i))
            /\ cachedCode' = [cachedCode EXCEPT ![Version(i)] = Answers(i)]
            /\ success' = [success EXCEPT ![i] = Version(i) \notin rejected']
       ELSE NothingLoaded /\ UNCHANGED <<cachedCode, success>>
    /\ UNCHANGED <<conf, published, changes, starting>>

OnReportingFetch(i) ==
    /\ fetcher[i].kind = "buyers" /\ poll[i].pc = "get" /\ poll[i].waiting = {}
    /\ poll' = [poll EXCEPT ![i].pc = "load"]
    /\ UNCHANGED <<conf, published, changes, faults, starting, success, cachedCode, loadedCode,
                   rejected>>

\* A bug: the first PAS request is taken for one of PA.
OneTooFar(i, k) ==
    <<IF k <= fetcher[i].audience + 1 THEN "PA" ELSE "PAS", RequestsOf(i)[k][2]>>

\* The auction is told by the place of the request, as if none was left out.
Target(i, k) ==
    <<IF k <= fetcher[i].audience THEN "PA" ELSE "PAS", RequestsOf(i)[k][2]>>

LoadBuyerCode(i) ==
    LET k == poll[i].next
        script == Answers(i)[k]
        v == Target(i, k)
    IN  /\ poll[i].pc = "load" /\ k <= Len(RequestsOf(i))
        /\ poll' = [poll EXCEPT ![i].next = k + 1]
        /\ IF script.content \notin {None, Empty} /\ cachedCode[v] # <<script>>
           THEN /\ LoadSync(i, v, <<script>>)
                /\ cachedCode' = [cachedCode EXCEPT ![v] = <<script>>]
           ELSE NothingLoaded /\ UNCHANGED cachedCode
        /\ UNCHANGED <<conf, published, changes, starting, success>>

AllBuyersLoaded(i) ==
    /\ poll[i].pc = "load" /\ poll[i].next > Len(RequestsOf(i))
    /\ poll' = [poll EXCEPT ![i] = Idle("timer")]
    /\ UNCHANGED <<conf, published, changes, faults, starting, success, cachedCode, loadedCode,
                   rejected>>

-----------------------------------------------------------------------------
(* PeriodicBucketFetcher: every blob of the bucket is a version of its own.  *)

BlobsRemaining(listed) == Cardinality(listed)

\* One build sends all requests, whose callbacks count blobs_remaining down;
\* a request that is refused at once has no callback. The other build has one
\* request at a time.
ListBlobs(i) ==
    /\ IsBucket(i) /\ MayBegin(i)
    /\ \/ Fault /\ poll' = [poll EXCEPT ![i] = Idle("timer")]
       \/ LET listed == {s \in ToSet(fetcher[i].sources) : published[s] # None}
          IN  \E refused \in IF fetcher[i].kind = "cpio" THEN SUBSET listed ELSE {{}} :
                 /\ faults' = faults + Cardinality(refused) /\ faults' <= MaxFaults
                 /\ poll' = [poll EXCEPT ![i] =
                                [Idle("get") EXCEPT !.waiting = listed \ refused,
                                                    !.remaining = BlobsRemaining(listed)]]
    /\ UNCHANGED <<conf, published, changes, starting, success, cachedCode, loadedCode,
                   rejected>>

InTurn(i, s) ==
    fetcher[i].kind = "parc" =>
        s = SelectSeq(fetcher[i].sources, LAMBDA b : b \in poll[i].waiting)[1]

\* What is listed may be gone by now. OnFetch runs under some_load_success_mu_.
AnswerBlob(i, s) ==
    /\ IsBucket(i) /\ poll[i].pc = "get" /\ s \in poll[i].waiting /\ InTurn(i, s)
    /\ poll' = [poll EXCEPT ![i].waiting = @ \ {s}, ![i].remaining = @ - 1]
    /\ \/ /\ published[s] \notin {None, Empty}
          /\ LoadSync(i, s, <<Script(s, published[s])>>)
          /\ success' = [success EXCEPT ![i] = @ \/ s \notin rejected']
       \/ /\ published[s] \in {None, Empty}
          /\ NothingLoaded /\ UNCHANGED success
       \/ /\ published[s] \notin {None, Empty}
          /\ Fault /\ UNCHANGED <<success, loadedCode, rejected>>
    /\ UNCHANGED <<conf, published, changes, starting, cachedCode>>

AllBlobsLoaded(i) ==
    /\ IsBucket(i) /\ poll[i].pc = "get" /\ poll[i].remaining = 0
    /\ poll' = [poll EXCEPT ![i] = Idle("timer")]
    /\ UNCHANGED <<conf, published, changes, faults, starting, success, cachedCode, loadedCode,
                   rejected>>

-----------------------------------------------------------------------------

\* The code of buyers is not waited for at the start.
StartedOk(i) == fetcher[i].kind = "buyers" \/ success[i]

StartReturns(i) ==
    /\ starting = i /\ poll[i].pc \in {"timer", "ended"}
    /\ starting' = IF StartedOk(i) THEN i + 1 ELSE 0
    /\ UNCHANGED <<conf, published, changes, faults, poll, success, cachedCode, loadedCode,
                   rejected>>

\* The end of the block that owns EgressSchemaFetchManager: the destructors of
\* its fetchers cancel their timers.
ScopeEnds ==
    /\ conf.scoped /\ Started
    /\ \A i \in DOMAIN fetcher : poll[i].pc = "timer"
    /\ poll' = [i \in DOMAIN fetcher |-> Idle("ended")]
    /\ UNCHANGED <<conf, published, changes, faults, starting, success, cachedCode, loadedCode,
                   rejected>>

\* A service whose Init fails ends.
Step(i) ==
    /\ starting # 0 /\ i \in DOMAIN fetcher
    /\ \/ LocalLoad(i) \/ FetchUrls(i) \/ OnUrlFetch(i) \/ OnReportingFetch(i)
       \/ LoadBuyerCode(i) \/ AllBuyersLoaded(i) \/ ListBlobs(i) \/ AllBlobsLoaded(i)
       \/ StartReturns(i)
       \/ \E s \in Sources : AnswerUrl(i, s) \/ AnswerBlob(i, s)

CodeNext == Publish \/ ScopeEnds \/ \E i \in 1..MaxFetchers : Step(i)

\* Requests have timeouts and the executor runs what it was given. Nobody has
\* to publish anything.
CodeFairness == WF_codeVars(ScopeEnds) /\ \A i \in 1..MaxFetchers : WF_codeVars(Step(i))

CodeSpec == CodeInit /\ [][CodeNext]_codeVars /\ CodeFairness

-----------------------------------------------------------------------------

\* The reportWin() that Roma has for a buyer and an auction is the one the
\* buyer publishes for it (BuyerReportingUdfFetchManager), unless a URL of the
\* list was left out: the answers behind it are taken for another auction's.
ReportsForTheirAuction ==
    (\A i \in DOMAIN fetcher : NothingLeftOut(i)) =>
        \A v \in Sources :
            v[1] # "code" /\ loadedCode[v] # None => loadedCode[v][1].from = v

\* Code of each URL or file, or of some blob of the bucket.
HasCode(i) ==
    /\ fetcher[i].kind \in {"local", "url"} => loadedCode[Version(i)] # None
    /\ IsBucket(i) => \E s \in ToSet(fetcher[i].sources) : loadedCode[s] # None

\* A service that has started (BuyerCodeFetchManager::Init and its like have
\* returned OK) has the code of each of its fetchers, and of the buyers' reporting
\* functions those of the right auction.
ServerHasItsCode ==
    /\ Started => \A i \in DOMAIN fetcher : HasCode(i)
    /\ ReportsForTheirAuction

\* A request that was refused at once: blobs_remaining.Wait() does not return.
Stuck(i) == poll[i].remaining > Cardinality(poll[i].waiting)

Current(s) == Script(s, published[s])

Follows(i) ==
    \/ fetcher[i].kind = "local"
    \/ /\ fetcher[i].kind = "url"
       /\ (\A s \in ToSet(fetcher[i].sources) : published[s] # None) =>
             /\ cachedCode[Version(i)] =
                   [k \in DOMAIN RequestsOf(i) |-> Current(RequestsOf(i)[k])]
             /\ Version(i) \notin rejected => loadedCode[Version(i)] = cachedCode[Version(i)]
    \/ /\ fetcher[i].kind = "buyers"
       /\ NothingLeftOut(i) =>
             \A v \in ToSet(fetcher[i].sources) : published[v] \notin {None, Empty} =>
                 /\ cachedCode[v] = <<Current(v)>>
                 /\ v \notin rejected => loadedCode[v] = cachedCode[v]
    \/ /\ IsBucket(i)
       /\ \/ Stuck(i)
          \/ \A s \in ToSet(fetcher[i].sources) :
                published[s] \notin {None, Empty, Broken} => loadedCode[s] = <<Current(s)>>

CodeIsPublished ==
    \/ starting = 0
    \/ /\ Started \/ Stuck(starting)
       /\ \A i \in DOMAIN fetcher : i <= starting => Follows(i)

\* Once nothing is published any more, each version that is fetched is what is
\* published, except one whose last load failed: URLs are loaded again only
\* when they change (periodic_url_fetcher.cc:84). A bucket whose client refuses
\* a request is polled no more.
CodeFollowsPublished == ~conf.scoped => <>[]CodeIsPublished

\* adtech_schema_fetcher.h:35 says of the egress schemas: "This class
\* periodically fetches the adtech schema from the configured URL and updates
\* the adtech egress schema cache with the fetched schema".
SchemasFollowPublished == conf.scoped => <>[]CodeIsPublished
=============================================================================
