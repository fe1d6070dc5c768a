---------------------------- MODULE HttpFetcher -----------------------------
(* The HTTP clients of src/services/common/clients/http. The front ends use  *)
(* MultiCurlHttpFetcherAsync ("queue"): a request waits in the bounded       *)
(* CurlRequestQueue of a random worker, whose thread hands it to the event   *)
(* loop of its MultiCurlRequestManager. The bidding and auction services use *)
(* MultiCurlHttpFetcherAsyncNoQueue ("direct"): the caller's thread adds the *)
(* request to one libcurl session itself. Results are delivered on the       *)
(* executor. FetchUrls asks for several URLs and collects their results.     *)
(*                                                                           *)
(* Time is left out: libcurl ends any transfer at any moment (each one has a *)
(* timeout), and a queue expires when its newest entry has waited too long.  *)
(* Nobody calls a fetcher that is being destroyed, as its class asks.        *)
EXTENDS Integers, SequencesExt

CONSTANTS
    Requests,  \* calls of FetchUrl and PutUrl
    Batches,   \* calls of FetchUrls
    Urls,      \* the requests of each batch
    Workers,   \* num_curl_workers_ threads, each with a queue and a session
    Capacity,  \* capacity_ of a queue
    none       \* a worker between two requests

HttpFetcherAssumption ==
    /\ IsFiniteSet(Workers)
    /\ Capacity \in Nat \ {0}
    /\ Urls \in [Batches -> Seq(Requests)]
    /\ \A b, c \in Batches : IsInjective(Urls[b])
         /\ (b # c => ToSet(Urls[b]) \cap ToSet(Urls[c]) = {})
    /\ none \notin Requests

VARIABLES
    kind,       \* which of the two fetchers
    issued,     \* requests made so far
    queue,      \* each worker's dll_ and curl_handles_, newest first
    holding,    \* the request each worker has dequeued
    posted,     \* start events on each worker's event loop
    multi,      \* easy_curl_request_data_ and libcurl session of each worker
    adding,     \* direct: in the session, not yet in curl_handle_set_
    transfers,  \* direct: the libcurl session
    handles,    \* direct: curl_handle_set_
    tasks,      \* callbacks on the executor, with their results
    answers,    \* what the callback of each request was called with
    pending,    \* pending_results of each batch
    allDone,    \* calls of each batch's all_done_callback
    stage,      \* each worker's way through the destructor
    dropped     \* requests destroyed without a call of their callback

queueVars == <<queue, holding, posted, multi>>
directVars == <<adding, transfers, handles>>
answerVars == <<answers, pending, allDone>>
httpVars == <<kind, issued, queueVars, directVars, tasks, answerVars, stage, dropped>>

Results == {"ok", "error"}
Stages == <<"up", "stopping", "stopped", "sessionGone", "queueGone">>

HttpTypeOK ==
    /\ kind \in {"queue", "direct"}
    /\ queue \in [Workers -> Seq(Requests)]
    /\ \A w \in Workers : IsInjective(queue[w]) /\ Len(queue[w]) <= Capacity
    /\ holding \in [Workers -> Requests \cup {none}]
    /\ posted \in [Workers -> SUBSET Requests]
    /\ multi \in [Workers -> SUBSET Requests]
    /\ issued \in SUBSET Requests
    /\ adding \in SUBSET Requests /\ transfers \in SUBSET Requests
    /\ handles \in SUBSET Requests /\ dropped \in SUBSET Requests
    /\ tasks \in SUBSET (Requests \X Results)
    /\ answers \in [Requests -> Seq(Results)]
    /\ pending \in [Batches -> Int] /\ allDone \in [Batches -> Nat]
    /\ stage \in [Workers -> ToSet(Stages)]

HttpInit ==
    /\ kind \in {"queue", "direct"} /\ issued = {}
    /\ queue = [w \in Workers |-> <<>>]
    /\ holding = [w \in Workers |-> none]
    /\ posted = [w \in Workers |-> {}] /\ multi = [w \in Workers |-> {}]
    /\ adding = {} /\ transfers = {} /\ handles = {} /\ dropped = {}
    /\ tasks = {} /\ answers = [r \in Requests |-> <<>>]
    /\ pending = [b \in Batches |-> Len(Urls[b])]
    /\ allDone = [b \in Batches |-> IF Urls[b] = <<>> THEN 1 ELSE 0]
    /\ stage = [w \in Workers |-> "up"]

Up == \A w \in Workers : stage[w] = "up"

\* The callback of a request, which for one of FetchUrls is to store the result
\* and to call all_done_callback with the last one.
LastResult(n) == n = 1
Answer(r, result) ==
    /\ answers' = [answers EXCEPT ![r] = Append(@, result)]
    /\ pending' = [b \in Batches |->
           IF r \in ToSet(Urls[b]) THEN pending[b] - 1 ELSE pending[b]]
    /\ allDone' = [b \in Batches |->
           IF r \in ToSet(Urls[b]) /\ LastResult(pending[b]) THEN allDone[b] + 1
           ELSE allDone[b]]

(***************************************************************************)
(* MultiCurlHttpFetcherAsync                                               *)
(***************************************************************************)
FullBeyondCapacity(w) == Len(queue[w]) > Capacity
Full(w) == Len(queue[w]) = Capacity

\* ScheduleAsyncCurlRequest, under the lock of the queue: a full queue refuses.
ScheduleAsyncCurlRequest(r, w) ==
    /\ IF Full(w)
       THEN Answer(r, "error") /\ UNCHANGED queue
       ELSE /\ queue' = [queue EXCEPT ![w] = <<r>> \o @]
            /\ UNCHANGED answerVars
    /\ UNCHANGED <<kind, holding, posted, multi, directVars, tasks, stage, dropped>>

\* CurlRequestWorker::ProcessRequests: the oldest request is dequeued under the
\* lock and started outside it.
Dequeue(w) ==
    /\ stage[w] = "up" /\ holding[w] = none /\ queue[w] # <<>>
    /\ holding' = [holding EXCEPT ![w] = Last(queue[w])]
    /\ queue' = [queue EXCEPT ![w] = Front(@)]
    /\ UNCHANGED <<kind, issued, posted, multi, directVars, tasks, answerVars, stage, dropped>>

StartProcessing(w) ==
    /\ holding[w] # none
    /\ posted' = [posted EXCEPT ![w] = @ \cup {holding[w]}]
    /\ holding' = [holding EXCEPT ![w] = none]
    /\ UNCHANGED <<kind, issued, queue, multi, directVars, tasks, answerVars, stage, dropped>>

\* libcurl takes the request, or the callback is called on the executor.
OnProcessingStarted(w, r) ==
    /\ r \in posted[w] /\ stage[w] \in {"up", "stopping", "stopped"}
    /\ posted' = [posted EXCEPT ![w] = @ \ {r}]
    /\ \/ multi' = [multi EXCEPT ![w] = @ \cup {r}] /\ UNCHANGED tasks
       \/ tasks' = tasks \cup {<<r, "error">>} /\ UNCHANGED multi
    /\ UNCHANGED <<kind, issued, queue, holding, directVars, answerVars, stage, dropped>>

\* A transfer ends: the event loop takes the request out of the session.
PerformCurlUpdate(w, r, result) ==
    /\ r \in multi[w] /\ stage[w] \in {"up", "stopping", "stopped"}
    /\ multi' = [multi EXCEPT ![w] = @ \ {r}]
    /\ tasks' = tasks \cup {<<r, result>>}
    /\ UNCHANGED <<kind, issued, queue, holding, posted, directVars, answerVars, stage, dropped>>

\* The ticker walks the list from its newest entry and returns at the first that
\* may wait longer, so it removes all of a queue or nothing. The removal leaves
\* the entries to closures on the executor.
ExpiredAlsoQueued(w) == queue
ExpiredLeft(w) == [queue EXCEPT ![w] = <<>>]
RemoveExpiredEntries(w) ==
    /\ queue[w] # <<>>
    /\ \E v \in Workers : stage[v] \in {"up", "stopping", "stopped"}
    /\ queue' = ExpiredLeft(w)
    /\ tasks' = tasks \cup {<<r, "error">> : r \in ToSet(queue[w])}
    /\ UNCHANGED <<kind, issued, holding, posted, multi, directVars, answerVars, stage, dropped>>

\* The destructor stops one worker after the other: its thread finishes what it
\* holds, and its event loop ends with requests posted and in the session, which
\* are destroyed. Then each queue answers what is left in it.
GoOn(w, from, to) == stage[w] = from /\ stage' = [stage EXCEPT ![w] = to]

RequestShutdown(w) ==
    /\ \A v \in Workers : stage[v] \in {"up", "sessionGone"}
    /\ GoOn(w, "up", "stopping")
    /\ UNCHANGED <<kind, issued, queueVars, directVars, tasks, answerVars, dropped>>

WorkerStops(w) ==
    /\ holding[w] = none
    /\ GoOn(w, "stopping", "stopped")
    /\ UNCHANGED <<kind, issued, queueVars, directVars, tasks, answerVars, dropped>>

ShutdownEventLoop(w) ==
    /\ GoOn(w, "stopped", "sessionGone")
    /\ dropped' = dropped \cup posted[w] \cup multi[w]
    /\ posted' = [posted EXCEPT ![w] = {}] /\ multi' = [multi EXCEPT ![w] = {}]
    /\ UNCHANGED <<kind, issued, queue, holding, directVars, tasks, answerVars>>

QueueShutdown(w) ==
    /\ \A v \in Workers : stage[v] \in {"sessionGone", "queueGone"}
    /\ stage[w] = "sessionGone"
    /\ IF queue[w] = <<>>
       THEN stage' = [stage EXCEPT ![w] = "queueGone"] /\ UNCHANGED <<queue, answerVars>>
       ELSE /\ Answer(Last(queue[w]), "error")
            /\ queue' = [queue EXCEPT ![w] = Front(@)] /\ UNCHANGED stage
    /\ UNCHANGED <<kind, issued, holding, posted, multi, directVars, tasks, dropped>>

(***************************************************************************)
(* MultiCurlHttpFetcherAsyncNoQueue                                        *)
(***************************************************************************)
\* ExecuteCurlRequest adds the request to the session, or answers; then, without
\* a lock in between, to the set of handles.
ExecuteCurlRequest(r) ==
    /\ \/ /\ transfers' = transfers \cup {r} /\ adding' = adding \cup {r}
          /\ UNCHANGED answerVars
       \/ Answer(r, "error") /\ UNCHANGED <<transfers, adding>>
    /\ UNCHANGED <<kind, queueVars, handles, tasks, stage, dropped>>

AddHandle(r) ==
    /\ r \in adding
    /\ adding' = adding \ {r} /\ handles' = handles \cup {r}
    /\ UNCHANGED <<kind, issued, queueVars, transfers, tasks, answerVars, stage, dropped>>

PerformCurlUpdateDirect(r, result) ==
    /\ r \in transfers /\ Up
    /\ transfers' = transfers \ {r} /\ handles' = handles \ {r}
    /\ tasks' = tasks \cup {<<r, result>>}
    /\ UNCHANGED <<kind, issued, queueVars, adding, answerVars, stage, dropped>>

\* A handle that was added after its transfer had ended stays in the set, though
\* the request it belongs to is gone.
Dangling == {r \in handles : r \notin transfers}

ShutdownDirect ==
    /\ Up /\ adding = {}
    /\ stage' = [w \in Workers |-> "stopping"]
    /\ UNCHANGED <<kind, issued, queueVars, directVars, tasks, answerVars, dropped>>

\* The destructor calls the callbacks of the handles in the set; for a dangling
\* one it reads freed memory, and the callback may be called again or not.
DestroyHandle(r) ==
    /\ ~Up /\ kind = "direct" /\ r \in handles
    /\ handles' = handles \ {r} /\ transfers' = transfers \ {r}
    /\ \/ Answer(r, "error")
       \/ r \in Dangling /\ UNCHANGED answerVars
    /\ dropped' = IF r \in Dangling THEN dropped \cup {r} ELSE dropped
    /\ UNCHANGED <<kind, issued, queueVars, adding, tasks, stage>>

(***************************************************************************)
(* Both                                                                    *)
(***************************************************************************)
\* FetchUrl and PutUrl.
FetchUrl(r) ==
    /\ r \notin issued /\ Up
    /\ issued' = issued \cup {r}
    /\ IF kind = "queue" THEN \E w \in Workers : ScheduleAsyncCurlRequest(r, w)
       ELSE ExecuteCurlRequest(r)

RunTask(r, result) ==
    /\ <<r, result>> \in tasks
    /\ tasks' = tasks \ {<<r, result>>}
    /\ Answer(r, result)
    /\ UNCHANGED <<kind, issued, queueVars, directVars, stage, dropped>>

\* What goes on inside a fetcher while its process lives.
HttpStep ==
    \/ \E w \in Workers :
         \/ Dequeue(w) \/ StartProcessing(w)
         \/ \E r \in Requests :
              \/ OnProcessingStarted(w, r)
              \/ \E result \in Results : PerformCurlUpdate(w, r, result)
    \/ \E r \in Requests : AddHandle(r)
    \/ \E r \in Requests, result \in Results :
         PerformCurlUpdateDirect(r, result) \/ RunTask(r, result)
Expire == \E w \in Workers : RemoveExpiredEntries(w)

\* ...and its destructor.
Destroy ==
    /\ kind = "queue"
    /\ \E w \in Workers : \/ RequestShutdown(w) \/ WorkerStops(w)
                          \/ ShutdownEventLoop(w) \/ QueueShutdown(w)
DestroyDirect ==
    \/ kind = "direct" /\ ShutdownDirect
    \/ \E r \in Requests : DestroyHandle(r)

(***************************************************************************)
(* Properties                                                              *)
(***************************************************************************)
\* Who is to call the callback of a request.
Owners(r) ==
    Cardinality({w \in Workers : r \in ToSet(queue[w])})
    + Cardinality({w \in Workers : holding[w] = r})
    + Cardinality({w \in Workers : r \in posted[w]})
    + Cardinality({w \in Workers : r \in multi[w]})
    + Cardinality({t \in tasks : t[1] = r})
    + (IF r \in transfers THEN 1 ELSE 0)
    + Len(answers[r])

\* A request has one owner from when it is made until its callback has been called,
\* whoever takes it out of the queue or the session, and it is called once:
\* ProcessRequests, RemoveExpiredEntries and PerformCurlUpdate neither lose a
\* request nor call its callback twice. The exceptions are requests the
\* destructors drop and dangling handles. And the callback of a batch is called once
\* and when all its results are there, in whichever order, on whichever threads and
\* however early they come (FetchUrls).
EachIsAnsweredOnce ==
    /\ \A r \in issued \ (dropped \cup Dangling) : Owners(r) = 1
    /\ \A b \in Batches : ToSet(Urls[b]) \cap (dropped \cup Dangling) = {} =>
          allDone[b] = IF \A r \in ToSet(Urls[b]) : answers[r] # <<>> THEN 1 ELSE 0
=============================================================================
