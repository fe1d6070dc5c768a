------------------------- MODULE PeriodicUrlFetcher -------------------------
(* The fetch of ad tech code over HTTP: PeriodicUrlFetcher                   *)
(* (src/services/common/data_fetch/periodic_url_fetcher.cc) over a fetcher   *)
(* that other clients of the process use too. A run of PeriodicUrlFetchSync  *)
(* fetches all URLs, waits for the results, loads them if they have changed  *)
(* and arms a timer for the next run; End cancels the timer from another     *)
(* thread. Which results come is left out, but for whether they have changed.*)
EXTENDS HttpFetcher

CONSTANT Rounds  \* the batches of the runs to consider, in their order

PeriodicAssumption == Rounds \in Seq(Batches) /\ IsInjective(Rounds)

VARIABLES
    round,    \* runs begun
    sync,     \* PeriodicUrlFetchSync: what it does next
    cached,   \* cb_results_value_ is not empty
    loaded,   \* some_load_success_
    task_id,  \* task_id_ is set
    ended     \* End was called

vars == <<httpVars, round, sync, cached, loaded, task_id, ended>>
fetcherVars == <<round, sync, cached, loaded, task_id, ended>>

Singles == Requests \ UNION {ToSet(Urls[b]) : b \in Batches}

Syncs == {"start", "fetch", "wait", "rearm", "armed", "cancelled"}

TypeOK ==
    /\ HttpTypeOK
    /\ round \in 0..Len(Rounds) /\ sync \in Syncs
    /\ cached \in BOOLEAN /\ loaded \in BOOLEAN
    /\ task_id \in BOOLEAN /\ ended \in BOOLEAN

Init ==
    /\ HttpInit
    /\ round = 0 /\ sync = "start"
    /\ cached = FALSE /\ loaded = FALSE /\ task_id = FALSE /\ ended = FALSE

\* The first URL of a run, or none.
BeginRun ==
    /\ round < Len(Rounds)
    /\ round' = round + 1
    /\ sync' = IF Urls[Rounds[round + 1]] = <<>> THEN "wait" ELSE "fetch"

Start ==
    /\ sync = "start" /\ BeginRun
    /\ UNCHANGED <<httpVars, cached, loaded, task_id, ended>>

TimerFires ==
    /\ sync = "armed" /\ BeginRun
    /\ UNCHANGED <<httpVars, cached, loaded, task_id, ended>>

\* The loop of FetchUrls; the thread then waits for the notification.
FetchNext ==
    /\ sync = "fetch"
    /\ LET urls == Urls[Rounds[round]]
           i == Cardinality(ToSet(urls) \cap issued) + 1
       IN /\ FetchUrl(urls[i])
          /\ sync' = IF i = Len(urls) THEN "wait" ELSE sync
    /\ UNCHANGED <<round, cached, loaded, task_id, ended>>

\* done_callback: a result that has changed, as the first one has, is loaded,
\* which may fail.
DoneCallback ==
    /\ sync = "wait" /\ allDone[Rounds[round]] > 0
    /\ LET allOk == \A r \in ToSet(Urls[Rounds[round]]) : Last(answers[r]) = "ok"
       IN \/ allOk /\ cached' = TRUE /\ loaded' \in BOOLEAN
          \/ (allOk => cached) /\ UNCHANGED <<cached, loaded>>
    /\ sync' = "rearm"
    /\ UNCHANGED <<httpVars, round, task_id, ended>>

Rearm ==
    /\ sync = "rearm"
    /\ sync' = "armed" /\ task_id' = TRUE
    /\ UNCHANGED <<httpVars, round, cached, loaded, ended>>

\* End, after Start has returned: it cancels a timer that is armed, and is without
\* effect on a run under way.
End ==
    /\ ~ended /\ (round > 1 \/ sync = "armed")
    /\ ended' = TRUE /\ task_id' = FALSE
    /\ sync' = IF sync = "armed" /\ task_id THEN "cancelled" ELSE sync
    /\ UNCHANGED <<httpVars, round, cached, loaded>>

\* Another caller of the same fetcher.
Other ==
    /\ \E r \in Singles : FetchUrl(r)
    /\ UNCHANGED fetcherVars

\* The fetcher is destroyed once nobody will call it any more.
Shutdown ==
    /\ sync = "cancelled"
    /\ Destroy \/ DestroyDirect
    /\ UNCHANGED fetcherVars

Http == HttpStep /\ UNCHANGED fetcherVars
Ticker == Expire /\ UNCHANGED fetcherVars
Sync == FetchNext \/ DoneCallback \/ Rearm

Next == Start \/ TimerFires \/ Sync \/ End \/ Other \/ Shutdown \/ Http \/ Ticker

\* The threads run; each transfer ends, as it has a timeout; a destructor that
\* has begun goes on. Nothing makes the ticker come before the worker.
Spec == Init /\ [][Next]_vars
        /\ WF_vars(Http) /\ WF_vars(Sync) /\ WF_vars(~Up /\ Shutdown)

(***************************************************************************)
(* Properties                                                              *)
(***************************************************************************)
\* Every request is answered, unless the destructor drops it, and the thread that
\* waits in PeriodicUrlFetchSync is released. (There are finitely many requests and
\* runs: from some time on none is waited for.)
AllAnswered ==
    /\ \A r \in issued : answers[r] # <<>> \/ r \in dropped
    /\ sync # "wait"

EventuallyAnswered == <>[]AllAnswered
=============================================================================
