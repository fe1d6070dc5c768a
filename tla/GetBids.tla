------------------------------ MODULE GetBids -------------------------------
(* One GetBids request in a buyer front end (GetBidsUnaryReactor,            *)
(* src/services/buyer_frontend_service/get_bids_unary_reactor.cc): bids for  *)
(* the interest groups ("PA": a lookup of bidding signals, then the bidding  *)
(* service) and for the protected app signals ("PAS": the bidding service    *)
(* alone) are fetched in parallel, and the callback of the last one answers  *)
(* the seller front end. A chaff request is answered after a delay.          *)
EXTENDS FiniteSets, Sequences, TaskCounters

CONSTANTS
    Requests,    \* the raw requests to consider
    Deployments  \* the combinations of configuration to consider

Task == {"PA", "PAS"}

\* Interest groups in a message: none, some with bidding signals keys, some with
\* no key at all.
Input == {"absent", "empty", "keys", "noKeys"}
Groups == {"keys", "noKeys"}

\* GetBidsRawRequest.
RawRequests ==
    [chaff : BOOLEAN, buyerInput : Input, forBidding : Input,
     pas : {"absent", "empty", "signals"}]

Configs ==
    [cancellation : BOOLEAN,  \* enable_cancellation
     audience : BOOLEAN,      \* is_protected_audience_enabled
     appSignals : BOOLEAN,    \* is_protected_app_signals_enabled
     chaffing : BOOLEAN,      \* is_chaffing_v1_enabled
     mode : {"NOT_FETCHED", "OPTIONAL", "REQUIRED"},
     path : {"v1", "v2", "hybrid"},  \* UseKvV2, is_hybrid_enabled
     v2Client : BOOLEAN]      \* kv_async_client_ is not null

GetBidsAssumption ==
    /\ Requests \subseteq RawRequests
    /\ Deployments \subseteq Configs

VARIABLES
    conf,       \* GetBidsConfig
    request,    \* raw_request_ as decrypted
    exec,       \* the handler's thread, by the call it is to make next
    rpc,        \* each task: its progress, then its TaskStatus
    tracker,    \* async_task_tracker_
    chain,      \* "bidsDone" while on_all_tasks_done_ is to run
    delay,      \* the delayed answer to a chaff request
    logging,    \* HandleV2Failure has still to use log_context_
    finishes,   \* the statuses Finish was called with
    cancelled,  \* context_->IsCancelled()
    deleted     \* OnDone has deleted the reactor

const == <<conf, request>>
vars == <<const, exec, rpc, tracker, chain, delay, logging, finishes, cancelled,
          deleted>>

InFlight == {"v1", "v2", "prepare", "bidding"}

TypeOK ==
    /\ conf \in Deployments /\ request \in Requests
    /\ exec \in {"execute", "audience", "signals", "returned"}
    /\ rpc \in [Task -> {"none", "lost", "abandoned"} \cup InFlight \cup TaskStatus]
    /\ tracker \in Trackers
    /\ chain \in {"bids", "bidsDone", "ended"}
    /\ delay \in {"none", "armed", "done"}
    /\ finishes \in Seq({"OK", "CANCELLED", "INVALID_ARGUMENT", "INTERNAL"})
    /\ logging \in BOOLEAN /\ cancelled \in BOOLEAN /\ deleted \in BOOLEAN

Init ==
    /\ conf \in Deployments /\ request \in Requests
    /\ exec = "execute"
    /\ rpc = [t \in Task |-> "none"]
    /\ tracker = Tracking(1)
    /\ chain = "bids" /\ delay = "none" /\ logging = FALSE
    /\ finishes = <<>> /\ cancelled = FALSE /\ deleted = FALSE

Cancelled == conf.cancellation /\ cancelled

FinishWithStatus(s) == finishes' = Append(finishes, s)

-----------------------------------------------------------------------------
(* CancellableExecute                                                        *)

\* buyer_input_for_bidding after buyer_input, if there is one, was converted.
ForBidding ==
    IF request.buyerInput # "absent" THEN request.buyerInput ELSE request.forBidding

GetNumberOfMaximumBiddingCalls ==
    Cardinality(
      {t \in Task :
          \/ /\ t = "PA" /\ conf.audience
             /\ {request.buyerInput, request.forBidding} \cap Groups # {}
          \/ t = "PAS" /\ conf.appSignals /\ request.pas # "absent"})

GetsAudienceBids == conf.audience /\ ForBidding \in Groups
GetsSignalsBids == conf.appSignals /\ request.pas # "absent"

\* The early returns: cancelled, undecodable, no input to bid for.
RejectRequest ==
    /\ exec = "execute"
    /\ exec' = "returned"
    /\ \/ Cancelled /\ FinishWithStatus("CANCELLED")
       \/ FinishWithStatus("INVALID_ARGUMENT")
    /\ UNCHANGED <<const, rpc, tracker, chain, delay, logging, cancelled, deleted>>

ExecuteChaffRequest ==
    /\ exec = "execute" /\ conf.chaffing /\ request.chaff
    /\ exec' = "returned"
    /\ \/ FinishWithStatus("INTERNAL") /\ UNCHANGED delay
       \/ delay' = "armed" /\ UNCHANGED finishes
    /\ UNCHANGED <<const, rpc, tracker, chain, logging, cancelled, deleted>>

\* executor_.RunAfter(chaff_request_duration, ...)
FinishChaffRequest ==
    /\ delay = "armed"
    /\ delay' = "done"
    /\ FinishWithStatus("OK")
    /\ UNCHANGED <<const, exec, rpc, tracker, chain, logging, cancelled, deleted>>

TrackBids ==
    /\ exec = "execute" /\ ~(conf.chaffing /\ request.chaff)
    /\ GetNumberOfMaximumBiddingCalls > 0
    /\ tracker' = Tracking(GetNumberOfMaximumBiddingCalls)
    /\ exec' = IF GetsAudienceBids THEN "audience"
               ELSE IF GetsSignalsBids THEN "signals" ELSE "returned"
    /\ UNCHANGED <<const, rpc, chain, delay, logging, finishes, cancelled, deleted>>

\* async_task_tracker_.TaskCompleted(s) for task t.
TaskCompleted(t, s) ==
    /\ rpc' = [rpc EXCEPT ![t] = s]
    /\ tracker' = Counted(tracker, s)
    /\ chain' = IF tracker'.pending = 0 THEN "bidsDone" ELSE chain

Proceed(t, to) ==
    /\ rpc' = [rpc EXCEPT ![t] = to]
    /\ UNCHANGED <<tracker, chain>>

-----------------------------------------------------------------------------
(* Protected Audience: signals, then bids                                    *)

\* MayGetProtectedAudienceBidsV2: no client finishes the request, a request that
\* cannot be built (no interest group has keys) is dropped, a call that fails is
\* an error.
StartV2Lookup ==
    \/ /\ ~conf.v2Client
       /\ Proceed("PA", "abandoned")
       /\ FinishWithStatus("INTERNAL")
    \/ /\ conf.v2Client /\ ForBidding = "noKeys"
       /\ Proceed("PA", "lost")
       /\ UNCHANGED finishes
    \/ /\ conf.v2Client /\ ForBidding # "noKeys"
       /\ Proceed("PA", "v2") \/ TaskCompleted("PA", "ERROR")
       /\ UNCHANGED finishes

\* GetProtectedAudienceBids: where the V1 lookup is taken its client exists, by
\* the checks buyer_frontend_main.cc makes when the server starts.
GetProtectedAudienceBids ==
    /\ exec = "audience"
    /\ exec' = IF GetsSignalsBids THEN "signals" ELSE "returned"
    /\ \/ /\ conf.mode = "NOT_FETCHED"
          /\ Proceed("PA", "prepare") /\ UNCHANGED finishes
       \/ conf.mode # "NOT_FETCHED" /\ conf.path = "v2" /\ StartV2Lookup
       \/ /\ conf.mode # "NOT_FETCHED" /\ conf.path # "v2"
          /\ Proceed("PA", "v1") /\ UNCHANGED finishes
    /\ UNCHANGED <<const, delay, logging, cancelled, deleted>>

\* The callback of the V1 lookup, which a hybrid buyer follows by a V2 lookup.
OnBiddingSignalsV1 ==
    /\ rpc["PA"] = "v1"
    /\ \/ /\ \/ Cancelled /\ TaskCompleted("PA", "CANCELLED")
             \/ ~Cancelled /\ TaskCompleted("PA", "ERROR")
             \/ ~Cancelled /\ Proceed("PA", "prepare")
          /\ UNCHANGED finishes
       \/ ~Cancelled /\ conf.path = "hybrid" /\ StartV2Lookup
    /\ UNCHANGED <<const, exec, delay, logging, cancelled, deleted>>

\* The callback of the V2 lookup; HandleV2Failure logs after it has reported.
OnBiddingSignalsV2 ==
    /\ rpc["PA"] = "v2"
    /\ \/ Cancelled /\ TaskCompleted("PA", "CANCELLED") /\ UNCHANGED logging
       \/ ~Cancelled /\ TaskCompleted("PA", "ERROR") /\ logging' = TRUE
       \/ ~Cancelled /\ Proceed("PA", "prepare") /\ UNCHANGED logging
    /\ UNCHANGED <<const, exec, delay, finishes, cancelled, deleted>>

LogBiddingSignals ==
    /\ logging /\ ~deleted
    /\ logging' = FALSE
    /\ UNCHANGED <<const, exec, rpc, tracker, chain, delay, finishes, cancelled,
                   deleted>>

\* PrepareAndGenerateProtectedAudienceBid: required signals that cannot be
\* parsed, no interest group left to bid for, the call made or failed.
PrepareAndGenerateProtectedAudienceBid ==
    /\ rpc["PA"] = "prepare"
    /\ \/ TaskCompleted("PA", "EMPTY_RESPONSE")
       \/ TaskCompleted("PA", "ERROR")
       \/ Proceed("PA", "bidding")
    /\ UNCHANGED <<const, exec, delay, logging, finishes, cancelled, deleted>>

\* GetProtectedSignalsBids; without signals it returns as it is. (Without a
\* lookup the bids of the interest groups were requested before, in this thread.)
GetProtectedSignalsBids ==
    /\ exec = "signals" /\ (conf.mode = "NOT_FETCHED" => rpc["PA"] # "prepare")
    /\ exec' = "returned"
    /\ \/ request.pas = "empty" /\ Proceed("PAS", "lost")
       \/ request.pas = "signals" /\ Proceed("PAS", "bidding")
       \/ request.pas = "signals" /\ TaskCompleted("PAS", "ERROR")
    /\ UNCHANGED <<const, delay, logging, finishes, cancelled, deleted>>

\* HandleSingleBidCompletion, for both services: only a success is given up when
\* the request was cancelled.
OnBids(t) ==
    /\ rpc[t] = "bidding"
    /\ \/ TaskCompleted(t, "ERROR")
       \/ TaskCompleted(t, "EMPTY_RESPONSE")
       \/ Cancelled /\ TaskCompleted(t, "CANCELLED")
       \/ ~Cancelled /\ TaskCompleted(t, "SUCCESS")
    /\ UNCHANGED <<const, exec, delay, logging, finishes, cancelled, deleted>>

-----------------------------------------------------------------------------
(* The end of the request                                                    *)

\* Mutant: the argument of the callback is not looked at.
AnswerUnlessCancelled ==
    IF Cancelled THEN {"CANCELLED"} ELSE {"OK", "INTERNAL"}

\* The status OnAllBidsDone finishes with; encoding or encrypting may fail.
Answers ==
    IF Cancelled THEN {"CANCELLED"}
    ELSE IF AnyTaskSuccessfullyCompleted(tracker) THEN {"OK", "INTERNAL"}
    ELSE {"INTERNAL"}

OnAllBidsDone ==
    /\ chain = "bidsDone"
    /\ chain' = "ended"
    /\ \E s \in Answers : FinishWithStatus(s)
    /\ UNCHANGED <<const, exec, rpc, tracker, delay, logging, cancelled, deleted>>

Cancel ==
    /\ ~cancelled /\ ~deleted
    /\ cancelled' = TRUE
    /\ UNCHANGED <<const, exec, rpc, tracker, chain, delay, logging, finishes,
                   deleted>>

\* gRPC deletes the reactor when it has finished and the handler has returned.
OnDone ==
    /\ finishes # <<>> /\ exec = "returned" /\ ~deleted
    /\ deleted' = TRUE
    /\ UNCHANGED <<const, exec, rpc, tracker, chain, delay, logging, finishes,
                   cancelled>>

Progress ==
    \/ RejectRequest \/ ExecuteChaffRequest \/ FinishChaffRequest \/ TrackBids
    \/ GetProtectedAudienceBids \/ GetProtectedSignalsBids
    \/ OnBiddingSignalsV1 \/ OnBiddingSignalsV2 \/ LogBiddingSignals
    \/ PrepareAndGenerateProtectedAudienceBid
    \/ \E t \in Task : OnBids(t)
    \/ OnAllBidsDone \/ OnDone

Next == Progress \/ Cancel

\* Lookups and calls have deadlines (bidding_signals_load_timeout_ms,
\* generate_bid_timeout_ms), the delayed answer a timer, and a step is taken once.
Spec == Init /\ [][Next]_vars /\ WF_vars(Progress)

-----------------------------------------------------------------------------

\* OK means that some task did answer, if only to say that it has no bid: errors
\* and cancellations do not make a response.
OkMeansAnswered ==
    finishes = <<"OK">> /\ delay = "none" =>
        \E t \in Task : rpc[t] \in {"SUCCESS", "EMPTY_RESPONSE"}

\* The request is finished once, by the check that stops it, by the delayed answer
\* or by the callback of the last task, and no lookup or call answers to a deleted
\* reactor, unless the missing client made the request end early.
FinishedOnceAndLast ==
    /\ Len(finishes) <= 1
    /\ deleted /\ rpc["PA"] # "abandoned" => \A t \in Task : rpc[t] \notin InFlight

\* Every request is answered: an endless wait in one buyer would be seen by the
\* seller as a timeout, after its other buyers. Only the dropped V2 lookup of
\* StartV2Lookup leaves a request open.
EventuallyFinished == exec = "execute" ~> (finishes # <<>> \/ rpc["PA"] = "lost")
=============================================================================
