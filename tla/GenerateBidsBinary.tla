------------------------- MODULE GenerateBidsBinary -------------------------
(* The reactors of the bidding service over Roma's BYOB: the requests of     *)
(* GenerateBidsBinaryReactor                                                 *)
(* (src/services/bidding_service/generate_bids_binary_reactor.cc), which run *)
(* a binary for every interest group, one by one, counted by a tracker, or   *)
(* in a batch of GenerateBidByobDispatchClient                               *)
(* (byob/generate_bid_byob_dispatch_client.cc), whose number is limited and  *)
(* each of which holds a thread of an executor while it lasts.               *)
EXTENDS TaskCounters, FiniteSets, UnaryReactor

CONSTANT ByobWorkloads  \* settings of a server with the requests made to it, as
                        \* records of IsWorkload

\* batch_start_timeout_ is "none" without batching; a request has a number of
\* interest groups, 0 if it is one for app signals.
IsWorkload(w) ==
    /\ w.batch_start_timeout \in {"none", "zero", "some"}
    /\ w.max_pending_batches \in Nat
    /\ w.threads \in Nat \ {0}  \* of the executor of the client
    /\ \A r \in DOMAIN w.groups : w.groups[r] \in Nat

ASSUME ByobAssumption == \A w \in ByobWorkloads : IsWorkload(w)

\* How a run ends: "tooMany" bids, or "none"; not started in time, or in time but
\* too slow and cancelled ("late"), or failed.
Failures == {"unstarted", "late", "failed"}
Outcomes == {"bids", "none", "tooMany"} \cup Failures

VARIABLES
    workload,
    calls,               \* of each request its RPC and reactor, see NewCall
    num_pending_batches

byobVars == <<workload, calls, num_pending_batches>>

Calls == DOMAIN calls

\* The state of a reactor and of its batch in the client.
NewCall(n, decrypted) ==
    [rpc |-> NewRpc(decrypted),
     igs |-> IF decrypted THEN n ELSE 0,
     at |-> "execute",       \* where the thread is that dispatches
     next |-> 1,             \* ig_index, or i
     running |-> {},         \* the runs to answer yet
     killed |-> FALSE,       \* Cancel was called for all of them
     count |-> 0,            \* of the batch: the answers awaited
     outcome |-> [i \in 1..n |-> "lost"],    \* how the run of a group ended
     responses |-> [i \in 1..n |-> "lost"],  \* what the batch has for it
     tracker |-> Tracking(IF decrypted THEN n ELSE 0),
     timeout_waiting |-> 0,  \* of udf_stats_...
     success_executed |-> 0,
     ads_with_bids |-> {},   \* ads_with_bids_by_ig_: the groups with bids
     bids |-> {}]            \* ...and raw_response_: those bid for

\* at: a batch is on the executor, in the loop, waiting for answers, and past that.
Locations == {"execute", "single", "queued", "loop", "await", "release",
              "done"}
UnderWay == {"queued", "loop", "await", "release"}
OnThread == UnderWay \ {"queued"}

Unbatched == workload.batch_start_timeout = "none"

Batches(S) == {r \in Calls : calls[r].at \in S}

ByobTypeOK ==
    /\ num_pending_batches = Cardinality(Batches(UnderWay))
    /\ num_pending_batches <= workload.max_pending_batches
    /\ Cardinality(Batches(OnThread)) <= workload.threads
    /\ \A r \in Calls : LET c == calls[r] IN
         /\ c.rpc \in Rpcs /\ c.at \in Locations
         /\ c.running \subseteq 1..c.igs /\ c.count \in 0..c.igs
         /\ c.tracker \in Trackers
         /\ c.timeout_waiting + c.success_executed <= c.igs \/ Unbatched
         /\ c.bids \subseteq c.ads_with_bids

ByobInit ==
    /\ workload \in ByobWorkloads
    /\ \E decrypted \in [DOMAIN workload.groups -> BOOLEAN] :
         calls = [r \in DOMAIN workload.groups |->
                      NewCall(workload.groups[r], decrypted[r])]
    /\ num_pending_batches = 0

\* One reactor takes a step that leaves the counter of the client alone. It may go
\* one of several ways.
Becomes(r, cs) ==
    /\ \E c \in cs : calls' = [calls EXCEPT ![r] = c]
    /\ UNCHANGED <<workload, num_pending_batches>>

(***************************************************************************)
(* GenerateBidsBinaryReactor: the end                                      *)
(***************************************************************************)
FinishWithResponse(c, status, bids) ==
    {[c EXCEPT !.rpc = p, !.bids = bids] : p \in EncryptedAndFinished(c.rpc, status)}

\* Mutant: some run was not started in time.
SomeUnstarted(c) == c.timeout_waiting > 0

\* No run could be scheduled: timeout_waiting is the total.
NoneStarted(c) == c.timeout_waiting = c.igs

OnAllBidsDone(c, any_successful_bids) ==
    CASE ~any_successful_bids /\ NoneStarted(c) ->
             FinishWithResponse(c, "RESOURCE_EXHAUSTED", {})
      [] ~any_successful_bids /\ ~NoneStarted(c) ->
             FinishWithResponse(c, "INTERNAL", {})
      [] any_successful_bids /\ c.rpc.cancelled ->
             FinishWithResponse(c, "CANCELLED", {})
      [] OTHER -> FinishWithResponse(c, "OK", c.ads_with_bids)

Ran == {"bids", "none", "tooMany"}

\* What ProcessResponse returns.
TaskStatusOf(outcome) ==
    CASE outcome = "unstarted" -> "SKIPPED"
      [] outcome = "late" -> "CANCELLED"
      [] outcome \in {"failed", "tooMany"} -> "ERROR"
      [] outcome = "none" -> "EMPTY_RESPONSE"
      [] outcome = "bids" -> "SUCCESS"

(***************************************************************************)
(* GenerateBidsBinaryReactor: one run for each interest group              *)
(***************************************************************************)
\* Each thread updates udf_stats_ without a lock: the updates of others between its
\* read and its write are lost.
Racing(counter, adds) == IF adds THEN 1..(counter + 1) ELSE {counter}

ProcessResponse(r) ==
    LET c == calls[r] IN
    /\ c.at = "single"
    /\ \E i \in c.running, o \in Outcomes :
         /\ c.outcome[i] = "lost"
         /\ Becomes(r, {[c EXCEPT !.outcome[i] = o, !.timeout_waiting = w,
                                  !.ads_with_bids = IF o = "bids" THEN @ \cup {i} ELSE @] :
                            w \in Racing(c.timeout_waiting, o = "unstarted")})

\* TaskCompleted, with the callback of the tracker in the thread of the last task.
AfterTask(c, status) ==
    LET counted == [c EXCEPT !.tracker = Counted(@, status)]
    IN IF counted.tracker.pending = 0
       THEN OnAllBidsDone(counted, AnyTaskSuccessfullyCompleted(counted.tracker))
       ELSE {counted}

CompleteTask(r) ==
    LET c == calls[r] IN
    /\ c.at = "single"
    /\ \E i \in c.running :
         /\ c.outcome[i] # "lost"
         /\ Becomes(r, AfterTask([c EXCEPT !.running = @ \ {i}], TaskStatusOf(c.outcome[i])))

\* DispatchExecutions, whose loop gives one run to the client, or fails to.
DispatchInterestGroup(r) ==
    LET c == [calls[r] EXCEPT !.next = @ + 1]
        i == calls[r].next
    IN /\ c.at = "single" /\ i <= c.igs
       /\ \/ Becomes(r, {[c EXCEPT !.running = @ \cup {i}]})
          \/ Becomes(r, AfterTask([c EXCEPT !.outcome[i] = "failed"], "ERROR"))

(***************************************************************************)
(* GenerateBidByobDispatchClient: a batch of runs                          *)
(***************************************************************************)
\* The executor has a thread for the closure.
StartBatch(r) ==
    /\ calls[r].at = "queued" /\ Cardinality(Batches(OnThread)) < workload.threads
    /\ Becomes(r, {[calls[r] EXCEPT !.at = "loop", !.count = calls[r].igs]})

\* Mutants: the whole batch, though some runs have been dispatched, and only the
\* runs after the one that cannot be started.
WholeBatch(c) == c.igs
RunsAfter(c) == c.igs - c.next

\* The runs that end with the one that cannot be started.
NotDispatched(c) == c.igs - c.next + 1

\* Without a time to start in, only the run that cannot be started fails.
StartFails(c, f) ==
    LET given(last) == [i \in DOMAIN c.responses |->
                            IF i \in c.next..last THEN f ELSE c.responses[i]]
    IN IF workload.batch_start_timeout = "zero"
       THEN [c EXCEPT !.responses = given(c.next), !.outcome = given(c.next),
                      !.count = @ - 1, !.next = @ + 1]
       ELSE [c EXCEPT !.responses = given(c.igs), !.outcome = given(c.igs),
                      !.count = @ - NotDispatched(c), !.at = "await"]

DispatchRun(r) ==
    LET c == calls[r] IN
    /\ c.at = "loop"
    /\ Becomes(r, IF c.next > c.igs THEN {[c EXCEPT !.at = "await"]}
                  ELSE {[c EXCEPT !.running = @ \cup {c.next}, !.next = @ + 1]}
                       \cup {StartFails(c, f) : f \in Failures})

\* The callback of a run, on a thread of Roma.
StoreResult(r) ==
    LET c == calls[r] IN
    /\ c.at \notin {"single", "execute"}
    /\ \E i \in c.running, o \in Outcomes :
         Becomes(r, {[c EXCEPT !.running = @ \ {i}, !.count = @ - 1,
                               !.responses[i] = o, !.outcome[i] = o]})

\* AwaitOrCancelAllCallbacks: the time is up.
CancelRuns(r) ==
    LET c == calls[r] IN
    /\ c.at = "await" /\ c.count # 0 /\ ~c.killed
    /\ Becomes(r, {[c EXCEPT !.killed = TRUE]})

\* The closure goes on when all runs are counted: its callback hands the responses to
\* the reactor, in one thread.
EndBatch(r) ==
    LET c == calls[r]
        ended(os) == {i \in 1..c.igs : c.responses[i] \in os}
    IN /\ c.at = "await" /\ c.count = 0
       /\ Becomes(r, OnAllBidsDone(
              [c EXCEPT !.at = "release",
                        !.timeout_waiting = Cardinality(ended({"unstarted"})),
                        !.success_executed = Cardinality(ended(Ran)),
                        !.ads_with_bids = ended({"bids"})],
              ended(Ran) # {}))

ReleaseBatch(r) ==
    /\ calls[r].at = "release"
    /\ calls' = [calls EXCEPT ![r].at = "done"]
    /\ num_pending_batches' = num_pending_batches - 1
    /\ UNCHANGED workload

(***************************************************************************)
(* Execute                                                                 *)
(***************************************************************************)
\* Mutant: the limit counts the batches before this one.
PendingAllowsOneMore == num_pending_batches <= workload.max_pending_batches

PendingAllows == num_pending_batches < workload.max_pending_batches

\* ExecuteManyWithSharedTimeouts, up to executor_->Run.
DispatchExecutionsInBatch(r) ==
    LET c == calls[r] IN
    \/ /\ ~PendingAllows
       /\ Becomes(r, FinishWithResponse([c EXCEPT !.at = "done"], "RESOURCE_EXHAUSTED", {}))
    \/ /\ PendingAllows
       /\ calls' = [calls EXCEPT ![r].at = "queued"]
       /\ num_pending_batches' = num_pending_batches + 1
       /\ UNCHANGED workload

ExecuteBinary(r) ==
    LET c == calls[r] IN
    /\ c.at = "execute" /\ workload.groups[r] > 0
    /\ \/ c.rpc.cancelled /\ Becomes(r, FinishWithResponse([c EXCEPT !.at = "done"], "CANCELLED", {}))
       \/ ~c.rpc.cancelled /\ Unbatched /\ Becomes(r, {[c EXCEPT !.at = "single"]})
       \/ ~c.rpc.cancelled /\ ~Unbatched /\ DispatchExecutionsInBatch(r)

\* ProtectedAppSignalsGenerateBidsBinaryReactor.
ExecutePasBinary(r) ==
    /\ calls[r].at = "execute" /\ workload.groups[r] = 0
    /\ Becomes(r, {[calls[r] EXCEPT !.at = "done", !.rpc = Finished(@, "UNIMPLEMENTED")]})

(***************************************************************************)
(* gRPC                                                                    *)
(***************************************************************************)
Dispatching(c) == c.at = "execute" \/ (c.at = "single" /\ c.next <= c.igs)

ByobExecuteReturns(r) ==
    LET c == calls[r] IN
    c.rpc.executing /\ ~Dispatching(c) /\ Becomes(r, {[c EXCEPT !.rpc = Returned(@)]})

ByobOnCancel(r) ==
    LET c == calls[r] IN
    /\ ~c.rpc.cancelled /\ ~c.rpc.deleted
    /\ Becomes(r, {[c EXCEPT !.rpc = ByClient(@)]})

ByobOnDone(r) ==
    CanDelete(calls[r].rpc) /\ Becomes(r, {[calls[r] EXCEPT !.rpc = Deleted(@)]})

ByobStep ==
    \E r \in Calls :
        \/ ExecuteBinary(r) \/ ExecutePasBinary(r)
        \/ DispatchInterestGroup(r) \/ ProcessResponse(r) \/ CompleteTask(r)
        \/ StartBatch(r) \/ DispatchRun(r) \/ StoreResult(r) \/ CancelRuns(r)
        \/ EndBatch(r) \/ ReleaseBatch(r)
        \/ ByobExecuteReturns(r) \/ ByobOnDone(r)

\* The work of a reactor that uses it: the end of a batch only uses the client.
Uses(c) == c.running # {} \/ c.at \in UnderWay \ {"release"}

\* What goes on with a deleted reactor has no meaning.
ByobNext ==
    /\ \A r \in Calls : ~(calls[r].rpc.deleted /\ Uses(calls[r]))
    /\ ByobStep \/ \E r \in Calls : ByobOnCancel(r)
=============================================================================
