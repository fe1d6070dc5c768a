--------------------------- MODULE BiddingService ---------------------------
(* The bidding service (src/services/bidding_service/bidding_service.cc): a  *)
(* server has the reactors for V8 or those for BYOB (bidding_main.cc). What  *)
(* it owes its callers is stated here once for all four reactors.            *)
EXTENDS GenerateBids, GenerateBidsBinary

VARIABLE udf_mode  \* "V8" or "BYOB"

vars == <<udf_mode, v8Vars, byobVars>>

V8Idle ==
    /\ batch = NoBatch /\ request = <<>> /\ rpc = NewRpc(TRUE)
    /\ stage = "execute" /\ dispatched = <<>> /\ generated = {} /\ bids = {}

ByobIdle == calls = <<>> /\ num_pending_batches = 0 /\ workload = <<>>

Init ==
    \/ udf_mode = "V8" /\ V8Init /\ ByobIdle
    \/ udf_mode = "BYOB" /\ ByobInit /\ V8Idle

Next ==
    \/ udf_mode = "V8" /\ V8Next /\ UNCHANGED <<udf_mode, byobVars>>
    \/ udf_mode = "BYOB" /\ ByobNext /\ UNCHANGED <<udf_mode, v8Vars>>

\* Every thread goes on, and a run or look-up ends, as each has a timeout. Clients
\* need not cancel.
Fairness ==
    /\ WF_vars(udf_mode = "V8" /\ ~rpc.deleted /\ V8Step /\ UNCHANGED <<udf_mode, byobVars>>)
    /\ WF_vars(udf_mode = "BYOB" /\ ByobNext /\ ByobStep /\ UNCHANGED <<udf_mode, v8Vars>>)

Spec == Init /\ [][Next]_vars /\ Fairness

\* The types; and the counter of the BYOB client is the number of batches it has
\* accepted and not released, within the limit.
TypeOK ==
    CASE udf_mode = "V8" -> V8TypeOK
      [] udf_mode = "BYOB" -> ByobTypeOK

\* OnDone deletes the reactor (every reactor): no batch, look-up, run or closure that
\* goes back to it is under way by then, and no RPC is finished a second time. A
\* request that could not be decrypted is excepted, as Execute goes on with it after
\* the constructor has finished its RPC; and a response that could not be encrypted
\* from the second part. Nor does a batch release its thread, and with it the locals
\* its runs write to, while one of them is to call back (AwaitOrCancelAllCallbacks).
CallbacksFindTheirState ==
    CASE udf_mode = "V8" ->
           rpc.decrypted =>
             /\ rpc.deleted => stage = "done" /\ batch = NoBatch
             /\ rpc.encrypted => Len(rpc.statuses) <= 1
      [] udf_mode = "BYOB" ->
           \A r \in Calls :
             /\ calls[r].at = "release" => calls[r].running = {}
             /\ calls[r].rpc.decrypted =>
                  /\ calls[r].rpc.deleted => ~Uses(calls[r])
                  /\ calls[r].rpc.encrypted => Len(calls[r].rpc.statuses) <= 1

\* The status of an answer says what became of the runs: the bids of an OK are those
\* of exactly the interest groups whose own run returned valid ones; the caller is
\* told to try again (RESOURCE_EXHAUSTED) only if nothing was run, that it failed
\* only if there is no bid, and that it cancelled only if it did.
StatusMatchesOutcome ==
    CASE udf_mode = "V8" ->
           /\ AnsweredWith(rpc, "OK") => bids = generated
           /\ AnsweredWith(rpc, "CANCELLED") => rpc.cancelled
           /\ ~AnsweredWith(rpc, "OK") => bids = {} \/ ~rpc.encrypted \/ ~rpc.decrypted
      [] udf_mode = "BYOB" ->
           \A r \in Calls :
             LET c == calls[r]
                 Ended(os) == {i \in 1..c.igs : c.outcome[i] \in os}
             IN /\ AnsweredWith(c.rpc, "OK") => c.bids = Ended({"bids"})
                                                /\ Ended(Outcomes) = 1..c.igs
                /\ AnsweredWith(c.rpc, "RESOURCE_EXHAUSTED") =>
                       Ended({"lost"}) = 1..c.igs \/ Ended({"unstarted"}) = 1..c.igs
                /\ AnsweredWith(c.rpc, "INTERNAL") => Ended({"bids", "none"}) = {}
                /\ AnsweredWith(c.rpc, "CANCELLED") => c.rpc.cancelled

\* Every RPC is answered, and every place of a batch is free again, whatever fails on
\* the way. (A deleted reactor that is still used may do anything.)
AllAnswered ==
    CASE udf_mode = "V8" -> rpc.deleted
      [] udf_mode = "BYOB" ->
           \/ \A r \in Calls : calls[r].rpc.deleted /\ calls[r].at # "release"
           \/ \E r \in Calls : calls[r].rpc.deleted /\ Uses(calls[r])

EventuallyAnswered == <>AllAnswered
=============================================================================
