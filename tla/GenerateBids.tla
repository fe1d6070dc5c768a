---------------------------- MODULE GenerateBids ----------------------------
(* The reactors of the bidding service over Roma's V8: GenerateBidsReactor   *)
(* runs generateBid for the interest groups of a request, as one batch       *)
(* (src/services/bidding_service/generate_bids_reactor.cc);                  *)
(* ProtectedAppSignalsGenerateBidsReactor runs prepareDataForAdRetrieval,    *)
(* fetches ads with what it returns, or their metadata if the request names  *)
(* them, and runs generateBid on those                                       *)
(* (protected_app_signals_generate_bids_reactor.cc). One request.            *)
(*                                                                           *)
(* A run has failed, or returned bids of which some are valid or none is.    *)
EXTENDS V8Dispatcher, UnaryReactor

CONSTANT V8Requests  \* [kind, igs, built, metadata, contextual]

\* igs are the names of the interest groups of a request, built of those, in order,
\* whose input for generateBid can be built; metadata and contextual are for app
\* signals: whether its metadata is valid, and whether it names its ads.
ASSUME V8Assumption ==
    \A r \in V8Requests : r.kind \in {"PA", "PAS"} /\ r.built \in Seq(r.igs)

VARIABLES
    request,
    rpc,
    stage,       \* what the reactor waits for, or does next
    dispatched,  \* dispatch_requests_, by interest group
    generated,   \* the interest groups whose run has returned valid bids
    bids         \* of raw_response_: the interest groups bid for

bidVars == <<dispatched, generated, bids>>
v8Vars == <<batch, request, rpc, stage, bidVars>>

Stages == {"execute", "prepareData", "lookup", "generateBid", "done"}

\* The raw request of a request that could not be decrypted.
NoRawRequest(r) ==
    [kind |-> r.kind, igs |-> {}, built |-> <<>>, metadata |-> r.metadata,
     contextual |-> FALSE]

IsPas == request.kind = "PAS"
V8TypeOK ==
    /\ BatchOK /\ rpc \in Rpcs /\ stage \in Stages
    /\ dispatched \in Seq(request.igs \cup {"ads"})
    /\ batch.size \in {0, Len(dispatched)}
    /\ generated \subseteq {dispatched[i] : i \in DOMAIN dispatched}
    /\ bids # {} => rpc.statuses # <<>>

V8Init ==
    /\ batch = NoBatch
    /\ \E r \in V8Requests, decrypted \in BOOLEAN :
         /\ request = IF decrypted THEN r ELSE NoRawRequest(r)
         /\ rpc = NewRpc(decrypted)
    /\ stage = "execute"
    /\ dispatched = <<>> /\ generated = {} /\ bids = {}

\* With enable_cancellation off nothing looks at the flag, as if the client never
\* cancelled.
Cancelled == rpc.cancelled

(***************************************************************************)
(* The end of a request                                                    *)
(***************************************************************************)
\* Each reactor has its EncryptResponseAndFinish: the one for app signals sends no
\* response with an error.
EncryptResponseAndFinish(status) ==
    /\ rpc' \in IF IsPas /\ status # "OK" THEN {Finished(rpc, status)}
                ELSE EncryptedAndFinished(rpc, status)
    /\ stage' = "done"

(***************************************************************************)
(* The batches of both reactors                                            *)
(***************************************************************************)
BatchExecute(names, next) ==
    /\ dispatched' = names /\ batch' = NewBatch(Len(names))
    /\ stage' = next /\ UNCHANGED <<rpc, generated, bids>>

\* ExecuteRomaRequests, with a batch of one. It looks at the flag of the cancellation
\* again, as FetchAds does: its callers have just done so, in the same step.
ExecuteRomaRequests(next) == BatchExecute(<<"ads">>, next)

Udfs == {"prepareData", "generateBid"}

Dispatch ==
    /\ stage \in Udfs /\ ExecuteOne
    /\ UNCHANGED <<request, rpc, stage, bidVars>>

DispatchFails ==
    /\ stage \in Udfs /\ FirstRefused
    /\ EncryptResponseAndFinish("INTERNAL") /\ batch' = NoBatch
    /\ UNCHANGED <<request, bidVars>>

Respond ==
    /\ stage \in Udfs
    /\ \E i \in 1..batch.sent :
         \/ \E ok, valid \in BOOLEAN :
              /\ StoreResponse(i, [ok |-> ok, valid |-> ok /\ valid])
              /\ generated' = IF ok /\ valid /\ stage = "generateBid"
                              THEN generated \cup {dispatched[i]} ELSE generated
         \/ CountResponse(i) /\ UNCHANGED generated
    /\ UNCHANGED <<request, rpc, stage, dispatched, bids>>

\* The callback of a batch, in the thread of its last response.
Answered(s) ==
    stage = s /\ \E i \in 1..batch.size : CanCount(i) /\ IsLast(i)

CancelledCallback ==
    /\ \E s \in Udfs : Answered(s)
    /\ Cancelled
    /\ EncryptResponseAndFinish("CANCELLED") /\ batch' = NoBatch
    /\ UNCHANGED <<request, bidVars>>

(***************************************************************************)
(* GenerateBidsReactor                                                     *)
(***************************************************************************)
\* dispatch_requests_ after the loop over the interest groups.
Built == request.built

Execute ==
    /\ stage = "execute" /\ ~IsPas
    /\ CASE Cancelled \/ Built = <<>> ->
              /\ EncryptResponseAndFinish(
                     CASE Cancelled -> "CANCELLED"
                       [] request.igs = {} -> "INVALID_ARGUMENT"
                       [] OTHER -> "OK")
              /\ UNCHANGED <<batch, bidVars>>
         [] OTHER -> BatchExecute(Built, "generateBid")
    /\ UNCHANGED request

\* Failed runs and invalid bids are left out; a bid is named by the id of its run.
GenerateBidsCallback ==
    /\ Answered("generateBid") /\ ~IsPas /\ ~Cancelled
    /\ bids' = {dispatched[i] : i \in {j \in 1..batch.size : batch.response[j].ok
                                                             /\ batch.response[j].valid}}
    /\ EncryptResponseAndFinish("OK") /\ batch' = NoBatch
    /\ UNCHANGED <<request, dispatched, generated>>

(***************************************************************************)
(* ProtectedAppSignalsGenerateBidsReactor                                  *)
(***************************************************************************)
\* FetchAds and FetchAdsMetadata: ExecuteInternal of a key-value client.
FetchAds ==
    /\ \/ EncryptResponseAndFinish("INTERNAL")
       \/ stage' = "lookup" /\ UNCHANGED rpc
    /\ batch' = NoBatch /\ UNCHANGED bidVars

ExecutePas ==
    /\ stage = "execute" /\ IsPas
    /\ CASE Cancelled \/ ~request.metadata ->
              /\ EncryptResponseAndFinish(IF Cancelled THEN "CANCELLED" ELSE "INVALID_ARGUMENT")
              /\ UNCHANGED <<batch, bidVars>>
         [] OTHER -> IF request.contextual THEN FetchAds
                     ELSE ExecuteRomaRequests("prepareData")
    /\ UNCHANGED request

\* The callback of ExecuteRomaRequests: the run failed or its response does not
\* parse...
RomaFailed ==
    /\ IsPas /\ \E s \in Udfs : Answered(s)
    /\ ~Cancelled
    /\ EncryptResponseAndFinish("INTERNAL") /\ batch' = NoBatch
    /\ UNCHANGED <<request, bidVars>>

\* ...or it was successful.
OnPreparedData ==
    /\ Answered("prepareData") /\ ~Cancelled /\ batch.response[1].ok
    /\ FetchAds
    /\ UNCHANGED request

OnSuccessfulBids ==
    /\ Answered("generateBid") /\ IsPas /\ ~Cancelled /\ batch.response[1].ok
    /\ bids' = IF batch.response[1].valid THEN {dispatched[1]} ELSE {}
    /\ EncryptResponseAndFinish("OK") /\ batch' = NoBatch
    /\ UNCHANGED <<request, dispatched, generated>>

LookupFails ==
    /\ stage = "lookup"
    /\ EncryptResponseAndFinish(IF Cancelled THEN "CANCELLED" ELSE "INTERNAL")
    /\ UNCHANGED <<batch, request, bidVars>>

\* Without ads the request ends, without bids.
OnFetchAdsDataDone ==
    /\ stage = "lookup" /\ ~Cancelled
    /\ \/ EncryptResponseAndFinish("OK") /\ UNCHANGED <<batch, bidVars>>
       \/ ExecuteRomaRequests("generateBid")
    /\ UNCHANGED request

(***************************************************************************)
(* gRPC                                                                    *)
(***************************************************************************)
\* Execute returns once it has given its batch to Roma.
ExecuteReturns ==
    /\ stage # "execute" /\ batch.sent = batch.size /\ rpc.executing
    /\ rpc' = Returned(rpc)
    /\ UNCHANGED <<batch, request, stage, bidVars>>

\* OnCancel. The look-ups of the reactor for app signals are not cancelled: they are
\* in a client_contexts_ of its own, and OnCancel cancels that of its superclass.
OnCancel ==
    /\ ~rpc.cancelled /\ ~rpc.deleted /\ rpc' = ByClient(rpc)
    /\ UNCHANGED <<batch, request, stage, bidVars>>

OnDone ==
    /\ CanDelete(rpc) /\ rpc' = Deleted(rpc)
    /\ UNCHANGED <<batch, request, stage, bidVars>>

V8Step ==
    \/ Execute \/ GenerateBidsCallback
    \/ ExecutePas \/ RomaFailed \/ OnPreparedData \/ OnSuccessfulBids
    \/ LookupFails \/ OnFetchAdsDataDone
    \/ Dispatch \/ DispatchFails \/ Respond \/ CancelledCallback
    \/ ExecuteReturns \/ OnDone

\* What runs on after the reactor is deleted has no meaning.
V8Next == ~rpc.deleted /\ (V8Step \/ OnCancel)
=============================================================================
