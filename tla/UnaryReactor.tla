---------------------------- MODULE UnaryReactor ----------------------------
(* The RPC of a reactor of the bidding service: CodeDispatchReactor          *)
(* (src/services/common/code_dispatch/code_dispatch_reactor.h) over gRPC's   *)
(* ServerUnaryReactor, as operators on a record. The service creates the     *)
(* reactor, calls its Execute and returns it to gRPC, which only then binds  *)
(* it to the call: until that a Finish is kept, and a later one takes its    *)
(* place. Once bound, the status is sent, and OnDone deletes the reactor.    *)
EXTENDS Sequences

Statuses == {"OK", "CANCELLED", "INTERNAL", "INVALID_ARGUMENT",
             "RESOURCE_EXHAUSTED", "UNIMPLEMENTED"}

Rpcs == [decrypted : BOOLEAN,   \* the constructor could decrypt the request
         encrypted : BOOLEAN,   \* no encryption of a response has failed
         executing : BOOLEAN,   \* the service has not returned the reactor yet
         statuses : Seq(Statuses), \* what was sent, or is kept to be sent
         cancelled : BOOLEAN,   \* the client has cancelled
         deleted : BOOLEAN]     \* OnDone has run

\* The constructor finishes the RPC of a request it cannot decrypt, and the
\* service calls Execute all the same, on an empty raw request.
NewRpc(decrypted) ==
    [decrypted |-> decrypted, encrypted |-> TRUE, executing |-> TRUE,
     statuses |-> IF decrypted THEN <<>> ELSE <<"INVALID_ARGUMENT">>,
     cancelled |-> FALSE, deleted |-> FALSE]

Finished(rpc, status) ==
    [rpc EXCEPT !.statuses = IF rpc.executing THEN <<status>> ELSE Append(@, status)]

\* EncryptResponse finishes the RPC itself when it fails; its caller finishes it
\* again.
EncryptionFailed(rpc) ==
    [Finished(Finished(rpc, "INTERNAL"), "INTERNAL") EXCEPT !.encrypted = FALSE]

\* What EncryptResponseAndFinish(status) may make of the RPC.
EncryptedAndFinished(rpc, status) == {Finished(rpc, status), EncryptionFailed(rpc)}

\* Execute returns; the client cancels; OnDone.
Returned(rpc) == [rpc EXCEPT !.executing = FALSE]
ByClient(rpc) == [rpc EXCEPT !.cancelled = TRUE]
CanDelete(rpc) == ~rpc.executing /\ rpc.statuses # <<>> /\ ~rpc.deleted
Deleted(rpc) == [rpc EXCEPT !.deleted = TRUE]

\* Whether the one status that was sent is this one. A request that could not be
\* decrypted, or a response that could not be encrypted, is answered otherwise.
AnsweredWith(rpc, status) ==
    rpc.decrypted /\ rpc.encrypted /\ rpc.statuses # <<>> /\ rpc.statuses[1] = status
=============================================================================
