---------------------------- MODULE V8Dispatcher ----------------------------
(* V8Dispatcher::BatchExecute                                                *)
(* (src/services/common/clients/code_dispatcher/v8_dispatcher.cc): a batch   *)
(* of requests is given to Roma one by one, Roma answers each of them on a   *)
(* thread of its own, and the thread whose answer is the last one calls the  *)
(* callback of the batch. A reactor has at most one batch at a time.         *)
(*                                                                           *)
(* Roma accepts a request, to answer it at some time (each one has a         *)
(* timeout), or refuses it when its queue is full.                           *)
EXTENDS Integers, FiniteSets

VARIABLE batch  \* the batch under way, as a record of BatchStates

BatchOK ==
    /\ batch.size \in Nat /\ batch.sent \in 0..batch.size
    /\ DOMAIN batch.response = 1..batch.size
    /\ batch.stored \subseteq 1..batch.sent /\ batch.counted \subseteq batch.stored
    /\ batch.finished_counter = Cardinality(batch.counted)

NewBatch(n) ==
    [size |-> n,             \* batch_size
     sent |-> 0,             \* index: the requests Roma has accepted
     response |-> [i \in 1..n |-> [ok |-> FALSE]],  \* batch_response
     stored |-> {},          \* the threads that have written theirs...
     counted |-> {},         \* ...and those that are past fetch_add
     finished_counter |-> 0]

NoBatch == NewBatch(0)

\* The loop of BatchExecute. A request after the first is tried again until Roma
\* accepts it, which is no step.
ExecuteOne == batch.sent < batch.size /\ batch' = [batch EXCEPT !.sent = @ + 1]

\* The first request is refused: BatchExecute returns, and no callback follows.
FirstRefused == batch.sent = 0 /\ batch.size > 0

\* single_callback of request i, up to fetch_add...
StoreResponse(i, response) ==
    /\ i \in 1..batch.sent \ batch.stored
    /\ batch' = [batch EXCEPT !.response[i] = response, !.stored = @ \cup {i}]

\* ...and from there: IsLast says whether this thread calls the callback.
CanCount(i) == i \in batch.stored \ batch.counted

IsLastByOldCount(i) == batch.finished_counter = batch.size
IsLast(i) == batch.finished_counter + 1 = batch.size

CountedResponse(i) ==
    [batch EXCEPT !.counted = @ \cup {i}, !.finished_counter = @ + 1]

CountResponse(i) == CanCount(i) /\ ~IsLast(i) /\ batch' = CountedResponse(i)
=============================================================================
