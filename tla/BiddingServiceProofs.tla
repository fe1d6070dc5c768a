------------------------ MODULE BiddingServiceProofs ------------------------
(* Proofs about the four reactors of BiddingService, for any requests, any    *)
(* number of runs, any limit of batches and any number of threads: a reactor  *)
(* is deleted only after its last callback, and its status says what became   *)
(* of the runs.                                                               *)
EXTENDS BiddingService, TaskCountersProofs, SequenceTheorems

-----------------------------------------------------------------------------
(* The inductive invariant over V8.                                          *)

\* The runs of the batch that have returned valid bids.
ValidRuns == {i \in batch.stored : batch.response[i].ok /\ batch.response[i].valid}

\* A batch is one of the requests dispatched, each response is what a run has stored,
\* and there is no batch but while its callback is awaited.
BatchOfRuns ==
    /\ batch = [size |-> batch.size, sent |-> batch.sent, response |-> batch.response,
                stored |-> batch.stored, counted |-> batch.counted,
                finished_counter |-> batch.finished_counter]
    /\ batch.response = [i \in 1..batch.size |-> batch.response[i]]
    /\ \A i \in batch.stored : batch.response[i] \in [ok : BOOLEAN, valid : BOOLEAN]
    /\ stage \notin Udfs => batch = NoBatch
    /\ stage \in Udfs => batch.size = Len(dispatched)
    /\ IsPas /\ stage \in Udfs => dispatched = <<"ads">>

\* What has been generated is what the valid runs of generateBid are for.
GeneratedByRuns ==
    /\ stage = "generateBid" => generated = {dispatched[i] : i \in ValidRuns}
    /\ stage \in {"execute", "prepareData", "lookup"} => generated = {}

\* The RPC is finished in the step that makes the reactor wait for nothing more.
FinishedWhenDone ==
    /\ stage # "done" => bids = {}
    /\ stage = "done" => rpc.statuses # <<>>
    /\ rpc.decrypted /\ stage # "done" => rpc.statuses = <<>>
    /\ rpc.decrypted /\ rpc.encrypted => Len(rpc.statuses) <= 1
    /\ rpc.deleted => rpc.statuses # <<>>

V8Status ==
    /\ AnsweredWith(rpc, "OK") => bids = generated
    /\ AnsweredWith(rpc, "CANCELLED") => rpc.cancelled
    /\ ~AnsweredWith(rpc, "OK") => bids = {} \/ ~rpc.encrypted \/ ~rpc.decrypted

V8Inv ==
    /\ request.kind \in {"PA", "PAS"} /\ request.built \in Seq(request.igs)
    /\ V8TypeOK /\ BatchOfRuns /\ GeneratedByRuns /\ FinishedWhenDone /\ V8Status

-----------------------------------------------------------------------------
(* The inductive invariant over BYOB, of each call by itself: c is the state  *)
(* of a call for n interest groups.                                          *)

CallsOf(n) ==
    [rpc : Rpcs, igs : {0, n}, at : Locations, next : Nat, running : SUBSET (1..n),
     killed : BOOLEAN, count : Nat,
     outcome : [1..n -> Outcomes \cup {"lost"}],
     responses : [1..n -> Outcomes \cup {"lost"}],
     tracker : Trackers, timeout_waiting : Nat, success_executed : Nat,
     ads_with_bids : SUBSET (1..n), bids : SUBSET (1..n)]

\* The interest groups whose runs ended in one of the ways os; those with no answer.
EndedIn(c, os) == {i \in 1..c.igs : c.outcome[i] \in os}
LostRuns(c) == EndedIn(c, {"lost"})

\* Of the runs one by one: those to be dispatched or to report to the tracker, and
\* those that have reported s.
Pending(c) == (c.next..c.igs) \cup c.running
Reported(c, s) == {i \in (1..c.igs) \ Pending(c) : TaskStatusOf(c.outcome[i]) = s}

\* Nothing is left to do but to release the thread and to end the RPC.
AtEnd(c) == c.at \in {"release", "done"} \/ (c.at = "single" /\ Pending(c) = {})

CallShape(c, n) ==
    /\ c \in CallsOf(n)
    /\ c.igs = IF c.rpc.decrypted THEN n ELSE 0
    /\ c.at \notin {"execute", "done"} => n > 0

\* Nothing has been run before the runs are dispatched.
NothingRun(c) ==
    c.at \in {"execute", "queued"} =>
        /\ c.next = 1 /\ c.running = {} /\ LostRuns(c) = 1..c.igs
        /\ c.responses = c.outcome
        /\ c.tracker = Tracking(c.igs)
        /\ c.timeout_waiting = 0 /\ c.success_executed = 0
        /\ c.ads_with_bids = {}

\* The tracker counts the runs that are pending and those that have reported; of the
\* updates of udf_stats_, which race, none adds too much.
RunsOneByOne(c) ==
    c.at = "single" =>
        /\ c.next \in 1..(c.igs + 1)
        /\ c.running \subseteq 1..(c.next - 1)
        /\ \A i \in c.next..c.igs : c.outcome[i] = "lost"
        /\ \A i \in (1..c.igs) \ Pending(c) : c.outcome[i] # "lost"
        /\ c.tracker.pending = Cardinality(Pending(c))
        /\ \A s \in TaskStatus : c.tracker.count[s] = Cardinality(Reported(c, s))
        /\ c.timeout_waiting <= Cardinality(EndedIn(c, {"unstarted"}))
        /\ c.success_executed = 0
        /\ c.ads_with_bids = EndedIn(c, {"bids"})

\* The answers a batch awaits are those of the runs without one, of which each that
\* has been dispatched is running.
RunsInABatch(c) ==
    /\ c.at = "loop" =>
           /\ c.next \in 1..(c.igs + 1)
           /\ c.running = {i \in 1..(c.next - 1) : c.outcome[i] = "lost"}
           /\ \A i \in c.next..c.igs : c.outcome[i] = "lost"
    /\ c.at = "await" => c.running = LostRuns(c)
    /\ c.at \in {"loop", "await"} =>
           /\ c.responses = c.outcome /\ c.ads_with_bids = {}
           /\ c.timeout_waiting = 0 /\ c.success_executed = 0
    /\ c.count = IF c.at \in {"loop", "await"} THEN Cardinality(LostRuns(c)) ELSE 0
    /\ c.at \in {"release", "done"} =>
           /\ c.running = {}
           /\ c.timeout_waiting + c.success_executed <= c.igs

\* The RPC of a request that could be decrypted is finished when the work is over.
FinishedWhenOver(c) ==
    /\ c.bids \subseteq c.ads_with_bids
    /\ ~AtEnd(c) => c.bids = {}
    /\ c.rpc.decrypted =>
           /\ ~AtEnd(c) => c.rpc.statuses = <<>>
           /\ AtEnd(c) => c.rpc.statuses # <<>>
           /\ c.rpc.encrypted => Len(c.rpc.statuses) <= 1
           /\ c.rpc.deleted => c.rpc.statuses # <<>>

CallStatus(c) ==
    /\ AnsweredWith(c.rpc, "OK") =>
           c.bids = EndedIn(c, {"bids"}) /\ EndedIn(c, Outcomes) = 1..c.igs
    /\ AnsweredWith(c.rpc, "RESOURCE_EXHAUSTED") =>
           LostRuns(c) = 1..c.igs \/ EndedIn(c, {"unstarted"}) = 1..c.igs
    /\ AnsweredWith(c.rpc, "INTERNAL") => EndedIn(c, {"bids", "none"}) = {}
    /\ AnsweredWith(c.rpc, "CANCELLED") => c.rpc.cancelled

WorkInv(c, n) ==
    CallShape(c, n) /\ NothingRun(c) /\ RunsOneByOne(c) /\ RunsInABatch(c)

CallInv(c, n) == WorkInv(c, n) /\ FinishedWhenOver(c) /\ CallStatus(c)

\* The client's counter is the batches under way, within its limit and its threads.
ClientCounts ==
    /\ IsFiniteSet(Batches(UnderWay))
    /\ num_pending_batches = Cardinality(Batches(UnderWay))
    /\ num_pending_batches <= workload.max_pending_batches
    /\ Cardinality(Batches(OnThread)) <= workload.threads

ByobInv ==
    /\ workload \in ByobWorkloads
    /\ calls = [r \in DOMAIN workload.groups |-> calls[r]]
    /\ \A r \in Calls : CallInv(calls[r], workload.groups[r])
    /\ ClientCounts

\* What every state of a server satisfies.
IInv ==
    /\ udf_mode \in {"V8", "BYOB"}
    /\ udf_mode = "V8" => V8Inv
    /\ udf_mode = "BYOB" => ByobInv

-----------------------------------------------------------------------------
(* The RPC of a reactor.                                                     *)

\* What a Finish, and a response that may fail to be encrypted, make of an RPC.
LEMMA FinishedRpc ==
    ASSUME NEW p \in Rpcs, NEW s \in Statuses, NEW q \in EncryptedAndFinished(p, s) \cup {Finished(p, s)}
    PROVE  /\ q \in Rpcs /\ q.statuses # <<>>
           /\ q.decrypted = p.decrypted /\ q.executing = p.executing
           /\ q.cancelled = p.cancelled /\ q.deleted = p.deleted
           /\ p.statuses = <<>> /\ q.encrypted => q.statuses = <<s>>
           /\ q.encrypted => p.encrypted
<1>1. \A o \in Rpcs, t \in Statuses :
         /\ Finished(o, t) \in Rpcs /\ Finished(o, t).statuses # <<>>
         /\ Finished(o, t).decrypted = o.decrypted
         /\ Finished(o, t).executing = o.executing
         /\ Finished(o, t).cancelled = o.cancelled /\ Finished(o, t).deleted = o.deleted
         /\ Finished(o, t).encrypted = o.encrypted
         /\ o.statuses = <<>> => Finished(o, t).statuses = <<t>>
  <2> SUFFICES ASSUME NEW o \in Rpcs, NEW t \in Statuses
               PROVE  /\ Finished(o, t) \in Rpcs /\ Finished(o, t).statuses # <<>>
                      /\ Finished(o, t).decrypted = o.decrypted
                      /\ Finished(o, t).executing = o.executing
                      /\ Finished(o, t).cancelled = o.cancelled
                      /\ Finished(o, t).deleted = o.deleted
                      /\ Finished(o, t).encrypted = o.encrypted
                      /\ o.statuses = <<>> => Finished(o, t).statuses = <<t>>
    OBVIOUS
  <2>1. o.statuses \in Seq(Statuses)
    BY DEF Rpcs
  <2>2. /\ Append(o.statuses, t) \in Seq(Statuses) /\ Append(o.statuses, t) # <<>>
    BY <2>1, AppendProperties
  <2>3. /\ <<t>> \in Seq(Statuses) /\ <<t>> # <<>> /\ Append(<<>>, t) = <<t>>
    OBVIOUS
  <2> QED
    BY <2>2, <2>3 DEF Finished, Rpcs
<1>2. CASE q = Finished(p, s)
  BY <1>1, <1>2
<1>3. CASE q = EncryptionFailed(p)
  <2>1. "INTERNAL" \in Statuses
    BY DEF Statuses
  <2> DEFINE o == Finished(Finished(p, "INTERNAL"), "INTERNAL")
  <2>2. /\ o \in Rpcs /\ o.statuses # <<>> /\ o.decrypted = p.decrypted
        /\ o.executing = p.executing /\ o.cancelled = p.cancelled /\ o.deleted = p.deleted
    BY <1>1, <2>1
  <2>3. q = [o EXCEPT !.encrypted = FALSE]
    BY <1>3 DEF EncryptionFailed
  <2> HIDE DEF o
  <2> QED
    BY <2>2, <2>3 DEF Rpcs
<1> QED
  BY <1>2, <1>3 DEF EncryptedAndFinished

\* An RPC that was not finished before is answered with what it is finished with.
LEMMA OnlyAnswer ==
    ASSUME NEW p \in Rpcs, NEW s \in Statuses, p.decrypted => p.statuses = <<>>,
           NEW q \in EncryptedAndFinished(p, s) \cup {Finished(p, s)}
    PROVE  /\ \A t : AnsweredWith(q, t) => t = s
           /\ q.decrypted /\ q.encrypted => AnsweredWith(q, s) /\ Len(q.statuses) <= 1
<1>1. /\ q.statuses # <<>> /\ q.decrypted = p.decrypted
      /\ p.statuses = <<>> /\ q.encrypted => q.statuses = <<s>>
  BY FinishedRpc
<1>2. q.decrypted /\ q.encrypted => q.statuses = <<s>>
  BY <1>1
<1>3. <<s>>[1] = s /\ Len(<<s>>) <= 1
  OBVIOUS
<1>4. q.decrypted /\ q.encrypted => q.statuses[1] = s /\ Len(q.statuses) <= 1
  BY <1>2, <1>3
<1> QED
  BY <1>1, <1>4 DEF AnsweredWith

\* Execute's return, the client and OnDone do not change how an RPC is answered.
LEMMA RpcGoesOn ==
    ASSUME NEW p \in Rpcs, NEW q \in {Returned(p), ByClient(p), Deleted(p)}
    PROVE  /\ q \in Rpcs /\ q.statuses = p.statuses
           /\ q.decrypted = p.decrypted /\ q.encrypted = p.encrypted
           /\ p.cancelled => q.cancelled
           /\ q \in {Returned(p), ByClient(p)} => q.deleted = p.deleted
           /\ \A t : AnsweredWith(q, t) <=> AnsweredWith(p, t)
BY DEF Rpcs, Returned, ByClient, Deleted, AnsweredWith

\* A fresh RPC: whether it could be decrypted decides about its first status.
LEMMA NewRpcType ==
    ASSUME NEW d \in BOOLEAN
    PROVE  /\ NewRpc(d) \in Rpcs /\ NewRpc(d).decrypted = d /\ NewRpc(d).encrypted
           /\ ~NewRpc(d).deleted
           /\ NewRpc(d).statuses = IF d THEN <<>> ELSE <<"INVALID_ARGUMENT">>
<1>1. <<"INVALID_ARGUMENT">> \in Seq(Statuses) /\ <<>> \in Seq(Statuses)
  BY EmptySeq DEF Statuses
<1> QED
  BY <1>1 DEF NewRpc, Rpcs

-----------------------------------------------------------------------------
(* Over V8.                                                                  *)

\* The fields of a batch, written out.
LEMMA NewBatchOK ==
    ASSUME NEW n \in Nat, NEW b, b = NewBatch(n)
    PROVE  /\ b = [size |-> b.size, sent |-> b.sent, response |-> b.response,
                   stored |-> b.stored, counted |-> b.counted,
                   finished_counter |-> b.finished_counter]
           /\ b.response = [i \in 1..b.size |-> b.response[i]]
           /\ DOMAIN b.response = 1..n
           /\ b.size = n /\ b.sent = 0 /\ b.stored = {} /\ b.counted = {}
           /\ b.finished_counter = 0 /\ Cardinality(b.counted) = 0
BY FS_EmptySet DEF NewBatch

\* A reactor over V8 begins in the invariant, decrypted or not.
LEMMA V8InitInv == V8Init => V8Inv
<1> SUFFICES ASSUME V8Init PROVE V8Inv
  OBVIOUS
<1>1. PICK r \in V8Requests, d \in BOOLEAN :
         request = (IF d THEN r ELSE NoRawRequest(r)) /\ rpc = NewRpc(d)
  BY DEF V8Init
<1>2. /\ r.kind \in {"PA", "PAS"} /\ r.built \in Seq(r.igs)
  BY V8Assumption
<1>3. request.kind \in {"PA", "PAS"} /\ request.built \in Seq(request.igs)
  <2>1. CASE d
    BY <1>1, <1>2, <2>1
  <2>2. CASE ~d
    BY <1>1, <1>2, <2>2, EmptySeq DEF NoRawRequest
  <2> QED
    BY <2>1, <2>2
<1>4. /\ rpc \in Rpcs /\ ~rpc.deleted
      /\ rpc.decrypted => rpc.statuses = <<>> /\ Len(rpc.statuses) = 0
  BY <1>1, NewRpcType, EmptySeq
<1>5. /\ stage = "execute" /\ dispatched = <<>> /\ generated = {} /\ bids = {}
      /\ stage \notin Udfs /\ batch = NewBatch(0)
  BY DEF V8Init, Udfs, NoBatch
<1>6. BatchOK /\ BatchOfRuns
  BY <1>5, NewBatchOK DEF BatchOK, BatchOfRuns, NoBatch
<1>7. V8TypeOK
  BY <1>4, <1>5, <1>6, EmptySeq, NewBatchOK DEF V8TypeOK, Stages
<1>8. GeneratedByRuns /\ FinishedWhenDone
  BY <1>4, <1>5 DEF GeneratedByRuns, FinishedWhenDone
<1>9. V8Status
  BY <1>4, <1>5 DEF V8Status, AnsweredWith
<1> QED
  BY <1>3, <1>6, <1>7, <1>8, <1>9 DEF V8Inv

\* The end of a request, with the bids it is answered with.
LEMMA V8Ends ==
    ASSUME V8Inv, stage # "done", NEW s \in Statuses, EncryptResponseAndFinish(s),
           batch' = NoBatch, UNCHANGED <<request, dispatched, generated>>,
           s = "CANCELLED" => rpc.cancelled,
           s = "OK" /\ rpc.decrypted => bids' = generated,
           s # "OK" => bids' = bids
    PROVE  V8Inv'
<1>1. rpc \in Rpcs /\ (rpc.decrypted => rpc.statuses = <<>>) /\ bids = {}
  BY DEF V8Inv, V8TypeOK, FinishedWhenDone
<1>2. rpc' \in EncryptedAndFinished(rpc, s) \cup {Finished(rpc, s)} /\ stage' = "done"
  BY DEF EncryptResponseAndFinish, EncryptedAndFinished
<1>3. /\ rpc' \in Rpcs /\ rpc'.statuses # <<>>
      /\ rpc'.decrypted = rpc.decrypted /\ rpc'.cancelled = rpc.cancelled
      /\ \A t : AnsweredWith(rpc', t) => t = s
      /\ rpc'.decrypted /\ rpc'.encrypted => AnsweredWith(rpc', s) /\ Len(rpc'.statuses) <= 1
  BY <1>1, <1>2, FinishedRpc, OnlyAnswer
<1>4. /\ stage' \notin Udfs /\ batch' = NewBatch(0)
      /\ stage' \notin {"execute", "prepareData", "lookup", "generateBid"}
  BY <1>2 DEF Udfs, NoBatch
<1>5. BatchOK' /\ BatchOfRuns'
  BY <1>4, NewBatchOK DEF BatchOK, BatchOfRuns, NoBatch
<1>6. V8TypeOK'
  <2>1. batch'.size = 0
    BY <1>4, NewBatchOK
  <2> QED
    BY <1>2, <1>3, <1>5, <2>1 DEF V8Inv, V8TypeOK, Stages
<1>7. GeneratedByRuns' /\ FinishedWhenDone'
  <2>1. GeneratedByRuns'
    BY <1>4 DEF GeneratedByRuns
  <2>2. rpc'.decrypted /\ rpc'.encrypted => Len(rpc'.statuses) <= 1
    BY <1>3
  <2> QED
    BY <1>2, <1>3, <2>1, <2>2 DEF FinishedWhenDone
<1>8. V8Status'
  <2>1. AnsweredWith(rpc, "OK")' => bids' = generated'
    BY <1>1, <1>3 DEF AnsweredWith
  <2>2. AnsweredWith(rpc, "CANCELLED")' => rpc'.cancelled
    BY <1>3
  <2>3. ~AnsweredWith(rpc, "OK")' => bids' = {} \/ ~rpc'.encrypted \/ ~rpc'.decrypted
    BY <1>1, <1>3
  <2> QED
    BY <2>1, <2>2, <2>3 DEF V8Status
<1> QED
  BY <1>5, <1>6, <1>7, <1>8 DEF V8Inv, IsPas

\* A batch begins, or a look-up.
LEMMA V8Batch ==
    ASSUME V8Inv, stage \in {"execute", "prepareData", "lookup"},
           NEW names \in Seq(request.igs \cup {"ads"}), NEW next \in Udfs,
           IsPas => names = <<"ads">>, BatchExecute(names, next), request' = request
    PROVE  V8Inv'
<1>1. /\ dispatched' = names /\ stage' = next /\ batch' = NewBatch(Len(names))
      /\ rpc' = rpc /\ generated' = {} /\ bids' = bids /\ bids = {} /\ Len(names) \in Nat
      /\ stage' \in {"prepareData", "generateBid"}
  BY DEF BatchExecute, V8Inv, GeneratedByRuns, FinishedWhenDone, Udfs
<1>2. BatchOK' /\ BatchOfRuns'
  BY <1>1, NewBatchOK DEF BatchOK, BatchOfRuns, IsPas
<1>3. V8TypeOK'
  <2>1. batch'.size = Len(dispatched')
    BY <1>1, NewBatchOK
  <2>2. rpc' \in Rpcs /\ stage' \in Stages /\ dispatched' \in Seq(request'.igs \cup {"ads"})
    BY <1>1 DEF V8Inv, V8TypeOK, Stages
  <2>3. /\ BatchOK' /\ batch'.size \in {0, Len(dispatched')}
        /\ generated' \subseteq {dispatched'[i] : i \in DOMAIN dispatched'}
    BY <1>1, <1>2, <2>1
  <2>4. bids' # {} => rpc'.statuses # <<>>
    BY <1>1
  <2> QED
    BY <2>2, <2>3, <2>4 DEF V8TypeOK
<1>4. ValidRuns' = {}
  BY <1>1, NewBatchOK DEF ValidRuns
<1>5. GeneratedByRuns' /\ FinishedWhenDone' /\ V8Status'
  BY <1>1, <1>4 DEF V8Inv, GeneratedByRuns, FinishedWhenDone, V8Status, AnsweredWith
<1> QED
  BY <1>2, <1>3, <1>5 DEF V8Inv

\* Without a batch, the reactor goes on to look its requests up.
LEMMA V8Lookup ==
    ASSUME V8Inv, stage \in {"execute", "prepareData"}, stage' = "lookup",
           batch' = NoBatch, UNCHANGED <<request, rpc, bidVars>>
    PROVE  V8Inv'
<1> USE DEF bidVars
<1>1. stage' \notin Udfs /\ batch' = NewBatch(0)
  BY DEF Udfs, NoBatch
<1>2. BatchOK' /\ BatchOfRuns'
  BY <1>1, NewBatchOK DEF BatchOK, BatchOfRuns, NoBatch
<1>3. V8TypeOK'
  <2>1. batch'.size = 0
    BY <1>1, NewBatchOK
  <2> QED
    BY <1>2, <2>1 DEF V8Inv, V8TypeOK, Stages
<1>4. GeneratedByRuns' /\ FinishedWhenDone' /\ V8Status'
  BY DEF V8Inv, GeneratedByRuns, FinishedWhenDone, V8Status, AnsweredWith
<1> QED
  BY <1>2, <1>3, <1>4 DEF V8Inv, IsPas

\* The loop of BatchExecute gives one more request to Roma.
LEMMA DispatchKeeps ==
    ASSUME V8Inv, Dispatch
    PROVE  V8Inv'
<1> USE DEF bidVars
<1>1. /\ BatchOK /\ BatchOfRuns /\ stage \in Udfs /\ batch.sent < batch.size
      /\ batch' = [batch EXCEPT !.sent = @ + 1]
  BY DEF V8Inv, V8TypeOK, Dispatch, ExecuteOne
<1>2. batch' = [size |-> batch.size, sent |-> batch.sent + 1, response |-> batch.response,
                stored |-> batch.stored, counted |-> batch.counted,
                finished_counter |-> batch.finished_counter]
  BY <1>1 DEF BatchOfRuns
<1>3. BatchOK'
  BY <1>1, <1>2 DEF BatchOK
<1>4. BatchOfRuns'
  BY <1>1, <1>2 DEF BatchOfRuns, Dispatch, IsPas
<1>5. V8TypeOK' /\ ValidRuns' = ValidRuns
  BY <1>2, <1>3 DEF V8Inv, V8TypeOK, Dispatch, ValidRuns
<1>6. GeneratedByRuns' /\ FinishedWhenDone' /\ V8Status'
  BY <1>5 DEF V8Inv, GeneratedByRuns, FinishedWhenDone, V8Status, Dispatch, AnsweredWith
<1> QED
  BY <1>3, <1>4, <1>5, <1>6 DEF V8Inv, Dispatch

\* A run writes its response, and with it what it has generated.
LEMMA StoreKeeps ==
    ASSUME V8Inv, stage \in Udfs, NEW i \in 1..batch.sent, NEW ok \in BOOLEAN,
           NEW valid \in BOOLEAN,
           StoreResponse(i, [ok |-> ok, valid |-> ok /\ valid]),
           generated' = IF ok /\ valid /\ stage = "generateBid"
                        THEN generated \cup {dispatched[i]} ELSE generated,
           UNCHANGED <<request, rpc, stage, dispatched, bids>>
    PROVE  V8Inv'
<1> DEFINE response == [ok |-> ok, valid |-> ok /\ valid]
<1>1. /\ BatchOK /\ BatchOfRuns /\ i \notin batch.stored /\ i \in 1..batch.size
      /\ batch' = [batch EXCEPT !.response[i] = response, !.stored = @ \cup {i}]
  BY DEF V8Inv, V8TypeOK, BatchOK, StoreResponse
<1>2. response \in [ok : BOOLEAN, valid : BOOLEAN] /\ (response.ok /\ response.valid <=> ok /\ valid)
  OBVIOUS
<1> HIDE DEF response
<1>3. /\ batch' = [size |-> batch.size, sent |-> batch.sent,
                   response |-> [batch.response EXCEPT ![i] = response],
                   stored |-> batch.stored \cup {i}, counted |-> batch.counted,
                   finished_counter |-> batch.finished_counter]
  BY <1>1 DEF BatchOfRuns
<1>4. /\ batch'.response = [j \in 1..batch.size |-> batch'.response[j]]
      /\ batch'.response[i] = response
      /\ \A j \in 1..batch.size \ {i} : batch'.response[j] = batch.response[j]
  BY <1>1, <1>3 DEF BatchOfRuns
<1>5. BatchOK'
  BY <1>1, <1>3, <1>4 DEF BatchOK
<1>6. batch.stored \subseteq 1..batch.size
  BY <1>1 DEF BatchOK
<1>7. BatchOfRuns'
  <2>1. batch' = [size |-> batch'.size, sent |-> batch'.sent, response |-> batch'.response,
                  stored |-> batch'.stored, counted |-> batch'.counted,
                  finished_counter |-> batch'.finished_counter]
    BY <1>3
  <2>2. \A j \in batch'.stored : batch'.response[j] \in [ok : BOOLEAN, valid : BOOLEAN]
    <3> SUFFICES ASSUME NEW j \in batch'.stored
                 PROVE  batch'.response[j] \in [ok : BOOLEAN, valid : BOOLEAN]
      OBVIOUS
    <3>1. CASE j = i
      BY <1>2, <1>4, <3>1
    <3>2. CASE j # i
      <4>1. j \in batch.stored /\ j \in 1..batch.size \ {i}
        BY <1>3, <1>6, <3>2
      <4>2. batch'.response[j] = batch.response[j]
        BY <1>4, <4>1
      <4> QED
        BY <1>1, <4>1, <4>2 DEF BatchOfRuns
    <3> QED
      BY <3>1, <3>2
  <2>3. batch'.size = batch.size
    BY <1>3
  <2> QED
    BY <1>1, <1>4, <2>1, <2>2, <2>3 DEF BatchOfRuns, IsPas
<1>8. ValidRuns' = IF ok /\ valid THEN ValidRuns \cup {i} ELSE ValidRuns
  BY <1>1, <1>2, <1>3, <1>4, <1>6 DEF ValidRuns
<1>9. batch.size = Len(dispatched) /\ dispatched \in Seq(request.igs \cup {"ads"})
  BY <1>1 DEF V8Inv, V8TypeOK, BatchOfRuns
<1>10. V8TypeOK'
  BY <1>1, <1>3, <1>5, <1>9 DEF V8Inv, V8TypeOK
<1>11. GeneratedByRuns'
  BY <1>1, <1>8 DEF V8Inv, GeneratedByRuns
<1>12. FinishedWhenDone' /\ V8Status'
  BY DEF V8Inv, FinishedWhenDone, V8Status, AnsweredWith, Udfs
<1> QED
  BY <1>7, <1>10, <1>11, <1>12 DEF V8Inv

\* A run adds itself to finished_counter.
LEMMA CountKeeps ==
    ASSUME V8Inv, stage \in Udfs, NEW i \in 1..batch.sent, CountResponse(i),
           UNCHANGED <<request, rpc, stage, bidVars>>
    PROVE  V8Inv'
<1> USE DEF bidVars
<1>1. /\ BatchOK /\ BatchOfRuns /\ i \in batch.stored \ batch.counted
      /\ batch' = [batch EXCEPT !.counted = @ \cup {i}, !.finished_counter = @ + 1]
  BY DEF V8Inv, V8TypeOK, CountResponse, CanCount, CountedResponse
<1>2. /\ batch' = [size |-> batch.size, sent |-> batch.sent, response |-> batch.response,
                   stored |-> batch.stored, counted |-> batch.counted \cup {i},
                   finished_counter |-> batch.finished_counter + 1]
  BY <1>1 DEF BatchOfRuns
<1>3. Cardinality(batch.counted \cup {i}) = Cardinality(batch.counted) + 1
  <2>1. batch.counted \in SUBSET (1..batch.size) /\ batch.size \in Nat
    BY <1>1 DEF BatchOK
  <2>2. IsFiniteSet(batch.counted)
    BY <2>1, UpTo
  <2> QED
    BY <1>1, <2>2, FS_AddElement
<1>4. BatchOK'
  BY <1>1, <1>2, <1>3 DEF BatchOK
<1>5. BatchOfRuns'
  BY <1>1, <1>2 DEF BatchOfRuns, IsPas
<1>6. V8TypeOK' /\ ValidRuns' = ValidRuns
  BY <1>2, <1>4 DEF V8Inv, V8TypeOK, ValidRuns
<1>7. GeneratedByRuns' /\ FinishedWhenDone' /\ V8Status'
  BY <1>6 DEF V8Inv, GeneratedByRuns, FinishedWhenDone, V8Status, AnsweredWith
<1> QED
  BY <1>5, <1>6, <1>7 DEF V8Inv

\* The thread that finds finished_counter one short is the last of all: every run has
\* written its response.
LEMMA LastOfAll ==
    ASSUME V8Inv, NEW s \in Udfs, Answered(s)
    PROVE  /\ stage = s /\ batch.stored = 1..batch.size /\ batch.size = Len(dispatched)
           /\ batch.size > 0
<1>1. PICK i \in 1..batch.size : CanCount(i) /\ IsLast(i)
  BY DEF Answered
<1>2. /\ BatchOK /\ BatchOfRuns /\ stage = s
  BY DEF V8Inv, V8TypeOK, Answered
<1>3. /\ batch.size \in Nat /\ batch.counted \cup {i} \subseteq batch.stored
      /\ batch.stored \subseteq 1..batch.size /\ i \notin batch.counted
      /\ Cardinality(batch.counted) + 1 = batch.size
  BY <1>1, <1>2 DEF BatchOK, CanCount, IsLast
<1>4. /\ IsFiniteSet(1..batch.size) /\ Cardinality(1..batch.size) = batch.size
      /\ IsFiniteSet(batch.counted)
  <2>1. batch.counted \in SUBSET (1..batch.size)
    BY <1>3
  <2> QED
    BY <1>3, <2>1, UpTo
<1>5. Cardinality(batch.counted \cup {i}) = batch.size
  BY <1>3, <1>4, FS_AddElement
<1>6. batch.counted \cup {i} = 1..batch.size
  <2>1. batch.counted \cup {i} \in SUBSET (1..batch.size)
    BY <1>3
  <2> QED
    BY <1>3, <1>5, <2>1, UpTo
<1>7. batch.stored = 1..batch.size
  BY <1>3, <1>6
<1>8. batch.size > 0
  BY <1>1, <1>3
<1> QED
  BY <1>2, <1>7, <1>8 DEF BatchOfRuns

\* What the callback reads from all responses is what the runs have generated.
LEMMA AllRunsRead ==
    ASSUME V8Inv, Answered("generateBid")
    PROVE  generated = {dispatched[i] : i \in {j \in 1..batch.size :
                            batch.response[j].ok /\ batch.response[j].valid}}
<1>1. stage = "generateBid" /\ batch.stored = 1..batch.size
  BY LastOfAll DEF Udfs
<1> QED
  BY <1>1 DEF V8Inv, GeneratedByRuns, ValidRuns

\* Execute of both reactors: the request is answered without a run, or runs begin.
LEMMA ExecutesKeep ==
    ASSUME V8Inv, Execute \/ ExecutePas
    PROVE  V8Inv'
<1> USE DEF bidVars
<1>1. /\ stage = "execute" /\ stage # "done" /\ request' = request
      /\ batch = NoBatch /\ generated = {} /\ bids = {}
      /\ request.built \in Seq(request.igs \cup {"ads"})
      /\ {"prepareData", "generateBid"} \subseteq Udfs
      /\ <<"ads">> \in Seq(request.igs \cup {"ads"})
  BY SeqMonotonic DEF V8Inv, Execute, ExecutePas, BatchOfRuns, GeneratedByRuns, FinishedWhenDone, Udfs
<1>2. {"OK", "CANCELLED", "INVALID_ARGUMENT", "INTERNAL"} \subseteq Statuses
  BY DEF Statuses
<1>3. CASE \E s \in {"OK", "CANCELLED", "INVALID_ARGUMENT", "INTERNAL"} :
              /\ EncryptResponseAndFinish(s) /\ (s = "CANCELLED" => rpc.cancelled)
              /\ UNCHANGED <<batch, bidVars>>
  BY <1>1, <1>2, <1>3, V8Ends
<1>4. CASE ~IsPas /\ BatchExecute(Built, "generateBid")
  BY <1>1, <1>4, V8Batch DEF Built
<1>5. CASE IsPas /\ (FetchAds \/ ExecuteRomaRequests("prepareData"))
  <2>1. CASE FetchAds /\ EncryptResponseAndFinish("INTERNAL")
    BY <1>1, <1>2, <2>1, V8Ends DEF FetchAds
  <2>2. CASE FetchAds /\ stage' = "lookup" /\ UNCHANGED rpc
    BY <1>1, <2>2, V8Lookup DEF FetchAds
  <2>3. CASE ExecuteRomaRequests("prepareData")
    BY <1>1, <2>3, V8Batch DEF ExecuteRomaRequests
  <2> QED
    BY <1>5, <2>1, <2>2, <2>3 DEF FetchAds
<1>6. CASE Execute
  BY <1>3, <1>4, <1>6 DEF Execute, Cancelled
<1>7. CASE ExecutePas
  BY <1>3, <1>5, <1>7 DEF ExecutePas, Cancelled
<1> QED
  BY <1>6, <1>7

\* The callbacks of batches.
LEMMA CallbacksKeep ==
    ASSUME V8Inv,
           \/ DispatchFails \/ CancelledCallback \/ GenerateBidsCallback
           \/ RomaFailed \/ OnPreparedData \/ OnSuccessfulBids
    PROVE  V8Inv'
<1> USE DEF bidVars
<1>1. {"OK", "CANCELLED", "INTERNAL"} \subseteq Statuses /\ "done" \notin Udfs
  BY DEF Statuses, Udfs
<1>2. CASE DispatchFails \/ CancelledCallback \/ RomaFailed
  <2>1. stage # "done"
    BY <1>1, <1>2 DEF DispatchFails, CancelledCallback, RomaFailed, Answered
  <2> QED
    BY <1>1, <1>2, <2>1, V8Ends DEF DispatchFails, CancelledCallback, RomaFailed, Cancelled
<1>3. CASE GenerateBidsCallback
  <2>1. stage # "done" /\ bids' = generated
    BY <1>3, AllRunsRead DEF GenerateBidsCallback, Answered
  <2> QED
    BY <1>1, <1>3, <2>1, V8Ends DEF GenerateBidsCallback
<1>4. CASE OnSuccessfulBids
  <2>1. stage = "generateBid" /\ batch.size = Len(dispatched) /\ dispatched = <<"ads">>
    BY <1>4, LastOfAll DEF OnSuccessfulBids, V8Inv, BatchOfRuns, Udfs
  <2>2. batch.size = 1 /\ 1..batch.size = {1}
    BY <2>1
  <2>3. generated = IF batch.response[1].valid THEN {dispatched[1]} ELSE {}
    BY <1>4, <2>2, AllRunsRead DEF OnSuccessfulBids
  <2> QED
    BY <1>1, <1>4, <2>1, <2>3, V8Ends DEF OnSuccessfulBids
<1>5. CASE OnPreparedData
  <2>1. stage = "prepareData" /\ stage # "done" /\ generated = {} /\ bids = {}
    BY <1>5 DEF OnPreparedData, Answered, V8Inv, GeneratedByRuns, FinishedWhenDone
  <2>2. CASE EncryptResponseAndFinish("INTERNAL")
    BY <1>1, <1>5, <2>1, <2>2, V8Ends DEF OnPreparedData, FetchAds
  <2>3. CASE stage' = "lookup" /\ UNCHANGED rpc
    BY <1>5, <2>1, <2>3, V8Lookup DEF OnPreparedData, FetchAds
  <2> QED
    BY <1>5, <2>2, <2>3 DEF OnPreparedData, FetchAds
<1> QED
  BY <1>2, <1>3, <1>4, <1>5

\* The answers to a look-up.
LEMMA LookupsKeep ==
    ASSUME V8Inv, LookupFails \/ OnFetchAdsDataDone
    PROVE  V8Inv'
<1> USE DEF bidVars
<1>1. /\ stage = "lookup" /\ stage # "done" /\ request' = request
      /\ generated = {} /\ bids = {}
  BY DEF V8Inv, LookupFails, OnFetchAdsDataDone, GeneratedByRuns, FinishedWhenDone
<1>2. batch = NoBatch
  BY <1>1 DEF V8Inv, BatchOfRuns, Udfs
<1>3. {"OK", "CANCELLED", "INTERNAL"} \subseteq Statuses
  BY DEF Statuses
<1>4. CASE LookupFails
  BY <1>1, <1>2, <1>3, <1>4, V8Ends DEF LookupFails, Cancelled
<1>5. CASE OnFetchAdsDataDone /\ EncryptResponseAndFinish("OK") /\ UNCHANGED <<batch, bidVars>>
  BY <1>1, <1>2, <1>3, <1>5, V8Ends
<1>6. CASE OnFetchAdsDataDone /\ ExecuteRomaRequests("generateBid")
  <2>1. "generateBid" \in Udfs /\ <<"ads">> \in Seq(request.igs \cup {"ads"})
    BY DEF Udfs
  <2> QED
    BY <1>1, <1>6, <2>1, V8Batch DEF ExecuteRomaRequests
<1> QED
  BY <1>4, <1>5, <1>6 DEF OnFetchAdsDataDone

\* Steps that leave the batch and the bids alone keep what relates them.
LEMMA BatchStays ==
    ASSUME V8Inv, UNCHANGED <<batch, request, stage, bidVars>>
    PROVE  BatchOK' /\ BatchOfRuns' /\ GeneratedByRuns'
<1> USE DEF bidVars
<1>1. BatchOK'
  BY DEF V8Inv, V8TypeOK, BatchOK
<1>2. BatchOfRuns'
  BY DEF V8Inv, BatchOfRuns, IsPas, NoBatch, NewBatch
<1>3. ValidRuns' = ValidRuns
  BY DEF ValidRuns
<1>4. GeneratedByRuns'
  BY <1>3 DEF V8Inv, GeneratedByRuns
<1> QED
  BY <1>1, <1>2, <1>4

\* gRPC's steps; a reactor is deleted when its RPC has been finished.
LEMMA V8GrpcKeeps ==
    ASSUME V8Inv,
           \/ rpc' \in {Returned(rpc), ByClient(rpc)}
           \/ rpc' = Deleted(rpc) /\ rpc.statuses # <<>>,
           UNCHANGED <<batch, request, stage, bidVars>>
    PROVE  V8Inv'
<1> USE DEF bidVars
<1>1. /\ rpc \in Rpcs /\ rpc' \in Rpcs /\ rpc'.statuses = rpc.statuses
      /\ rpc'.decrypted = rpc.decrypted /\ rpc'.encrypted = rpc.encrypted
      /\ rpc.cancelled => rpc'.cancelled
      /\ rpc' \in {Returned(rpc), ByClient(rpc)} => rpc'.deleted = rpc.deleted
      /\ \A t : AnsweredWith(rpc', t) <=> AnsweredWith(rpc, t)
  BY RpcGoesOn DEF V8Inv, V8TypeOK
<1>2. BatchOK' /\ BatchOfRuns' /\ GeneratedByRuns'
  BY BatchStays
<1>3. V8TypeOK'
  BY <1>1, <1>2 DEF V8Inv, V8TypeOK
<1>4. FinishedWhenDone'
  <2>1. rpc'.deleted => rpc'.statuses # <<>>
    BY <1>1 DEF V8Inv, FinishedWhenDone
  <2> QED
    BY <1>1, <2>1 DEF V8Inv, FinishedWhenDone
<1>5. V8Status'
  <2>1. \A t : AnsweredWith(rpc, t)' <=> AnsweredWith(rpc, t)
    BY <1>1 DEF AnsweredWith
  <2> QED
    BY <1>1, <2>1 DEF V8Inv, V8Status
<1> QED
  BY <1>2, <1>3, <1>4, <1>5 DEF V8Inv

\* Every step of a reactor over V8 keeps the invariant.
LEMMA V8NextKeeps ==
    ASSUME V8Inv, [V8Next]_v8Vars
    PROVE  V8Inv'
<1> USE DEF bidVars
<1>1. CASE Respond
  BY <1>1, StoreKeeps, CountKeeps DEF Respond
<1>2. CASE ExecuteReturns \/ OnCancel \/ OnDone
  BY <1>2, V8GrpcKeeps DEF ExecuteReturns, OnCancel, OnDone, CanDelete
<1>3. CASE UNCHANGED v8Vars
  <2>1. BatchOK' /\ BatchOfRuns' /\ GeneratedByRuns'
    BY <1>3, BatchStays DEF v8Vars
  <2>2. V8TypeOK' /\ FinishedWhenDone' /\ V8Status'
    BY <1>3, <2>1 DEF v8Vars, V8Inv, V8TypeOK, FinishedWhenDone, V8Status, AnsweredWith
  <2> QED
    BY <1>3, <2>1, <2>2 DEF v8Vars, V8Inv
<1> QED
  BY <1>1, <1>2, <1>3, ExecutesKeep, CallbacksKeep, LookupsKeep, DispatchKeeps
     DEF V8Next, V8Step

-----------------------------------------------------------------------------
(* Over BYOB: the end of a call.                                             *)

\* A call d that differs from c at most in its RPC and in its bids.
SameWork(c, d) ==
    /\ d.igs = c.igs /\ d.at = c.at /\ d.next = c.next /\ d.running = c.running
    /\ d.count = c.count /\ d.outcome = c.outcome /\ d.responses = c.responses
    /\ d.tracker = c.tracker /\ d.timeout_waiting = c.timeout_waiting
    /\ d.success_executed = c.success_executed
    /\ d.ads_with_bids = c.ads_with_bids

\* A call whose RPC was not finished, but for a request that could not be decrypted.
Unfinished(c) == c.rpc.decrypted => c.rpc.statuses = <<>>

\* A call d that is c with its RPC finished, and nothing else done to the RPC.
FinishedCall(c, d) ==
    /\ d.rpc.decrypted = c.rpc.decrypted /\ d.rpc.cancelled = c.rpc.cancelled
    /\ d.rpc.deleted = c.rpc.deleted /\ d.rpc.statuses # <<>>
    /\ d.rpc.decrypted /\ d.rpc.encrypted => Len(d.rpc.statuses) <= 1

AnsweredWithNoneBut(c, s) == \A t : AnsweredWith(c.rpc, t) => t = s

\* OnAllBidsDone and the refusals finish a call whose RPC was not finished, with bids
\* only if the status is OK.
LEMMA CallFinishes ==
    ASSUME NEW n \in Nat, NEW c \in CallsOf(n), Unfinished(c),
           NEW s \in Statuses, NEW B \in SUBSET (1..n),
           NEW d \in FinishWithResponse(c, s, B)
    PROVE  /\ d \in CallsOf(n) /\ FinishedCall(c, d) /\ SameWork(c, d) /\ d.bids = B
           /\ AnsweredWithNoneBut(d, s)
<1>1. c.rpc \in Rpcs
  BY DEF CallsOf
<1>2. PICK p \in EncryptedAndFinished(c.rpc, s) : d = [c EXCEPT !.rpc = p, !.bids = B]
  BY DEF FinishWithResponse
<1>3. /\ p \in Rpcs /\ p.statuses # <<>>
      /\ p.decrypted = c.rpc.decrypted /\ p.cancelled = c.rpc.cancelled
      /\ p.deleted = c.rpc.deleted
  BY <1>1, <1>2, FinishedRpc
<1>4. /\ \A t : AnsweredWith(p, t) => t = s
      /\ p.decrypted /\ p.encrypted => Len(p.statuses) <= 1
  BY <1>1, <1>2, OnlyAnswer DEF Unfinished
<1>5. d.rpc = p /\ d.bids = B /\ d \in CallsOf(n)
  BY <1>2, <1>3 DEF CallsOf
<1>6. SameWork(c, d)
  BY <1>2 DEF CallsOf, SameWork
<1>7. FinishedCall(c, d)
  BY <1>3, <1>4, <1>5 DEF FinishedCall
<1>8. AnsweredWithNoneBut(d, s)
  BY <1>4, <1>5 DEF AnsweredWithNoneBut
<1> QED
  BY <1>5, <1>6, <1>7, <1>8

\* What OnAllBidsDone(c, any) makes of a call, when any says truly whether a run was
\* successful and udf_stats_ counts no more of the runs that were not started than
\* there are.
LEMMA OnAllBidsDoneFinishes ==
    ASSUME NEW n \in Nat, NEW c \in CallsOf(n), Unfinished(c),
           EndedIn(c, Outcomes) = 1..c.igs, c.igs \in Nat,
           c.timeout_waiting <= Cardinality(EndedIn(c, {"unstarted"})),
           c.ads_with_bids = EndedIn(c, {"bids"}),
           NEW any \in BOOLEAN, ~any => EndedIn(c, {"bids", "none"}) = {},
           NEW d \in OnAllBidsDone(c, any)
    PROVE  /\ d \in CallsOf(n) /\ FinishedCall(c, d) /\ SameWork(c, d)
           /\ d.bids \subseteq d.ads_with_bids /\ CallStatus(d)
<1>1. /\ c.igs \in Nat /\ c.timeout_waiting \in Nat
      /\ {} \in SUBSET (1..n) /\ c.ads_with_bids \in SUBSET (1..n)
  BY DEF CallsOf
<1>2. PICK s \in {"RESOURCE_EXHAUSTED", "INTERNAL", "CANCELLED", "OK"}, B \in SUBSET (1..n) :
         /\ d \in FinishWithResponse(c, s, B)
         /\ B \subseteq c.ads_with_bids
         /\ s = "OK" => B = c.ads_with_bids
         /\ s = "RESOURCE_EXHAUSTED" => c.timeout_waiting = c.igs
         /\ s = "INTERNAL" => ~any
         /\ s = "CANCELLED" => c.rpc.cancelled
  <2>1. CASE ~any /\ NoneStarted(c)
    BY <1>1, <2>1 DEF OnAllBidsDone, NoneStarted
  <2>2. CASE ~any /\ ~NoneStarted(c)
    BY <1>1, <2>2 DEF OnAllBidsDone
  <2>3. CASE any /\ c.rpc.cancelled
    BY <1>1, <2>3 DEF OnAllBidsDone
  <2>4. CASE any /\ ~c.rpc.cancelled
    BY <1>1, <2>4 DEF OnAllBidsDone
  <2> QED
    BY <2>1, <2>2, <2>3, <2>4
<1>3. s \in Statuses
  BY DEF Statuses
<1>4. /\ d \in CallsOf(n) /\ FinishedCall(c, d) /\ SameWork(c, d) /\ d.bids = B
      /\ AnsweredWithNoneBut(d, s)
  <2>1. d \in FinishWithResponse(c, s, B)
    BY <1>2
  <2> QED
    BY <1>3, <2>1, CallFinishes
<1>5. d.igs = c.igs /\ \A os : EndedIn(d, os) = EndedIn(c, os)
  BY <1>4 DEF EndedIn, SameWork
<1>6. s = "RESOURCE_EXHAUSTED" => EndedIn(c, {"unstarted"}) = 1..c.igs
  <2> DEFINE S == EndedIn(c, {"unstarted"})
  <2>1. S \in SUBSET (1..c.igs)
    BY DEF EndedIn
  <2>2. Cardinality(S) \in Nat /\ Cardinality(S) <= c.igs
        /\ (Cardinality(S) = c.igs => S = 1..c.igs) /\ c.timeout_waiting <= Cardinality(S)
    <3> HIDE DEF S
    <3> QED
      BY <1>1, <2>1, UpTo DEF S
  <2> HIDE DEF S
  <2>3. s = "RESOURCE_EXHAUSTED" => S = 1..c.igs
    BY <1>1, <1>2, <2>2
  <2> QED
    BY <2>3 DEF S
<1>7. CallStatus(d)
  <2>1. AnsweredWith(d.rpc, "OK") =>
           d.bids = EndedIn(d, {"bids"}) /\ EndedIn(d, Outcomes) = 1..d.igs
    BY <1>2, <1>4, <1>5 DEF AnsweredWithNoneBut
  <2>2. AnsweredWith(d.rpc, "RESOURCE_EXHAUSTED") => EndedIn(d, {"unstarted"}) = 1..d.igs
    BY <1>4, <1>5, <1>6 DEF AnsweredWithNoneBut
  <2>3. AnsweredWith(d.rpc, "INTERNAL") => EndedIn(d, {"bids", "none"}) = {}
    BY <1>2, <1>4, <1>5 DEF AnsweredWithNoneBut
  <2>4. AnsweredWith(d.rpc, "CANCELLED") => d.rpc.cancelled
    BY <1>2, <1>4 DEF FinishedCall, AnsweredWithNoneBut
  <2> QED
    BY <2>1, <2>2, <2>3, <2>4 DEF CallStatus
<1> QED
  BY <1>2, <1>4, <1>7 DEF SameWork

-----------------------------------------------------------------------------
(* Over BYOB: steps of one call.                                             *)

\* A step of its RPC leaves the work of a call as it was.
LEMMA WorkStays ==
    ASSUME NEW n \in Nat, NEW c, WorkInv(c, n), NEW d \in CallsOf(n), SameWork(c, d),
           d.rpc.decrypted = c.rpc.decrypted
    PROVE  WorkInv(d, n) /\ (AtEnd(d) <=> AtEnd(c))
<1> USE DEF SameWork
<1>1. /\ Pending(d) = Pending(c) /\ \A os : EndedIn(d, os) = EndedIn(c, os)
      /\ LostRuns(d) = LostRuns(c) /\ \A s : Reported(d, s) = Reported(c, s)
  BY DEF Pending, EndedIn, LostRuns, Reported
<1>2. CallShape(d, n) /\ NothingRun(d)
  <2>1. /\ CallShape(c, n) /\ NothingRun(c)
        /\ d.igs = c.igs /\ d.at = c.at /\ d.rpc.decrypted = c.rpc.decrypted
    BY DEF WorkInv
  <2>2. d.igs = IF d.rpc.decrypted THEN n ELSE 0
    BY <2>1, Zenon DEF CallShape
  <2>3. d.at \notin {"execute", "done"} => n > 0
    BY <2>1 DEF CallShape
  <2>4. CallShape(d, n)
    BY <2>2, <2>3 DEF CallShape
  <2>5. NothingRun(d)
    BY <1>1, <2>1 DEF NothingRun
  <2> QED
    BY <2>4, <2>5
<1>3. RunsOneByOne(d)
  BY <1>1 DEF WorkInv, RunsOneByOne
<1>4. RunsInABatch(d)
  BY <1>1 DEF WorkInv, RunsInABatch
<1>5. AtEnd(d) <=> AtEnd(c)
  BY <1>1 DEF AtEnd
<1> QED
  BY <1>2, <1>3, <1>4, <1>5 DEF WorkInv

\* A call whose work is over and is finished in the same step.
LEMMA FinishedCallInv ==
    ASSUME NEW n \in Nat, NEW c, WorkInv(c, n), AtEnd(c), NEW d \in CallsOf(n),
           FinishedCall(c, d), SameWork(c, d), d.bids \subseteq d.ads_with_bids,
           CallStatus(d)
    PROVE  CallInv(d, n)
<1>1. WorkInv(d, n) /\ AtEnd(d)
  BY WorkStays DEF FinishedCall
<1>2. FinishedWhenOver(d)
  BY <1>1 DEF FinishedWhenOver, FinishedCall
<1> QED
  BY <1>1, <1>2 DEF CallInv

\* A call whose work goes on, with its RPC as it was.
LEMMA UnfinishedCallInv ==
    ASSUME NEW n \in Nat, NEW c, CallInv(c, n), ~AtEnd(c), NEW d, WorkInv(d, n), ~AtEnd(d),
           d.rpc = c.rpc, d.bids = c.bids
    PROVE  CallInv(d, n)
<1>1. d.bids = {} /\ (d.rpc.decrypted => d.rpc.statuses = <<>>)
  BY DEF CallInv, FinishedWhenOver
<1>2. FinishedWhenOver(d)
  BY <1>1 DEF CallInv, FinishedWhenOver
<1>3. CallStatus(d)
  BY <1>1 DEF CallStatus, AnsweredWith
<1> QED
  BY <1>2, <1>3 DEF CallInv

\* The steps of gRPC.
LEMMA RpcStepKeeps ==
    ASSUME NEW n \in Nat, NEW c, CallInv(c, n),
           NEW q, \/ q \in {Returned(c.rpc), ByClient(c.rpc)}
                  \/ q = Deleted(c.rpc) /\ c.rpc.statuses # <<>>
    PROVE  CallInv([c EXCEPT !.rpc = q], n)
<1> DEFINE d == [c EXCEPT !.rpc = q]
<1>1. c \in CallsOf(n) /\ c.rpc \in Rpcs
  BY DEF CallInv, WorkInv, CallShape, CallsOf
<1>2. /\ q \in Rpcs /\ q.statuses = c.rpc.statuses
      /\ q.decrypted = c.rpc.decrypted /\ q.encrypted = c.rpc.encrypted
      /\ c.rpc.cancelled => q.cancelled
      /\ q \in {Returned(c.rpc), ByClient(c.rpc)} => q.deleted = c.rpc.deleted
      /\ \A t : AnsweredWith(q, t) <=> AnsweredWith(c.rpc, t)
  BY <1>1, RpcGoesOn
<1>3. d \in CallsOf(n) /\ d.rpc = q /\ d.bids = c.bids /\ SameWork(c, d)
  BY <1>1, <1>2 DEF CallsOf, SameWork
<1> HIDE DEF d
<1>4. WorkInv(d, n) /\ (AtEnd(d) <=> AtEnd(c))
  BY <1>2, <1>3, WorkStays DEF CallInv
<1>5. FinishedWhenOver(d)
  <2>1. FinishedWhenOver(c)
    BY DEF CallInv
  <2>2. d.rpc.deleted => d.rpc.statuses # <<>> \/ ~d.rpc.decrypted
    BY <1>2, <1>3, <2>1 DEF FinishedWhenOver
  <2>3. d.ads_with_bids = c.ads_with_bids
    BY <1>3 DEF SameWork
  <2> QED
    BY <1>2, <1>3, <1>4, <2>1, <2>2, <2>3 DEF FinishedWhenOver
<1>6. CallStatus(d)
  <2>1. CallStatus(c) /\ \A os : EndedIn(d, os) = EndedIn(c, os) /\ d.igs = c.igs
    BY <1>3 DEF CallInv, EndedIn, SameWork
  <2> QED
    BY <1>2, <1>3, <2>1 DEF CallStatus, LostRuns
<1>7. CallInv(d, n)
  BY <1>4, <1>5, <1>6 DEF CallInv
<1> QED
  BY <1>7 DEF d

\* Execute: the call is refused, or its runs are given to the client one by one or in
\* a batch.
LEMMA ExecuteKeeps ==
    ASSUME NEW n \in Nat, NEW c, CallInv(c, n), c.at = "execute",
           NEW d,
           \/ c.rpc.cancelled /\ d \in FinishWithResponse([c EXCEPT !.at = "done"], "CANCELLED", {})
           \/ d \in FinishWithResponse([c EXCEPT !.at = "done"], "RESOURCE_EXHAUSTED", {})
           \/ d = [c EXCEPT !.at = "done", !.rpc = Finished(@, "UNIMPLEMENTED")]
           \/ n > 0 /\ d \in {[c EXCEPT !.at = "single"], [c EXCEPT !.at = "queued"]}
    PROVE  CallInv(d, n)
<1>1. /\ c \in CallsOf(n) /\ c.igs = IF c.rpc.decrypted THEN n ELSE 0
      /\ c.rpc \in Rpcs
  BY DEF CallInv, WorkInv, CallShape, CallsOf
<1>2. /\ c.next = 1 /\ c.running = {} /\ LostRuns(c) = 1..c.igs /\ c.responses = c.outcome
      /\ c.tracker = Tracking(c.igs) /\ c.timeout_waiting = 0 /\ c.success_executed = 0
      /\ c.ads_with_bids = {} /\ c.count = 0
  BY DEF CallInv, WorkInv, NothingRun, RunsInABatch
<1>3. c.bids = {} /\ Unfinished(c) /\ ~AtEnd(c) /\ c.igs \in Nat
  BY <1>1 DEF CallInv, FinishedWhenOver, AtEnd, Unfinished
<1> DEFINE e(l) == [c EXCEPT !.at = l]
<1>4. ASSUME NEW l \in Locations
      PROVE  /\ e(l) \in CallsOf(n) /\ e(l).at = l
             /\ e(l).rpc = c.rpc /\ e(l).bids = {}
             /\ e(l).igs = c.igs /\ e(l).next = 1 /\ e(l).running = {} /\ e(l).count = 0
             /\ e(l).outcome = c.outcome /\ e(l).responses = c.outcome
             /\ e(l).tracker = Tracking(c.igs) /\ e(l).timeout_waiting = 0
             /\ e(l).success_executed = 0 /\ e(l).ads_with_bids = {}
             /\ LostRuns(e(l)) = 1..c.igs /\ Pending(e(l)) = 1..c.igs
  <2>1. /\ e(l) \in CallsOf(n) /\ e(l).at = l
        /\ e(l).rpc = c.rpc /\ e(l).bids = {}
        /\ e(l).igs = c.igs /\ e(l).next = 1 /\ e(l).running = {} /\ e(l).count = 0
        /\ e(l).outcome = c.outcome /\ e(l).responses = c.outcome
        /\ e(l).tracker = Tracking(c.igs) /\ e(l).timeout_waiting = 0
        /\ e(l).success_executed = 0 /\ e(l).ads_with_bids = {}
    BY <1>1, <1>2, <1>3 DEF CallsOf
  <2>2. LostRuns(e(l)) = 1..c.igs /\ Pending(e(l)) = 1..c.igs
    BY <1>2, <2>1 DEF LostRuns, EndedIn, Pending
  <2> QED
    BY <2>1, <2>2
<1> HIDE DEF e
<1>5. WorkInv(e("done"), n) /\ AtEnd(e("done"))
  <2>1. "done" \in Locations
    BY DEF Locations
  <2>2. CallShape(e("done"), n)
    BY <1>1, <1>4, <2>1 DEF CallShape
  <2>3. RunsInABatch(e("done"))
    BY <1>3, <1>4, <2>1 DEF RunsInABatch
  <2> QED
    BY <1>4, <2>1, <2>2, <2>3 DEF WorkInv, NothingRun, RunsOneByOne, AtEnd
<1>6. ASSUME NEW s \in {"CANCELLED", "RESOURCE_EXHAUSTED"}, s = "CANCELLED" => c.rpc.cancelled,
             d \in FinishWithResponse(e("done"), s, {})
      PROVE  CallInv(d, n)
  <2>1. /\ "done" \in Locations /\ s \in Statuses /\ {} \in SUBSET (1..n)
    BY DEF Locations, Statuses
  <2>2. Unfinished(e("done"))
    BY <1>3, <1>4, <2>1 DEF Unfinished
  <2>3. /\ d \in CallsOf(n) /\ FinishedCall(e("done"), d) /\ SameWork(e("done"), d)
        /\ d.bids = {} /\ AnsweredWithNoneBut(d, s)
    BY <1>4, <1>6, <2>1, <2>2, CallFinishes
  <2>4. LostRuns(d) = 1..d.igs /\ d.rpc.cancelled = c.rpc.cancelled
    BY <1>4, <2>1, <2>3 DEF SameWork, FinishedCall, LostRuns, EndedIn
  <2>5. CallStatus(d)
    BY <1>6, <2>3, <2>4 DEF CallStatus, AnsweredWithNoneBut
  <2> QED
    BY <1>5, <2>3, <2>5, FinishedCallInv
<1>7. CASE d = [c EXCEPT !.at = "done", !.rpc = Finished(@, "UNIMPLEMENTED")]
  <2> DEFINE p == Finished(c.rpc, "UNIMPLEMENTED")
  <2>1. "UNIMPLEMENTED" \in Statuses /\ "done" \in Locations
    BY DEF Statuses, Locations
  <2>2. /\ p \in Rpcs /\ p.statuses # <<>> /\ p.decrypted = c.rpc.decrypted
        /\ p.cancelled = c.rpc.cancelled /\ p.deleted = c.rpc.deleted
    BY <1>1, <2>1, FinishedRpc
  <2>3. /\ \A t : AnsweredWith(p, t) => t = "UNIMPLEMENTED"
        /\ p.decrypted /\ p.encrypted => Len(p.statuses) <= 1
    BY <1>1, <1>3, <2>1, OnlyAnswer DEF Unfinished
  <2>4. d = [e("done") EXCEPT !.rpc = p]
    BY <1>1, <1>7 DEF e, CallsOf
  <2> HIDE DEF p
  <2>5. d.rpc = p /\ d \in CallsOf(n) /\ SameWork(e("done"), d) /\ d.bids = {}
    BY <1>4, <2>1, <2>2, <2>4 DEF CallsOf, SameWork
  <2>6. FinishedCall(e("done"), d)
    BY <1>4, <2>1, <2>2, <2>3, <2>5 DEF FinishedCall
  <2>7. CallStatus(d)
    BY <2>3, <2>5 DEF CallStatus
  <2> QED
    BY <1>5, <2>5, <2>6, <2>7, FinishedCallInv
<1>8. CASE n > 0 /\ d = e("queued")
  <2>1. "queued" \in Locations
    BY DEF Locations
  <2>2. CallShape(d, n)
    BY <1>1, <1>4, <1>8, <2>1 DEF CallShape
  <2>3. NothingRun(d) /\ RunsOneByOne(d) /\ RunsInABatch(d) /\ ~AtEnd(d)
    BY <1>4, <1>8, <2>1 DEF NothingRun, RunsOneByOne, RunsInABatch, AtEnd
  <2> QED
    BY <1>3, <1>4, <1>8, <2>1, <2>2, <2>3, UnfinishedCallInv DEF WorkInv
<1>9. CASE n > 0 /\ d = e("single")
  <2>1. "single" \in Locations
    BY DEF Locations
  <2>2. CallShape(d, n)
    BY <1>1, <1>4, <1>9, <2>1 DEF CallShape
  <2>3. \A s \in TaskStatus : Reported(d, s) = {}
    <3>1. Pending(d) = 1..c.igs /\ d.igs = c.igs
      BY <1>4, <1>9, <2>1
    <3>2. (1..d.igs) \ Pending(d) = {}
      BY <3>1
    <3> QED
      BY <3>2 DEF Reported
  <2>4. RunsOneByOne(d)
    <3>1. /\ d.next \in 1..(d.igs + 1) /\ d.running \subseteq 1..(d.next - 1)
          /\ d.success_executed = 0
          /\ (1..d.igs) \ Pending(d) = {}
      BY <1>3, <1>4, <1>9, <2>1
    <3>2. \A i \in d.next..d.igs : d.outcome[i] = "lost"
      BY <1>4, <1>9, <2>1 DEF LostRuns, EndedIn
    <3>3. d.tracker.pending = Cardinality(Pending(d))
      BY <1>3, <1>4, <1>9, <2>1, UpTo, TrackingFields
    <3>4. \A s \in TaskStatus : d.tracker.count[s] = Cardinality(Reported(d, s))
      <4>1. d.tracker = Tracking(c.igs) /\ \A s \in TaskStatus : Tracking(c.igs).count[s] = 0
        BY <1>3, <1>4, <1>9, <2>1, TrackingFields
      <4> QED
        BY <2>3, <4>1, FS_EmptySet
    <3>5. d.timeout_waiting <= Cardinality(EndedIn(d, {"unstarted"}))
      <4>1. EndedIn(d, {"unstarted"}) \in SUBSET (1..d.igs) /\ d.igs \in Nat
        BY <1>3, <1>4, <1>9, <2>1 DEF EndedIn
      <4> QED
        BY <1>4, <1>9, <2>1, <4>1, UpTo
    <3>6. d.ads_with_bids = EndedIn(d, {"bids"})
      BY <1>4, <1>9, <2>1 DEF LostRuns, EndedIn
    <3> QED
      BY <3>1, <3>2, <3>3, <3>4, <3>5, <3>6 DEF RunsOneByOne
  <2>5. WorkInv(d, n)
    BY <1>4, <1>9, <2>1, <2>2, <2>4 DEF WorkInv, NothingRun, RunsInABatch
  <2>6. CASE c.rpc.decrypted
    <3>1. d.at = "single" /\ c.igs = n /\ Pending(d) = 1..n
      BY <1>1, <1>4, <1>9, <2>1, <2>6
    <3>2. ~AtEnd(d)
      BY <1>9, <3>1 DEF AtEnd
    <3> QED
      BY <1>3, <1>4, <1>9, <2>1, <2>5, <3>2, UnfinishedCallInv
  <2>7. CASE ~c.rpc.decrypted
    BY <1>4, <1>9, <2>1, <2>5, <2>7 DEF CallInv, FinishedWhenOver, CallStatus, AnsweredWith
  <2> QED
    BY <2>6, <2>7
<1> QED
  BY <1>6, <1>7, <1>8, <1>9 DEF e

\* The callback of a run that is awaited one by one notes how the run has ended. The
\* counter of the runs not started grows by no more than they do.
LEMMA ProcessResponseKeeps ==
    ASSUME NEW n \in Nat, NEW c, CallInv(c, n), c.at = "single",
           NEW i \in c.running, NEW o \in Outcomes, c.outcome[i] = "lost",
           NEW w \in Racing(c.timeout_waiting, o = "unstarted"),
           NEW d, d = [c EXCEPT !.outcome[i] = o, !.timeout_waiting = w,
                                !.ads_with_bids = IF o = "bids" THEN @ \cup {i} ELSE @]
    PROVE  CallInv(d, n)
<1>1. /\ c \in CallsOf(n) /\ CallShape(c, n) /\ RunsOneByOne(c)
      /\ c.igs \in {0, n} /\ c.timeout_waiting \in Nat
  BY DEF CallInv, WorkInv, CallShape, CallsOf
<1>2. i \in 1..c.igs /\ i \in 1..n /\ i \in Pending(c) /\ i < c.next
  BY <1>1 DEF RunsOneByOne, Pending
<1>3. w \in Nat
  BY <1>1 DEF Racing
<1> DEFINE outcome == [c.outcome EXCEPT ![i] = o]
           ads == IF o = "bids" THEN c.ads_with_bids \cup {i} ELSE c.ads_with_bids
<1>4. /\ d.rpc = c.rpc /\ d.bids = c.bids /\ d.igs = c.igs /\ d.at = "single"
      /\ d.next = c.next /\ d.running = c.running /\ d.count = c.count
      /\ d.tracker = c.tracker /\ d.success_executed = c.success_executed
      /\ d.outcome = outcome /\ d.timeout_waiting = w /\ d.ads_with_bids = ads
  BY <1>1 DEF CallsOf
<1>5. outcome[i] = o /\ \A j \in (1..n) \ {i} : outcome[j] = c.outcome[j]
  BY <1>1 DEF CallsOf
<1>6. d \in CallsOf(n)
  <2>1. outcome \in [1..n -> Outcomes \cup {"lost"}] /\ ads \in SUBSET (1..n)
    BY <1>1, <1>2 DEF CallsOf
  <2> HIDE DEF outcome, ads
  <2>2. d = [c EXCEPT !.outcome = outcome, !.timeout_waiting = w, !.ads_with_bids = ads]
    BY DEF outcome, ads
  <2> QED
    BY <1>1, <1>3, <2>1, <2>2 DEF CallsOf
<1> HIDE DEF outcome, ads
<1>7. Pending(d) = Pending(c) /\ i \notin (1..c.igs) \ Pending(c)
  BY <1>2, <1>4 DEF Pending
<1>8. \A s : Reported(d, s) = Reported(c, s)
  BY <1>1, <1>4, <1>5, <1>7 DEF Reported
<1>9. \A os : EndedIn(d, os) = IF o \in os THEN EndedIn(c, os) \cup {i}
                               ELSE EndedIn(c, os) \ {i}
  <2> SUFFICES ASSUME NEW os
               PROVE  EndedIn(d, os) = IF o \in os THEN EndedIn(c, os) \cup {i}
                                       ELSE EndedIn(c, os) \ {i}
    OBVIOUS
  <2>1. /\ d.igs = c.igs /\ i \in 1..c.igs /\ d.outcome[i] = o
        /\ \A j \in (1..c.igs) \ {i} : d.outcome[j] = c.outcome[j]
    <3>1. 1..c.igs \subseteq 1..n
      BY <1>1
    <3>2. d.igs = c.igs /\ d.outcome = outcome
      BY <1>4
    <3> QED
      BY <1>2, <1>5, <3>1, <3>2
  <2>2. CASE o \in os
    BY <2>1, <2>2 DEF EndedIn
  <2>3. CASE o \notin os
    BY <2>1, <2>3 DEF EndedIn
  <2> QED
    BY <2>2, <2>3
<1>10. d.timeout_waiting <= Cardinality(EndedIn(d, {"unstarted"}))
  <2> DEFINE S == EndedIn(c, {"unstarted"})
  <2>1. S \in SUBSET (1..c.igs) /\ i \notin S /\ c.igs \in Nat
    BY <1>1 DEF EndedIn, Outcomes, Failures
  <2>2. IsFiniteSet(S) /\ Cardinality(S) \in Nat
    BY <2>1, UpTo
  <2>3. c.timeout_waiting <= Cardinality(S)
    BY <1>1 DEF RunsOneByOne
  <2>4. Cardinality(S \cup {i}) = Cardinality(S) + 1
    BY <2>1, <2>2, FS_AddElement
  <2>5. EndedIn(d, {"unstarted"}) = IF o = "unstarted" THEN S \cup {i} ELSE S
    BY <1>9, <2>1
  <2> HIDE DEF S
  <2>6. CASE o = "unstarted"
    BY <1>1, <1>4, <2>2, <2>3, <2>4, <2>5, <2>6 DEF Racing
  <2>7. CASE o # "unstarted"
    BY <1>1, <1>4, <2>2, <2>3, <2>5, <2>7 DEF Racing
  <2> QED
    BY <2>6, <2>7
<1>11. d.ads_with_bids = EndedIn(d, {"bids"})
  <2>1. i \notin EndedIn(c, {"bids"}) /\ c.ads_with_bids = EndedIn(c, {"bids"})
    BY <1>1 DEF EndedIn, RunsOneByOne
  <2>2. EndedIn(d, {"bids"}) = IF o = "bids" THEN EndedIn(c, {"bids"}) \cup {i}
                               ELSE EndedIn(c, {"bids"}) \ {i}
    BY <1>9
  <2> QED
    BY <1>4, <2>1, <2>2 DEF ads
<1>12. RunsOneByOne(d)
  <2>1. /\ \A j \in d.next..d.igs : d.outcome[j] = "lost"
        /\ \A j \in (1..d.igs) \ Pending(d) : d.outcome[j] # "lost"
    BY <1>1, <1>2, <1>4, <1>5, <1>7 DEF RunsOneByOne, CallsOf
  <2> QED
    BY <1>1, <1>4, <1>7, <1>8, <1>10, <1>11, <2>1 DEF RunsOneByOne
<1>13. CallShape(d, n)
  BY <1>1, <1>4, <1>6 DEF CallShape
<1>14. WorkInv(d, n)
  BY <1>4, <1>12, <1>13 DEF CallInv, WorkInv, NothingRun, RunsInABatch
<1>15. ~AtEnd(c) /\ ~AtEnd(d)
  BY <1>2, <1>4, <1>7 DEF AtEnd
<1> QED
  BY <1>4, <1>14, <1>15, UnfinishedCallInv

\* The tracker is told of bids only for runs that have some.
LEMMA TaskStatusOfOutcome ==
    /\ \A o \in Outcomes : TaskStatusOf(o) \in TaskStatus
    /\ TaskStatusOf("bids") = "SUCCESS" /\ TaskStatusOf("none") = "EMPTY_RESPONSE"
BY DEF Outcomes, Failures, TaskStatusOf, TaskStatus

\* A call e that is c with the run of i over, which is to be reported to the tracker.
TaskEnds(c, e, i) ==
    /\ e.rpc = c.rpc /\ e.bids = c.bids /\ e.igs = c.igs /\ e.at = c.at
    /\ e.count = c.count /\ e.tracker = c.tracker
    /\ e.timeout_waiting = c.timeout_waiting /\ e.success_executed = c.success_executed
    /\ e.ads_with_bids = c.ads_with_bids
    /\ e.next \in 1..(c.igs + 1) /\ e.running \subseteq 1..(e.next - 1)
    /\ \A j \in e.next..c.igs : e.outcome[j] = "lost"
    /\ i \in Pending(c) /\ Pending(e) = Pending(c) \ {i}
    /\ e.outcome[i] \in Outcomes
    /\ \A j \in (1..c.igs) \ {i} : e.outcome[j] = c.outcome[j]
    /\ EndedIn(e, {"bids"}) = EndedIn(c, {"bids"})
    /\ EndedIn(e, {"unstarted"}) = EndedIn(c, {"unstarted"})

Reporting(e, i) == [e EXCEPT !.tracker = Counted(@, TaskStatusOf(e.outcome[i]))]

\* What the tracker counts is right again when a run is reported with its status.
LEMMA CountsAfterTask ==
    ASSUME NEW n \in Nat, NEW c, CallInv(c, n), c.at = "single",
           NEW e \in CallsOf(n), NEW i, TaskEnds(c, e, i),
           NEW f, f = Reporting(e, i)
    PROVE  /\ f \in CallsOf(n) /\ WorkInv(f, n) /\ f.rpc = c.rpc /\ f.bids = c.bids
           /\ f.tracker \in Trackers /\ f.at = "single"
<1> DEFINE s == TaskStatusOf(e.outcome[i])
           t == Counted(e.tracker, s)
<1>1. /\ CallShape(c, n) /\ RunsOneByOne(c) /\ c.igs \in Nat /\ c.igs \in {0, n}
      /\ e.tracker = c.tracker /\ e.tracker \in Trackers /\ e.igs = c.igs
      /\ e.at = "single"
  BY DEF CallInv, WorkInv, CallShape, CallsOf, TaskEnds
<1>2. Pending(c) \in SUBSET (1..c.igs)
  BY <1>1 DEF RunsOneByOne, Pending
<1>3. i \in Pending(c) /\ i \in 1..c.igs /\ s \in TaskStatus
  BY <1>2, TaskStatusOfOutcome DEF TaskEnds
<1>4. /\ IsFiniteSet(Pending(c)) /\ Cardinality(Pending(c)) \in Nat
      /\ Cardinality(Pending(c) \ {i}) = Cardinality(Pending(c)) - 1
      /\ Cardinality(Pending(c) \ {i}) \in Nat
  <2>1. IsFiniteSet(Pending(c)) /\ Cardinality(Pending(c)) \in Nat
    BY <1>1, <1>2, UpTo
  <2>2. Pending(c) \ {i} \in SUBSET (1..c.igs)
    BY <1>2
  <2>3. Cardinality(Pending(c) \ {i}) = Cardinality(Pending(c)) - 1
    BY <1>3, <2>1, FS_RemoveElement
  <2> QED
    BY <1>1, <2>1, <2>2, <2>3, UpTo
<1>5. e.tracker.pending > 0
  <2>1. e.tracker.pending = Cardinality(Pending(c))
    BY <1>1 DEF RunsOneByOne
  <2> QED
    BY <1>4, <2>1
<1>6. /\ t \in Trackers /\ t.pending = e.tracker.pending - 1
      /\ \A r \in TaskStatus : t.count[r] = IF r = s THEN e.tracker.count[r] + 1
                                            ELSE e.tracker.count[r]
  BY <1>1, <1>3, <1>5, CountedFields
<1> HIDE DEF s, t
<1>7. f = [e EXCEPT !.tracker = t]
  BY DEF s, t, Reporting
<1>8. /\ f \in CallsOf(n) /\ f.rpc = e.rpc /\ f.igs = e.igs /\ f.at = e.at
      /\ f.next = e.next /\ f.running = e.running /\ f.count = e.count
      /\ f.outcome = e.outcome /\ f.tracker = t
      /\ f.timeout_waiting = e.timeout_waiting /\ f.success_executed = e.success_executed
      /\ f.ads_with_bids = e.ads_with_bids /\ f.bids = e.bids
  BY <1>6, <1>7 DEF CallsOf
<1>9. /\ Pending(f) = Pending(c) \ {i} /\ f.igs = c.igs
      /\ \A os : EndedIn(f, os) = EndedIn(e, os)
  BY <1>1, <1>8 DEF Pending, EndedIn, TaskEnds
<1>10. \A r \in TaskStatus :
         Reported(f, r) = IF r = s THEN Reported(c, r) \cup {i} ELSE Reported(c, r)
  <2> SUFFICES ASSUME NEW r \in TaskStatus
               PROVE  Reported(f, r) = IF r = s THEN Reported(c, r) \cup {i}
                                       ELSE Reported(c, r)
    OBVIOUS
  <2>1. (1..f.igs) \ Pending(f) = ((1..c.igs) \ Pending(c)) \cup {i}
    BY <1>3, <1>9
  <2>2. /\ TaskStatusOf(f.outcome[i]) = s
        /\ \A j \in (1..c.igs) \ Pending(c) : f.outcome[j] = c.outcome[j]
    BY <1>3, <1>8 DEF TaskEnds, s
  <2> QED
    BY <2>1, <2>2 DEF Reported
<1>11. \A r \in TaskStatus : f.tracker.count[r] = Cardinality(Reported(f, r))
  <2> SUFFICES ASSUME NEW r \in TaskStatus
               PROVE  f.tracker.count[r] = Cardinality(Reported(f, r))
    OBVIOUS
  <2>1. e.tracker.count[r] = Cardinality(Reported(c, r))
    BY <1>1 DEF RunsOneByOne
  <2>2. Reported(c, r) \in SUBSET (1..c.igs) /\ i \notin Reported(c, r)
    BY <1>3 DEF Reported
  <2>3. Cardinality(Reported(c, r) \cup {i}) = Cardinality(Reported(c, r)) + 1
    BY <1>1, <2>2, UpTo, FS_AddElement
  <2>4. CASE r = s
    BY <1>6, <1>8, <1>10, <2>1, <2>3, <2>4
  <2>5. CASE r # s
    BY <1>6, <1>8, <1>10, <2>1, <2>5
  <2> QED
    BY <2>4, <2>5
<1>12. f.tracker.pending = Cardinality(Pending(f))
  BY <1>1, <1>4, <1>6, <1>8, <1>9 DEF RunsOneByOne
<1>13. /\ \A j \in f.next..f.igs : f.outcome[j] = "lost"
       /\ \A j \in (1..f.igs) \ Pending(f) : f.outcome[j] # "lost"
  <2>1. "lost" \notin Outcomes
    BY DEF Outcomes, Failures
  <2> QED
    BY <1>1, <1>8, <1>9, <2>1 DEF RunsOneByOne, TaskEnds
<1>14. /\ f.timeout_waiting <= Cardinality(EndedIn(f, {"unstarted"}))
       /\ f.ads_with_bids = EndedIn(f, {"bids"}) /\ f.success_executed = 0
  BY <1>1, <1>8, <1>9 DEF RunsOneByOne, TaskEnds
<1>15. RunsOneByOne(f)
  BY <1>8, <1>9, <1>11, <1>12, <1>13, <1>14 DEF RunsOneByOne, TaskEnds
<1>16. CallShape(f, n)
  BY <1>1, <1>8 DEF CallShape, TaskEnds
<1>17. WorkInv(f, n)
  BY <1>1, <1>8, <1>15, <1>16 DEF CallInv, WorkInv, NothingRun, RunsInABatch, TaskEnds
<1>18. f.rpc = c.rpc /\ f.bids = c.bids
  BY <1>8 DEF TaskEnds
<1>19. f.tracker \in Trackers /\ f.at = "single" /\ f \in CallsOf(n)
  BY <1>1, <1>6, <1>8
<1> QED
  BY <1>17, <1>18, <1>19

\* With the last run that is reported the call ends.
LEMMA AfterTaskKeeps ==
    ASSUME NEW n \in Nat, NEW c, CallInv(c, n), c.at = "single",
           NEW e \in CallsOf(n), NEW i, TaskEnds(c, e, i),
           NEW d \in AfterTask(e, TaskStatusOf(e.outcome[i]))
    PROVE  CallInv(d, n)
<1> DEFINE f == Reporting(e, i)
           any == AnyTaskSuccessfullyCompleted(f.tracker)
<1>1. /\ f \in CallsOf(n) /\ WorkInv(f, n) /\ f.rpc = c.rpc /\ f.bids = c.bids
      /\ f.tracker \in Trackers /\ f.at = "single"
  BY CountsAfterTask
<1>2. ~AtEnd(c)
  BY DEF AtEnd, TaskEnds
<1>3. IF f.tracker.pending = 0 THEN d \in OnAllBidsDone(f, any) ELSE d = f
  BY DEF AfterTask, Reporting
<1> HIDE DEF f
<1>4. /\ RunsOneByOne(f) /\ f.igs \in Nat /\ Pending(f) \in SUBSET (1..f.igs)
      /\ AtEnd(f) <=> Pending(f) = {}
  BY <1>1 DEF WorkInv, RunsOneByOne, CallShape, CallsOf, Pending, AtEnd
<1>5. f.tracker.pending = 0 <=> AtEnd(f)
  <2>1. f.tracker.pending = Cardinality(Pending(f))
    BY <1>1, <1>4 DEF RunsOneByOne
  <2>2. Cardinality(Pending(f)) = 0 <=> Pending(f) = {}
    BY <1>4, UpTo, FiniteSubset
  <2> QED
    BY <1>4, <2>1, <2>2
<1>6. CASE ~AtEnd(f)
  <2>1. d = f
    BY <1>3, <1>5, <1>6
  <2> QED
    BY <1>1, <1>2, <1>6, <2>1, UnfinishedCallInv
<1>7. CASE AtEnd(f)
  <2>1. d \in OnAllBidsDone(f, any) /\ Pending(f) = {}
    BY <1>3, <1>4, <1>5, <1>7
  <2>2. Unfinished(f)
    BY <1>1, <1>2 DEF CallInv, FinishedWhenOver, Unfinished
  <2>3. /\ f.timeout_waiting <= Cardinality(EndedIn(f, {"unstarted"}))
        /\ f.ads_with_bids = EndedIn(f, {"bids"})
        /\ \A j \in 1..f.igs : f.outcome[j] # "lost"
    BY <1>1, <1>4, <2>1 DEF RunsOneByOne
  <2>4. EndedIn(f, Outcomes) = 1..f.igs
    BY <1>1, <2>3 DEF EndedIn, CallsOf, WorkInv, CallShape
  <2>5. ~any => EndedIn(f, {"bids", "none"}) = {}
    <3> SUFFICES ASSUME ~any, NEW j \in EndedIn(f, {"bids", "none"}) PROVE FALSE
      OBVIOUS
    <3> DEFINE s == TaskStatusOf(f.outcome[j])
    <3>1. s \in {"SUCCESS", "EMPTY_RESPONSE"} /\ j \in 1..f.igs
      BY TaskStatusOfOutcome DEF EndedIn
    <3>2. s \in TaskStatus /\ j \in Reported(f, s)
      BY <2>1, <3>1 DEF Reported, TaskStatus
    <3> HIDE DEF s
    <3>3. Cardinality(Reported(f, s)) \in Nat /\ Cardinality(Reported(f, s)) # 0
      <4>1. Reported(f, s) \in SUBSET (1..f.igs) /\ Reported(f, s) # {}
        BY <3>2 DEF Reported
      <4> QED
        BY <1>4, <4>1, UpTo, FiniteSubset
    <3>4. f.tracker.count[s] > 0
      BY <1>1, <1>4, <3>2, <3>3 DEF RunsOneByOne
    <3> QED
      BY <3>1, <3>4 DEF AnyTaskSuccessfullyCompleted
  <2>6. any \in BOOLEAN
    BY DEF AnyTaskSuccessfullyCompleted
  <2> HIDE DEF any
  <2>7. /\ d \in CallsOf(n) /\ FinishedCall(f, d) /\ SameWork(f, d)
        /\ d.bids \subseteq d.ads_with_bids /\ CallStatus(d)
    BY <1>1, <1>4, <2>1, <2>2, <2>3, <2>4, <2>5, <2>6, OnAllBidsDoneFinishes
  <2> QED
    BY <1>1, <1>7, <2>7, FinishedCallInv
<1> QED
  BY <1>6, <1>7

\* The callback of a run reports it to the tracker.
LEMMA CompleteTaskKeeps ==
    ASSUME NEW n \in Nat, NEW c, CallInv(c, n), c.at = "single",
           NEW i \in c.running, c.outcome[i] # "lost",
           NEW d \in AfterTask([c EXCEPT !.running = @ \ {i}], TaskStatusOf(c.outcome[i]))
    PROVE  CallInv(d, n)
<1> DEFINE e == [c EXCEPT !.running = @ \ {i}]
<1>1. /\ c \in CallsOf(n) /\ RunsOneByOne(c) /\ c.igs \in {0, n}
  BY DEF CallInv, WorkInv, CallShape, CallsOf
<1>2. i \in 1..c.igs /\ i < c.next /\ i \in Pending(c) /\ i \in 1..n
  BY <1>1 DEF RunsOneByOne, Pending
<1>3. /\ e \in CallsOf(n) /\ e.rpc = c.rpc /\ e.igs = c.igs /\ e.at = c.at
      /\ e.next = c.next /\ e.running = c.running \ {i} /\ e.count = c.count
      /\ e.outcome = c.outcome /\ e.tracker = c.tracker
      /\ e.timeout_waiting = c.timeout_waiting /\ e.success_executed = c.success_executed
      /\ e.ads_with_bids = c.ads_with_bids /\ e.bids = c.bids
  BY <1>1 DEF CallsOf
<1>4. d \in AfterTask(e, TaskStatusOf(e.outcome[i]))
  BY <1>3
<1> HIDE DEF e
<1>5. /\ Pending(e) = Pending(c) \ {i}
      /\ \A os : EndedIn(e, os) = EndedIn(c, os)
  <2>1. i \notin c.next..c.igs
    BY <1>1, <1>2 DEF RunsOneByOne
  <2> QED
    BY <1>3, <2>1 DEF Pending, EndedIn
<1>6. c.outcome[i] \in Outcomes
  BY <1>1, <1>2 DEF CallsOf
<1>7. TaskEnds(c, e, i)
  BY <1>1, <1>2, <1>3, <1>5, <1>6 DEF TaskEnds, RunsOneByOne
<1> QED
  BY <1>3, <1>4, <1>7, AfterTaskKeeps

\* The loop of DispatchExecutions gives one more run to the client, which runs it, or
\* fails to.
LEMMA DispatchInterestGroupKeeps ==
    ASSUME NEW n \in Nat, NEW c, CallInv(c, n), c.at = "single", c.next <= c.igs,
           NEW next, next = [c EXCEPT !.next = @ + 1],
           NEW d, \/ d = [next EXCEPT !.running = @ \cup {c.next}]
                  \/ d \in AfterTask([next EXCEPT !.outcome[c.next] = "failed"], "ERROR")
    PROVE  CallInv(d, n)
<1> DEFINE i == c.next
<1>1. /\ c \in CallsOf(n) /\ RunsOneByOne(c) /\ CallShape(c, n) /\ c.igs \in {0, n}
      /\ i \in 1..c.igs /\ i \in 1..n /\ c.igs \in Nat
  BY DEF CallInv, WorkInv, CallShape, CallsOf, RunsOneByOne
<1>2. i \in Pending(c) /\ i \notin c.running /\ c.outcome[i] = "lost"
  BY <1>1 DEF Pending, RunsOneByOne
<1>3. ~AtEnd(c)
  BY <1>2 DEF AtEnd
<1>4. CASE d = [next EXCEPT !.running = @ \cup {i}]
  <2>1. /\ d \in CallsOf(n) /\ d.rpc = c.rpc /\ d.igs = c.igs /\ d.at = "single"
        /\ d.next = i + 1 /\ d.running = c.running \cup {i} /\ d.count = c.count
        /\ d.outcome = c.outcome /\ d.tracker = c.tracker
        /\ d.timeout_waiting = c.timeout_waiting /\ d.success_executed = c.success_executed
        /\ d.ads_with_bids = c.ads_with_bids /\ d.bids = c.bids
    <3>1. i + 1 \in Nat /\ c.running \cup {i} \in SUBSET (1..n)
      BY <1>1 DEF CallsOf
    <3>2. d = [c EXCEPT !.next = i + 1, !.running = c.running \cup {i}]
      BY <1>1, <1>4 DEF CallsOf
    <3> QED
      BY <1>1, <3>1, <3>2 DEF CallsOf
  <2>2. /\ Pending(d) = Pending(c) /\ \A os : EndedIn(d, os) = EndedIn(c, os)
    <3>1. (c.next..c.igs) \cup c.running = ((i + 1)..c.igs) \cup (c.running \cup {i})
      BY <1>1
    <3> QED
      BY <2>1, <3>1 DEF Pending, EndedIn
  <2>3. \A s : Reported(d, s) = Reported(c, s)
    BY <2>1, <2>2 DEF Reported
  <2>4. /\ d.next \in 1..(d.igs + 1) /\ d.running \subseteq 1..(d.next - 1)
        /\ \A j \in d.next..d.igs : d.outcome[j] = "lost"
    BY <1>1, <2>1 DEF RunsOneByOne
  <2>5. RunsOneByOne(d)
    BY <1>1, <2>1, <2>2, <2>3, <2>4 DEF RunsOneByOne
  <2>6. CallShape(d, n)
    <3>1. d.igs = c.igs /\ d.rpc = c.rpc /\ d.at = c.at
      BY <2>1
    <3> QED
      BY <1>1, <2>1, <3>1 DEF CallShape
  <2>7. WorkInv(d, n) /\ ~AtEnd(d)
    BY <1>2, <2>1, <2>2, <2>5, <2>6
       DEF CallInv, WorkInv, NothingRun, RunsInABatch, AtEnd
  <2> QED
    BY <1>3, <2>1, <2>7, UnfinishedCallInv
<1>5. CASE d \in AfterTask([next EXCEPT !.outcome[i] = "failed"], "ERROR")
  <2> DEFINE outcome == [c.outcome EXCEPT ![i] = "failed"]
             e == [c EXCEPT !.next = i + 1, !.outcome = outcome]
  <2>1. e = [next EXCEPT !.outcome[i] = "failed"]
    BY <1>1 DEF CallsOf
  <2>2. /\ outcome \in [1..n -> Outcomes \cup {"lost"}] /\ outcome[i] = "failed"
        /\ \A j \in (1..n) \ {i} : outcome[j] = c.outcome[j]
    BY <1>1 DEF CallsOf, Outcomes, Failures
  <2> HIDE DEF outcome
  <2>3. /\ e \in CallsOf(n) /\ e.rpc = c.rpc /\ e.igs = c.igs /\ e.at = c.at
        /\ e.next = i + 1 /\ e.running = c.running /\ e.count = c.count
        /\ e.outcome = outcome /\ e.tracker = c.tracker
        /\ e.timeout_waiting = c.timeout_waiting /\ e.success_executed = c.success_executed
        /\ e.ads_with_bids = c.ads_with_bids /\ e.bids = c.bids
    <3>1. i + 1 \in Nat
      BY <1>1
    <3> HIDE DEF i
    <3> QED
      BY <1>1, <2>2, <3>1 DEF CallsOf
  <2> HIDE DEF e
  <2>4. TaskStatusOf(e.outcome[i]) = "ERROR" /\ e.outcome[i] \in Outcomes
    BY <2>2, <2>3 DEF TaskStatusOf, Outcomes, Failures
  <2>5. Pending(e) = Pending(c) \ {i}
    <3>1. ((i + 1)..c.igs) \cup c.running = ((c.next..c.igs) \cup c.running) \ {i}
      BY <1>1, <1>2
    <3> QED
      BY <2>3, <3>1 DEF Pending
  <2>6. /\ EndedIn(e, {"bids"}) = EndedIn(c, {"bids"})
        /\ EndedIn(e, {"unstarted"}) = EndedIn(c, {"unstarted"})
    <3>1. 1..c.igs \subseteq 1..n
      BY <1>1
    <3> QED
      BY <1>2, <2>2, <2>3, <3>1 DEF EndedIn
  <2>7. /\ e.next \in 1..(c.igs + 1) /\ e.running \subseteq 1..(e.next - 1)
    BY <1>1, <2>3 DEF RunsOneByOne
  <2>8. /\ \A j \in e.next..c.igs : e.outcome[j] = "lost"
        /\ \A j \in (1..c.igs) \ {i} : e.outcome[j] = c.outcome[j]
    BY <1>1, <2>2, <2>3 DEF RunsOneByOne
  <2>9. TaskEnds(c, e, i)
    BY <1>1, <1>2, <2>3, <2>4, <2>5, <2>6, <2>7, <2>8 DEF TaskEnds
  <2>10. d \in AfterTask(e, TaskStatusOf(e.outcome[i]))
    BY <1>5, <2>1, <2>4
  <2> QED
    BY <2>3, <2>9, <2>10, AfterTaskKeeps
<1> QED
  BY <1>4, <1>5

\* A step of a batch before its end.
LEMMA BatchGoesOn ==
    ASSUME NEW n \in Nat, NEW c, CallInv(c, n), c.at \in {"queued", "loop", "await"},
           NEW d \in CallsOf(n), d.at \in {"loop", "await"},
           d.rpc = c.rpc, d.igs = c.igs, d.bids = c.bids, RunsInABatch(d)
    PROVE  CallInv(d, n)
<1>1. ~AtEnd(c) /\ ~AtEnd(d)
  BY DEF AtEnd
<1>2. CallShape(c, n) /\ n > 0
  BY DEF CallInv, WorkInv, CallShape
<1>3. CallShape(d, n)
  BY <1>2 DEF CallShape
<1>4. WorkInv(d, n)
  BY <1>3 DEF WorkInv, NothingRun, RunsOneByOne
<1> QED
  BY <1>1, <1>4, UnfinishedCallInv

\* The closure of a batch begins, or its time to wait is up.
LEMMA StartAndCancelKeep ==
    ASSUME NEW n \in Nat, NEW c, CallInv(c, n), NEW d,
           \/ c.at = "queued" /\ d = [c EXCEPT !.at = "loop", !.count = c.igs]
           \/ c.at = "await" /\ d = [c EXCEPT !.killed = TRUE]
    PROVE  CallInv(d, n)
<1>1. /\ c \in CallsOf(n) /\ RunsInABatch(c) /\ NothingRun(c) /\ c.igs \in Nat
  BY DEF CallInv, WorkInv, CallShape, CallsOf
<1>2. CASE c.at = "queued" /\ d = [c EXCEPT !.at = "loop", !.count = c.igs]
  <2>1. /\ d \in CallsOf(n) /\ d.rpc = c.rpc /\ d.igs = c.igs /\ d.bids = c.bids
        /\ d.at = "loop" /\ d.count = c.igs
        /\ d.next = c.next /\ d.running = c.running /\ d.outcome = c.outcome
        /\ d.responses = c.responses /\ d.ads_with_bids = c.ads_with_bids
        /\ d.timeout_waiting = c.timeout_waiting /\ d.success_executed = c.success_executed
    BY <1>1, <1>2 DEF CallsOf, Locations
  <2>2. /\ LostRuns(c) = 1..c.igs /\ LostRuns(d) = LostRuns(c)
        /\ d.next = 1 /\ d.running = {} /\ d.responses = d.outcome
        /\ d.ads_with_bids = {} /\ d.timeout_waiting = 0 /\ d.success_executed = 0
    BY <1>1, <1>2, <2>1 DEF NothingRun, LostRuns, EndedIn
  <2>3. d.count = Cardinality(LostRuns(d))
    BY <1>1, <2>1, <2>2, UpTo
  <2>4. \A i \in d.next..d.igs : d.outcome[i] = "lost"
    BY <2>1, <2>2 DEF LostRuns, EndedIn
  <2>5. d.running = {i \in 1..(d.next - 1) : d.outcome[i] = "lost"}
    BY <2>2
  <2>6. RunsInABatch(d)
    BY <1>1, <2>1, <2>2, <2>3, <2>4, <2>5 DEF RunsInABatch
  <2> QED
    BY <1>2, <2>1, <2>6, BatchGoesOn
<1>3. CASE c.at = "await" /\ d = [c EXCEPT !.killed = TRUE]
  <2>1. /\ d \in CallsOf(n) /\ d.rpc = c.rpc /\ d.igs = c.igs /\ d.bids = c.bids
        /\ d.at = "await" /\ d.count = c.count
        /\ d.next = c.next /\ d.running = c.running /\ d.outcome = c.outcome
        /\ d.responses = c.responses /\ d.ads_with_bids = c.ads_with_bids
        /\ d.timeout_waiting = c.timeout_waiting /\ d.success_executed = c.success_executed
    BY <1>1, <1>3 DEF CallsOf
  <2>2. RunsInABatch(d)
    BY <1>1, <1>3, <2>1 DEF RunsInABatch, LostRuns, EndedIn
  <2> QED
    BY <1>3, <2>1, <2>2, BatchGoesOn
<1> QED
  BY <1>2, <1>3

\* The loop of a batch: the next run starts, or there is none left.
LEMMA DispatchRunKeeps ==
    ASSUME NEW n \in Nat, NEW c, CallInv(c, n), c.at = "loop", NEW d,
           IF c.next > c.igs THEN d = [c EXCEPT !.at = "await"]
           ELSE d = [c EXCEPT !.running = @ \cup {c.next}, !.next = @ + 1]
    PROVE  CallInv(d, n)
<1>1. /\ c \in CallsOf(n) /\ RunsInABatch(c) /\ c.igs \in {0, n} /\ c.igs \in Nat
      /\ c.next \in 1..(c.igs + 1)
      /\ c.running = {i \in 1..(c.next - 1) : c.outcome[i] = "lost"}
      /\ \A i \in c.next..c.igs : c.outcome[i] = "lost"
  BY DEF CallInv, WorkInv, CallShape, CallsOf, RunsInABatch
<1>2. CASE c.next > c.igs /\ d = [c EXCEPT !.at = "await"]
  <2>1. /\ d \in CallsOf(n) /\ d.rpc = c.rpc /\ d.igs = c.igs /\ d.bids = c.bids
        /\ d.at = "await" /\ d.count = c.count
        /\ d.next = c.next /\ d.running = c.running /\ d.outcome = c.outcome
        /\ d.responses = c.responses /\ d.ads_with_bids = c.ads_with_bids
        /\ d.timeout_waiting = c.timeout_waiting /\ d.success_executed = c.success_executed
    BY <1>1, <1>2 DEF CallsOf, Locations
  <2>2. c.next - 1 = c.igs
    BY <1>1, <1>2
  <2>3. LostRuns(d) = LostRuns(c) /\ d.running = LostRuns(d)
    BY <1>1, <2>1, <2>2 DEF LostRuns, EndedIn
  <2>4. RunsInABatch(d)
    BY <1>1, <2>1, <2>3 DEF RunsInABatch
  <2> QED
    BY <2>1, <2>4, BatchGoesOn
<1>3. CASE ~(c.next > c.igs) /\ d = [c EXCEPT !.running = @ \cup {c.next}, !.next = @ + 1]
  <2> DEFINE i == c.next
  <2>1. i \in 1..c.igs /\ i + 1 \in Nat /\ c.running \cup {i} \in SUBSET (1..n)
    BY <1>1, <1>3 DEF CallsOf
  <2>2. d = [c EXCEPT !.running = c.running \cup {i}, !.next = i + 1]
    BY <1>3
  <2>3. /\ d \in CallsOf(n) /\ d.rpc = c.rpc /\ d.igs = c.igs /\ d.bids = c.bids
        /\ d.at = "loop" /\ d.count = c.count
        /\ d.next = i + 1 /\ d.running = c.running \cup {i} /\ d.outcome = c.outcome
        /\ d.responses = c.responses /\ d.ads_with_bids = c.ads_with_bids
        /\ d.timeout_waiting = c.timeout_waiting /\ d.success_executed = c.success_executed
    BY <1>1, <2>1, <2>2 DEF CallsOf
  <2>4. c.outcome[i] = "lost" /\ 1..(d.next - 1) = 1..(i - 1) \cup {i}
    BY <1>1, <2>1, <2>3
  <2>5. LostRuns(d) = LostRuns(c) /\ d.running = {j \in 1..(d.next - 1) : d.outcome[j] = "lost"}
    BY <1>1, <2>3, <2>4 DEF LostRuns, EndedIn
  <2>6. d.next \in 1..(d.igs + 1) /\ \A j \in d.next..d.igs : d.outcome[j] = "lost"
    BY <1>1, <2>1, <2>3
  <2>7. RunsInABatch(d)
    BY <1>1, <2>3, <2>5, <2>6 DEF RunsInABatch
  <2> QED
    BY <2>3, <2>7, BatchGoesOn
<1> QED
  BY <1>2, <1>3

\* The responses of a batch when the runs from first to last are given the same one.
Given(c, first, last, f) ==
    [i \in DOMAIN c.responses |-> IF i \in first..last THEN f ELSE c.responses[i]]

\* The responses that the loop hands over, one for each of its runs.
LEMMA GivenResponses ==
    ASSUME NEW n \in Nat, NEW c \in CallsOf(n), c.responses = c.outcome,
           NEW first \in Nat, NEW last \in Nat, NEW f \in Outcomes
    PROVE  /\ Given(c, first, last, f) \in [1..n -> Outcomes \cup {"lost"}]
           /\ \A i \in 1..n : Given(c, first, last, f)[i] =
                  IF i \in first..last THEN f ELSE c.outcome[i]
<1>1. DOMAIN c.responses = 1..n /\ c.outcome \in [1..n -> Outcomes \cup {"lost"}]
  BY DEF CallsOf
<1> QED
  BY <1>1 DEF Given

\* The call d is the call c but for what a run of the batch that starts, or reports,
\* moves: the place in the code, the next run, the runs out, their count and answers.
BatchMoved(d, c, at, next, running, count, g) ==
    /\ d.rpc = c.rpc /\ d.igs = c.igs /\ d.bids = c.bids
    /\ d.at = at /\ d.next = next /\ d.running = running /\ d.count = count
    /\ d.outcome = g /\ d.responses = g /\ d.ads_with_bids = c.ads_with_bids
    /\ d.timeout_waiting = c.timeout_waiting /\ d.success_executed = c.success_executed

\* The fields of a call whose next run failed to start, the loop going on.
LEMMA NextRunFails ==
    ASSUME NEW n \in Nat, NEW c \in CallsOf(n), NEW next \in Nat, NEW count \in Nat,
           NEW g \in [1..n -> Outcomes \cup {"lost"}], NEW d,
           d = [c EXCEPT !.responses = g, !.outcome = g, !.count = count, !.next = next]
    PROVE  d \in CallsOf(n) /\ BatchMoved(d, c, c.at, next, c.running, count, g)
BY DEF CallsOf, BatchMoved

\* The fields of a call whose runs left to start all failed.
LEMMA LastRunsFail ==
    ASSUME NEW n \in Nat, NEW c \in CallsOf(n), NEW at \in Locations, NEW count \in Nat,
           NEW g \in [1..n -> Outcomes \cup {"lost"}], NEW d,
           d = [c EXCEPT !.responses = g, !.outcome = g, !.count = count, !.at = at]
    PROVE  d \in CallsOf(n) /\ BatchMoved(d, c, at, c.next, c.running, count, g)
BY DEF CallsOf, BatchMoved

\* The fields of a call one of whose runs reported.
LEMMA RunIsBack ==
    ASSUME NEW n \in Nat, NEW c \in CallsOf(n), NEW running \in SUBSET (1..n),
           NEW count \in Nat, NEW g \in [1..n -> Outcomes \cup {"lost"}], NEW d,
           d = [c EXCEPT !.running = running, !.count = count, !.responses = g, !.outcome = g]
    PROVE  d \in CallsOf(n) /\ BatchMoved(d, c, c.at, c.next, running, count, g)
BY DEF CallsOf, BatchMoved

\* The loop of a batch: the next run cannot be started in time, and with it, when
\* there is a time to start in, none of those after it. What is awaited becomes less
\* by the runs given up.
LEMMA StartFailsKeeps ==
    ASSUME NEW n \in Nat, NEW c, CallInv(c, n), c.at = "loop", c.next <= c.igs,
           NEW f \in Failures, NEW d, d = StartFails(c, f)
    PROVE  CallInv(d, n)
<1> DEFINE i == c.next
<1>1. /\ c \in CallsOf(n) /\ RunsInABatch(c) /\ c.igs \in {0, n} /\ c.igs \in Nat
      /\ i \in 1..c.igs /\ i \in Nat /\ f \in Outcomes /\ f # "lost"
  BY DEF CallInv, WorkInv, CallShape, CallsOf, RunsInABatch, Outcomes, Failures
<1>2. /\ c.running = {j \in 1..(i - 1) : c.outcome[j] = "lost"}
      /\ \A j \in i..c.igs : c.outcome[j] = "lost"
      /\ c.responses = c.outcome /\ c.ads_with_bids = {}
      /\ c.timeout_waiting = 0 /\ c.success_executed = 0
      /\ c.count = Cardinality(LostRuns(c))
  BY <1>1 DEF RunsInABatch
<1>3. LostRuns(c) \in SUBSET (1..c.igs) /\ IsFiniteSet(LostRuns(c)) /\ i \in LostRuns(c)
  <2>1. LostRuns(c) \in SUBSET (1..c.igs) /\ i \in LostRuns(c)
    BY <1>1, <1>2 DEF LostRuns, EndedIn
  <2> QED
    BY <1>1, <2>1, UpTo
<1>4. 1..c.igs \subseteq 1..n
  BY <1>1
<1>5. CASE workload.batch_start_timeout = "zero"
  <2> DEFINE g == Given(c, i, i, f)
  <2>1. /\ g \in [1..n -> Outcomes \cup {"lost"}] /\ g[i] = f
        /\ \A j \in (1..n) \ {i} : g[j] = c.outcome[j]
    BY <1>1, <1>2, <1>4, GivenResponses
  <2>2. d = [c EXCEPT !.responses = g, !.outcome = g, !.count = c.count - 1, !.next = i + 1]
    BY <1>5 DEF StartFails, Given
  <2> HIDE DEF g
  <2>3. Cardinality(LostRuns(c) \ {i}) = c.count - 1 /\ c.count - 1 \in Nat /\ i + 1 \in Nat
    <3>1. LostRuns(c) \ {i} \in SUBSET (1..c.igs)
      BY <1>3
    <3>2. Cardinality(LostRuns(c) \ {i}) = c.count - 1
      BY <1>2, <1>3, FS_RemoveElement
    <3> QED
      BY <1>1, <3>1, <3>2, UpTo
  <2>4. /\ d \in CallsOf(n) /\ d.rpc = c.rpc /\ d.igs = c.igs /\ d.bids = c.bids
        /\ d.at = "loop" /\ d.count = c.count - 1
        /\ d.next = i + 1 /\ d.running = c.running /\ d.outcome = g
        /\ d.responses = g /\ d.ads_with_bids = c.ads_with_bids
        /\ d.timeout_waiting = c.timeout_waiting /\ d.success_executed = c.success_executed
    <3> DEFINE m == c.count - 1
               k == i + 1
    <3>1. d = [c EXCEPT !.responses = g, !.outcome = g, !.count = m, !.next = k]
      BY <2>2
    <3>2. m \in Nat /\ k \in Nat /\ c \in CallsOf(n)
      BY <1>1, <2>3
    <3> HIDE DEF m, k
    <3>3. d \in CallsOf(n) /\ BatchMoved(d, c, c.at, k, c.running, m, g)
      BY <2>1, <3>1, <3>2, NextRunFails, Zenon
    <3> QED
      BY <3>3 DEF m, k, BatchMoved
  <2>5. LostRuns(d) = LostRuns(c) \ {i}
    BY <1>1, <1>4, <2>1, <2>4 DEF LostRuns, EndedIn
  <2>6. /\ d.running = {j \in 1..(d.next - 1) : d.outcome[j] = "lost"}
        /\ \A j \in d.next..d.igs : d.outcome[j] = "lost"
    <3>1. /\ 1..(d.next - 1) = 1..(i - 1) \cup {i} /\ i \notin 1..(i - 1)
          /\ d.next..d.igs = (i..c.igs) \ {i}
          /\ 1..(i - 1) \subseteq 1..n /\ i..c.igs \subseteq 1..n
      BY <1>1, <1>4, <2>4
    <3>2. \A j \in 1..(i - 1) : d.outcome[j] = c.outcome[j]
      BY <1>1, <2>1, <2>4, <3>1
    <3>3. d.outcome[i] # "lost"
      BY <1>1, <2>1, <2>4
    <3>4. {j \in 1..(d.next - 1) : d.outcome[j] = "lost"}
             = {j \in 1..(i - 1) : c.outcome[j] = "lost"}
      BY <3>1, <3>2, <3>3
    <3>5. \A j \in d.next..d.igs : d.outcome[j] = "lost"
      BY <1>2, <2>1, <2>4, <3>1
    <3> QED
      BY <1>2, <2>4, <3>4, <3>5
  <2>7. d.next \in 1..(d.igs + 1)
    BY <1>1, <2>4
  <2>8. RunsInABatch(d)
    BY <1>2, <2>3, <2>4, <2>5, <2>6, <2>7 DEF RunsInABatch
  <2> QED
    BY <2>4, <2>8, BatchGoesOn
<1>6. CASE workload.batch_start_timeout # "zero"
  <2> DEFINE g == Given(c, i, c.igs, f)
             rest == c.igs - i + 1
  <2>1. /\ g \in [1..n -> Outcomes \cup {"lost"}]
        /\ \A j \in 1..n : g[j] = IF j \in i..c.igs THEN f ELSE c.outcome[j]
    BY <1>1, <1>2, GivenResponses
  <2>2. d = [c EXCEPT !.responses = g, !.outcome = g, !.count = c.count - rest, !.at = "await"]
    BY <1>6 DEF StartFails, Given, NotDispatched
  <2> HIDE DEF g
  <2>3. Cardinality(LostRuns(c) \ (i..c.igs)) = c.count - rest /\ c.count - rest \in Nat
    <3>1. LostRuns(c) \ (i..c.igs) \in SUBSET (1..c.igs)
      BY <1>3
    <3>2. LostRuns(c) \cap (i..c.igs) = i..c.igs
      BY <1>1, <1>2 DEF LostRuns, EndedIn
    <3>3. Cardinality(i..c.igs) = rest
      <4>1. i \in Int /\ c.igs \in Int /\ ~(i > c.igs)
        BY <1>1
      <4> HIDE DEF i
      <4> QED
        BY <4>1, FS_Interval
    <3>4. Cardinality(LostRuns(c) \ (i..c.igs)) = Cardinality(LostRuns(c)) - Cardinality(i..c.igs)
      BY <1>3, <3>2, FS_Difference
    <3> QED
      BY <1>1, <1>2, <3>1, <3>3, <3>4, UpTo
  <2> HIDE DEF rest
  <2>4. /\ d \in CallsOf(n) /\ d.rpc = c.rpc /\ d.igs = c.igs /\ d.bids = c.bids
        /\ d.at = "await" /\ d.count = c.count - rest
        /\ d.next = c.next /\ d.running = c.running /\ d.outcome = g
        /\ d.responses = g /\ d.ads_with_bids = c.ads_with_bids
        /\ d.timeout_waiting = c.timeout_waiting /\ d.success_executed = c.success_executed
    <3> DEFINE m == c.count - rest
    <3>1. "await" \in Locations
      BY DEF Locations
    <3>2. d = [c EXCEPT !.responses = g, !.outcome = g, !.count = m, !.at = "await"]
      BY <2>2
    <3>3. m \in Nat /\ c \in CallsOf(n)
      BY <1>1, <2>3
    <3> HIDE DEF m
    <3>4. d \in CallsOf(n) /\ BatchMoved(d, c, "await", c.next, c.running, m, g)
      BY <2>1, <3>1, <3>2, <3>3, LastRunsFail, Zenon
    <3> QED
      BY <3>4 DEF m, BatchMoved
  <2>5. /\ LostRuns(d) = LostRuns(c) \ (i..c.igs)
        /\ LostRuns(c) \ (i..c.igs) = {j \in 1..(i - 1) : c.outcome[j] = "lost"}
    <3>1. /\ 1..c.igs = 1..(i - 1) \cup (i..c.igs) /\ 1..(i - 1) \cap (i..c.igs) = {}
      BY <1>1
    <3>2. \A j \in 1..c.igs : d.outcome[j] = "lost" <=> j \notin i..c.igs /\ c.outcome[j] = "lost"
      BY <1>1, <1>4, <2>1, <2>4
    <3> QED
      BY <2>4, <3>1, <3>2 DEF LostRuns, EndedIn
  <2>6. RunsInABatch(d)
    BY <1>2, <2>3, <2>4, <2>5 DEF RunsInABatch
  <2> QED
    BY <2>4, <2>6, BatchGoesOn
<1> QED
  BY <1>5, <1>6

\* The callback of a run of a batch.
LEMMA StoreResultKeeps ==
    ASSUME NEW n \in Nat, NEW c, CallInv(c, n), c.at \notin {"single", "execute"},
           NEW i \in c.running, NEW o \in Outcomes,
           NEW d, d = [c EXCEPT !.running = @ \ {i}, !.count = @ - 1,
                                !.responses[i] = o, !.outcome[i] = o]
    PROVE  CallInv(d, n)
<1>1. /\ c \in CallsOf(n) /\ RunsInABatch(c) /\ c.igs \in {0, n} /\ c.igs \in Nat
      /\ c.at \in {"loop", "await"} /\ o # "lost"
  BY DEF CallInv, WorkInv, CallShape, CallsOf, NothingRun, RunsInABatch, Locations, Outcomes, Failures
<1>2. /\ c.responses = c.outcome /\ c.ads_with_bids = {}
      /\ c.timeout_waiting = 0 /\ c.success_executed = 0
      /\ c.count = Cardinality(LostRuns(c))
  BY <1>1 DEF RunsInABatch
<1>3. LostRuns(c) \in SUBSET (1..c.igs) /\ IsFiniteSet(LostRuns(c)) /\ i \in LostRuns(c)
  <2>1. i \in 1..c.igs /\ c.outcome[i] = "lost"
    BY <1>1 DEF RunsInABatch, LostRuns, EndedIn
  <2>2. LostRuns(c) \in SUBSET (1..c.igs) /\ i \in LostRuns(c)
    BY <1>1, <2>1 DEF LostRuns, EndedIn
  <2> QED
    BY <1>1, <2>2, UpTo
<1> DEFINE g == [c.outcome EXCEPT ![i] = o]
<1>4. /\ 1..c.igs \subseteq 1..n /\ i \in 1..c.igs
  BY <1>1, <1>3
<1>5. /\ g \in [1..n -> Outcomes \cup {"lost"}] /\ g[i] = o
      /\ \A j \in (1..n) \ {i} : g[j] = c.outcome[j]
  BY <1>1, <1>4 DEF CallsOf
<1>6. d = [c EXCEPT !.running = c.running \ {i}, !.count = c.count - 1,
                    !.responses = g, !.outcome = g]
  BY <1>2
<1> HIDE DEF g
<1>7. Cardinality(LostRuns(c) \ {i}) = c.count - 1 /\ c.count - 1 \in Nat
  <2>1. LostRuns(c) \ {i} \in SUBSET (1..c.igs)
    BY <1>3
  <2>2. Cardinality(LostRuns(c) \ {i}) = c.count - 1
    BY <1>2, <1>3, FS_RemoveElement
  <2> QED
    BY <1>1, <2>1, <2>2, UpTo
<1>8. /\ d \in CallsOf(n) /\ d.rpc = c.rpc /\ d.igs = c.igs /\ d.bids = c.bids
      /\ d.at = c.at /\ d.count = c.count - 1
      /\ d.next = c.next /\ d.running = c.running \ {i} /\ d.outcome = g
      /\ d.responses = g /\ d.ads_with_bids = c.ads_with_bids
      /\ d.timeout_waiting = c.timeout_waiting /\ d.success_executed = c.success_executed
  <2> DEFINE m == c.count - 1
             out == c.running \ {i}
  <2>1. out \in SUBSET (1..n)
    BY <1>1 DEF CallsOf
  <2>2. d = [c EXCEPT !.running = out, !.count = m, !.responses = g, !.outcome = g]
    BY <1>6
  <2>3. m \in Nat /\ c \in CallsOf(n)
    BY <1>1, <1>7
  <2> HIDE DEF m, out
  <2>4. d \in CallsOf(n) /\ BatchMoved(d, c, c.at, c.next, out, m, g)
    BY <1>5, <2>1, <2>2, <2>3, RunIsBack, Zenon
  <2> QED
    BY <2>4 DEF m, out, BatchMoved
<1>9. LostRuns(d) = LostRuns(c) \ {i}
  BY <1>1, <1>4, <1>5, <1>8 DEF LostRuns, EndedIn
<1>10. CASE c.at = "loop"
  <2>1. /\ c.next \in 1..(c.igs + 1) /\ i \in 1..(c.next - 1)
        /\ c.running = {j \in 1..(c.next - 1) : c.outcome[j] = "lost"}
        /\ \A j \in c.next..c.igs : c.outcome[j] = "lost"
    BY <1>1, <1>10 DEF RunsInABatch
  <2>2. 1..(c.next - 1) \subseteq 1..n /\ c.next..c.igs \subseteq (1..n) \ {i}
    <3>1. c.igs = n
      BY <1>1, <1>4
    <3>2. c.next - 1 <= n /\ i < c.next /\ c.next \in Nat
      BY <1>1, <2>1, <3>1
    <3>3. 1..(c.next - 1) \subseteq 1..n
      BY <3>2
    <3>4. \A j \in c.next..n : j \in 1..n /\ j # i
      BY <2>1, <3>2
    <3> QED
      BY <3>1, <3>3, <3>4
  <2>3. d.running = {j \in 1..(d.next - 1) : d.outcome[j] = "lost"}
    BY <1>1, <1>5, <1>8, <2>1, <2>2
  <2>4. \A j \in d.next..d.igs : d.outcome[j] = "lost"
    BY <1>5, <1>8, <2>1, <2>2
  <2>5. RunsInABatch(d)
    BY <1>2, <1>7, <1>8, <1>9, <1>10, <2>1, <2>3, <2>4 DEF RunsInABatch
  <2> QED
    BY <1>8, <1>10, <2>5, BatchGoesOn
<1>11. CASE c.at = "await"
  <2>1. d.running = LostRuns(d)
    BY <1>1, <1>8, <1>9, <1>11 DEF RunsInABatch
  <2>2. RunsInABatch(d)
    BY <1>2, <1>7, <1>8, <1>9, <1>11, <2>1 DEF RunsInABatch
  <2> QED
    BY <1>8, <1>11, <2>2, BatchGoesOn
<1> QED
  BY <1>1, <1>10, <1>11

\* What the reactor reads from the responses of a batch, in a closure that goes on.
Responded(c, os) == {i \in 1..c.igs : c.responses[i] \in os}

HandedOver(c) ==
    [c EXCEPT !.at = "release",
              !.timeout_waiting = Cardinality(Responded(c, {"unstarted"})),
              !.success_executed = Cardinality(Responded(c, Ran)),
              !.ads_with_bids = Responded(c, {"bids"})]

\* The callback of a batch hands the responses over when none is awaited any more.
LEMMA EndBatchKeeps ==
    ASSUME NEW n \in Nat, NEW c, CallInv(c, n), c.at = "await", c.count = 0,
           NEW d \in OnAllBidsDone(HandedOver(c), Responded(c, Ran) # {})
    PROVE  CallInv(d, n)
<1> DEFINE unstarted == Responded(c, {"unstarted"})
           ran == Responded(c, Ran)
           withBids == Responded(c, {"bids"})
           u == Cardinality(unstarted)
           x == Cardinality(ran)
           e == [c EXCEPT !.at = "release", !.timeout_waiting = u, !.success_executed = x,
                          !.ads_with_bids = withBids]
<1> USE DEF Responded
<1>1. /\ c \in CallsOf(n) /\ CallShape(c, n) /\ RunsInABatch(c) /\ c.igs \in {0, n}
      /\ c.igs \in Nat /\ c.responses = c.outcome /\ c.running = LostRuns(c)
      /\ c.count = Cardinality(LostRuns(c))
  BY DEF CallInv, WorkInv, CallShape, CallsOf, RunsInABatch
<1>2. /\ u \in Nat /\ x \in Nat /\ u + x <= c.igs
  <2>1. unstarted \in SUBSET (1..c.igs) /\ ran \in SUBSET (1..c.igs)
    OBVIOUS
  <2>2. unstarted \cap ran = {}
    BY DEF Ran
  <2>3. /\ IsFiniteSet(unstarted) /\ IsFiniteSet(ran) /\ u \in Nat /\ x \in Nat
    BY <1>1, <2>1, UpTo
  <2>4. Cardinality(unstarted \cup ran) = u + x
    <3>1. Cardinality(unstarted \cup ran) = u + x - Cardinality(unstarted \cap ran)
      BY <2>3, FS_Union
    <3>2. Cardinality(unstarted \cap ran) = 0
      BY <2>2, FS_EmptySet
    <3> QED
      BY <2>3, <3>1, <3>2
  <2>5. unstarted \cup ran \in SUBSET (1..c.igs)
    BY <2>1
  <2>6. Cardinality(unstarted \cup ran) <= c.igs
    BY <1>1, <2>5, UpTo
  <2> QED
    BY <2>3, <2>4, <2>6
<1>3. withBids \in SUBSET (1..n) /\ "release" \in Locations
  BY <1>1 DEF Locations
<1>4. /\ withBids = EndedIn(c, {"bids"}) /\ unstarted = EndedIn(c, {"unstarted"})
      /\ ran = EndedIn(c, Ran)
  BY <1>1 DEF EndedIn
<1>5. d \in OnAllBidsDone(e, ran # {})
  BY DEF HandedOver
<1> HIDE DEF u, x
<1>6. /\ e \in CallsOf(n) /\ e.rpc = c.rpc /\ e.igs = c.igs /\ e.bids = c.bids
      /\ e.at = "release" /\ e.count = c.count
      /\ e.next = c.next /\ e.running = c.running /\ e.outcome = c.outcome
      /\ e.responses = c.responses /\ e.ads_with_bids = withBids
      /\ e.timeout_waiting = u /\ e.success_executed = x
  <2>1. c \in CallsOf(n)
    BY <1>1
  <2> QED
    BY <1>2, <1>3, <2>1 DEF CallsOf
<1> HIDE DEF e
<1>7. \A os : EndedIn(e, os) = EndedIn(c, os)
  BY <1>6 DEF EndedIn
<1>8. LostRuns(c) = {}
  <2>1. LostRuns(c) \in SUBSET (1..c.igs)
    BY DEF LostRuns, EndedIn
  <2> QED
    BY <1>1, <2>1, UpTo, FiniteSubset
<1>9. EndedIn(e, Outcomes) = 1..e.igs
  <2>1. \A i \in 1..c.igs : c.outcome[i] # "lost" /\ i \in 1..n
    BY <1>1, <1>8 DEF LostRuns, EndedIn
  <2>2. \A i \in 1..c.igs : c.outcome[i] \in Outcomes
    BY <1>1, <2>1 DEF CallsOf
  <2> QED
    BY <1>6, <2>2 DEF EndedIn
<1>10. WorkInv(e, n) /\ AtEnd(e)
  <2>1. n > 0
    BY <1>1 DEF CallShape
  <2>2. CallShape(e, n)
    BY <1>1, <1>6, <2>1 DEF CallShape
  <2>3. RunsInABatch(e)
    BY <1>1, <1>2, <1>6, <1>8 DEF RunsInABatch
  <2> QED
    BY <1>6, <2>2, <2>3 DEF WorkInv, NothingRun, RunsOneByOne, AtEnd
<1>11. Unfinished(e)
  <2>1. ~AtEnd(c)
    BY DEF AtEnd
  <2> QED
    BY <1>6, <2>1 DEF CallInv, FinishedWhenOver, Unfinished
<1>12. /\ e.timeout_waiting <= Cardinality(EndedIn(e, {"unstarted"}))
       /\ e.ads_with_bids = EndedIn(e, {"bids"})
  <2>1. /\ EndedIn(e, {"unstarted"}) = unstarted /\ EndedIn(e, {"bids"}) = withBids
    BY <1>4, <1>7
  <2>2. u = Cardinality(unstarted)
    BY DEF u
  <2>3. Cardinality(EndedIn(e, {"unstarted"})) = u
    BY <2>1, <2>2
  <2>4. e.timeout_waiting = u /\ e.ads_with_bids = withBids
    BY <1>6
  <2>5. u <= u
    BY <1>2
  <2> QED
    BY <2>1, <2>3, <2>4, <2>5
<1>13. ~(ran # {}) => EndedIn(e, {"bids", "none"}) = {}
  BY <1>4, <1>7 DEF EndedIn, Ran
<1>14. /\ d \in CallsOf(n) /\ FinishedCall(e, d) /\ SameWork(e, d)
       /\ d.bids \subseteq d.ads_with_bids /\ CallStatus(d)
  <2> DEFINE any == ran # {}
  <2>1. any \in BOOLEAN /\ (~any => EndedIn(e, {"bids", "none"}) = {})
    BY <1>13
  <2>2. d \in OnAllBidsDone(e, any)
    BY <1>5
  <2> HIDE DEF any
  <2>3. e.igs \in Nat /\ e \in CallsOf(n)
    BY <1>1, <1>6
  <2> QED
    BY <1>9, <1>11, <1>12, <2>1, <2>2, <2>3, OnAllBidsDoneFinishes
<1> QED
  BY <1>10, <1>14, FinishedCallInv

\* The closure of a batch returns.
LEMMA ReleaseKeeps ==
    ASSUME NEW n \in Nat, NEW c, CallInv(c, n), c.at = "release",
           NEW d, d = [c EXCEPT !.at = "done"]
    PROVE  CallInv(d, n)
<1>1. c \in CallsOf(n) /\ CallShape(c, n) /\ RunsInABatch(c) /\ "done" \in Locations
  BY DEF CallInv, WorkInv, CallShape, Locations
<1>2. /\ d \in CallsOf(n) /\ d.rpc = c.rpc /\ d.igs = c.igs /\ d.bids = c.bids
      /\ d.at = "done" /\ d.count = c.count /\ d.running = c.running
      /\ d.outcome = c.outcome /\ d.ads_with_bids = c.ads_with_bids
      /\ d.timeout_waiting = c.timeout_waiting /\ d.success_executed = c.success_executed
  BY <1>1 DEF CallsOf
<1>3. CallShape(d, n)
  BY <1>1, <1>2 DEF CallShape
<1>4. RunsInABatch(d)
  BY <1>1, <1>2 DEF RunsInABatch
<1>5. WorkInv(d, n) /\ AtEnd(c) /\ AtEnd(d)
  BY <1>2, <1>3, <1>4 DEF WorkInv, NothingRun, RunsOneByOne, AtEnd
<1>6. FinishedWhenOver(d)
  BY <1>2, <1>5 DEF CallInv, FinishedWhenOver
<1>7. CallStatus(d)
  <2>1. \A os : EndedIn(d, os) = EndedIn(c, os)
    BY <1>2 DEF EndedIn
  <2> QED
    BY <1>2, <2>1 DEF CallInv, CallStatus, LostRuns
<1> QED
  BY <1>5, <1>6, <1>7 DEF CallInv

-----------------------------------------------------------------------------
(* Over BYOB: all the calls, and the counter of the client.                  *)

\* The limits and the groups of a workload are numbers.
LEMMA ByobWorkload ==
    ASSUME ByobInv
    PROVE  /\ workload.max_pending_batches \in Nat /\ workload.threads \in Nat
           /\ Calls = DOMAIN workload.groups
           /\ \A r \in Calls : workload.groups[r] \in Nat
<1>1. IsWorkload(workload)
  BY ByobAssumption DEF ByobInv
<1>2. Calls = DOMAIN workload.groups
  BY DEF ByobInv, Calls
<1> QED
  BY <1>1, <1>2 DEF IsWorkload

\* A step of one call keeps what is true of each call.
LEMMA OneCallSteps ==
    ASSUME ByobInv, NEW r \in Calls, NEW d, CallInv(d, workload.groups[r]),
           calls' = [calls EXCEPT ![r] = d], workload' = workload
    PROVE  /\ workload' \in ByobWorkloads
           /\ calls' = [q \in DOMAIN workload'.groups |-> calls'[q]]
           /\ \A q \in Calls' : CallInv(calls'[q], workload'.groups[q])
           /\ Calls' = Calls
           /\ calls'[r] = d /\ \A q \in Calls \ {r} : calls'[q] = calls[q]
<1>1. /\ workload \in ByobWorkloads /\ calls = [q \in DOMAIN workload.groups |-> calls[q]]
      /\ \A q \in Calls : CallInv(calls[q], workload.groups[q])
      /\ r \in DOMAIN workload.groups
  BY ByobWorkload DEF ByobInv
<1>2. Calls' = Calls /\ DOMAIN calls' = DOMAIN workload.groups
  BY <1>1 DEF Calls
<1>3. calls'[r] = d /\ \A q \in Calls \ {r} : calls'[q] = calls[q]
  BY <1>1, <1>2 DEF Calls
<1>4. calls' = [q \in DOMAIN workload'.groups |-> calls'[q]]
  BY <1>1, <1>2
<1>5. \A q \in Calls' : CallInv(calls'[q], workload'.groups[q])
  BY <1>1, <1>2, <1>3
<1> QED
  BY <1>1, <1>2, <1>3, <1>4, <1>5

\* Which calls are in a state of S, after a step of one call.
LEMMA BatchesAfter ==
    ASSUME NEW S, NEW r \in Calls, NEW d, Calls' = Calls,
           calls'[r] = d, \A q \in Calls \ {r} : calls'[q] = calls[q]
    PROVE  Batches(S)' = IF d.at \in S THEN Batches(S) \cup {r} ELSE Batches(S) \ {r}
<1>1. Batches(S)' = {q \in Calls : calls'[q].at \in S}
  BY DEF Batches
<1> QED
  BY <1>1 DEF Batches

\* A step that leaves the counter alone, and every thread with its batch.
LEMMA CounterStays ==
    ASSUME ByobInv, NEW r \in Calls, NEW d, CallInv(d, workload.groups[r]),
           calls' = [calls EXCEPT ![r] = d],
           UNCHANGED <<workload, num_pending_batches>>,
           d.at \in UnderWay <=> calls[r].at \in UnderWay,
           d.at \in OnThread <=> calls[r].at \in OnThread
    PROVE  ByobInv'
<1>1. /\ workload' \in ByobWorkloads
      /\ calls' = [q \in DOMAIN workload'.groups |-> calls'[q]]
      /\ \A q \in Calls' : CallInv(calls'[q], workload'.groups[q])
      /\ Calls' = Calls
      /\ calls'[r] = d /\ \A q \in Calls \ {r} : calls'[q] = calls[q]
  BY OneCallSteps
<1>2. \A S : Batches(S)' = IF d.at \in S THEN Batches(S) \cup {r} ELSE Batches(S) \ {r}
  BY <1>1, BatchesAfter
<1>3. Batches(UnderWay)' = Batches(UnderWay) /\ Batches(OnThread)' = Batches(OnThread)
  BY <1>2 DEF Batches
<1>4. ClientCounts'
  BY <1>3 DEF ByobInv, ClientCounts
<1> QED
  BY <1>1, <1>4 DEF ByobInv

\* ...and those that change it, each by the batch that is accepted, starts or ends.
LEMMA AcceptKeeps ==
    ASSUME ByobInv, NEW r \in Calls, calls[r].at = "execute", PendingAllows,
           CallInv([calls[r] EXCEPT !.at = "queued"], workload.groups[r]),
           calls' = [calls EXCEPT ![r].at = "queued"],
           num_pending_batches' = num_pending_batches + 1, UNCHANGED workload
    PROVE  ByobInv'
<1> DEFINE d == [calls[r] EXCEPT !.at = "queued"]
<1>1. /\ d.at = "queued" /\ calls' = [calls EXCEPT ![r] = d]
  BY DEF ByobInv, CallInv, WorkInv, CallShape, CallsOf
<1> HIDE DEF d
<1>2. CallInv(d, workload.groups[r])
  BY DEF d
<1>3. /\ workload' \in ByobWorkloads
      /\ calls' = [q \in DOMAIN workload'.groups |-> calls'[q]]
      /\ \A q \in Calls' : CallInv(calls'[q], workload'.groups[q])
      /\ Calls' = Calls
      /\ calls'[r] = d /\ \A q \in Calls \ {r} : calls'[q] = calls[q]
  BY <1>1, <1>2, OneCallSteps
<1>4. \A S : Batches(S)' = IF d.at \in S THEN Batches(S) \cup {r} ELSE Batches(S) \ {r}
  BY <1>3, BatchesAfter
<1>5. /\ Batches(UnderWay)' = Batches(UnderWay) \cup {r} /\ r \notin Batches(UnderWay)
      /\ Batches(OnThread)' = Batches(OnThread)
  <2>1. /\ "queued" \in UnderWay /\ "queued" \notin OnThread
        /\ "execute" \notin UnderWay /\ "execute" \notin OnThread
    BY DEF UnderWay, OnThread
  <2>2. r \notin Batches(UnderWay) /\ r \notin Batches(OnThread)
    BY <2>1 DEF Batches
  <2>3. /\ Batches(UnderWay)' = Batches(UnderWay) \cup {r}
        /\ Batches(OnThread)' = Batches(OnThread) \ {r}
    BY <1>1, <1>4, <2>1
  <2> QED
    BY <2>2, <2>3
<1>6. /\ ClientCounts /\ num_pending_batches < workload.max_pending_batches
      /\ workload.max_pending_batches \in Nat
  BY ByobWorkload DEF ByobInv, PendingAllows
<1>7. /\ IsFiniteSet(Batches(UnderWay) \cup {r})
      /\ Cardinality(Batches(UnderWay) \cup {r}) = Cardinality(Batches(UnderWay)) + 1
      /\ Cardinality(Batches(UnderWay)) \in Nat
  BY <1>5, <1>6, FS_AddElement, FS_CardinalityType DEF ClientCounts
<1>8. ClientCounts'
  BY <1>5, <1>6, <1>7 DEF ClientCounts
<1> QED
  BY <1>3, <1>8 DEF ByobInv

\* A batch gets a thread.
LEMMA StartKeeps ==
    ASSUME ByobInv, NEW r \in Calls, StartBatch(r)
    PROVE  ByobInv'
<1> DEFINE d == [calls[r] EXCEPT !.at = "loop", !.count = calls[r].igs]
<1>1. CallInv(calls[r], workload.groups[r]) /\ workload.groups[r] \in Nat
  BY ByobWorkload DEF ByobInv
<1>2. CallInv(d, workload.groups[r])
  <2>1. calls[r].at = "queued"
    BY DEF StartBatch
  <2> QED
    BY <1>1, <2>1, StartAndCancelKeep
<1>3. /\ d.at = "loop" /\ calls[r].at = "queued" /\ calls' = [calls EXCEPT ![r] = d]
      /\ Cardinality(Batches(OnThread)) < workload.threads
      /\ UNCHANGED <<workload, num_pending_batches>>
  BY <1>1 DEF StartBatch, Becomes, CallInv, WorkInv, CallShape, CallsOf
<1> HIDE DEF d
<1>4. /\ workload' \in ByobWorkloads
      /\ calls' = [q \in DOMAIN workload'.groups |-> calls'[q]]
      /\ \A q \in Calls' : CallInv(calls'[q], workload'.groups[q])
      /\ Calls' = Calls
      /\ calls'[r] = d /\ \A q \in Calls \ {r} : calls'[q] = calls[q]
  BY <1>2, <1>3, OneCallSteps
<1>5. \A S : Batches(S)' = IF d.at \in S THEN Batches(S) \cup {r} ELSE Batches(S) \ {r}
  BY <1>4, BatchesAfter
<1>6. /\ Batches(UnderWay)' = Batches(UnderWay)
      /\ Batches(OnThread)' = Batches(OnThread) \cup {r} /\ r \notin Batches(OnThread)
      /\ Batches(OnThread) \in SUBSET Batches(UnderWay)
  <2>1. /\ {"queued", "loop"} \subseteq UnderWay /\ OnThread \subseteq UnderWay
        /\ "loop" \in OnThread /\ "queued" \notin OnThread
    BY DEF UnderWay, OnThread
  <2>2. /\ r \in Batches(UnderWay) /\ r \notin Batches(OnThread)
        /\ Batches(OnThread) \in SUBSET Batches(UnderWay)
    BY <1>3, <2>1 DEF Batches
  <2>3. /\ Batches(UnderWay)' = Batches(UnderWay) \cup {r}
        /\ Batches(OnThread)' = Batches(OnThread) \cup {r}
    BY <1>3, <1>5, <2>1
  <2> QED
    BY <2>2, <2>3
<1>7. /\ ClientCounts /\ workload.threads \in Nat
  BY ByobWorkload DEF ByobInv
<1>8. /\ Cardinality(Batches(OnThread)) \in Nat
      /\ Cardinality(Batches(OnThread) \cup {r}) = Cardinality(Batches(OnThread)) + 1
  BY <1>6, <1>7, FiniteSubset, FS_AddElement DEF ClientCounts
<1>9. ClientCounts'
  BY <1>3, <1>6, <1>7, <1>8 DEF ClientCounts
<1> QED
  BY <1>4, <1>9 DEF ByobInv

\* A batch gives its thread back, and its counter with it.
LEMMA EndKeeps ==
    ASSUME ByobInv, NEW r \in Calls, ReleaseBatch(r)
    PROVE  ByobInv'
<1> DEFINE d == [calls[r] EXCEPT !.at = "done"]
<1>1. CallInv(calls[r], workload.groups[r]) /\ workload.groups[r] \in Nat
  BY ByobWorkload DEF ByobInv
<1>2. CallInv(d, workload.groups[r])
  BY <1>1, ReleaseKeeps DEF ReleaseBatch
<1>3. /\ d.at = "done" /\ calls[r].at = "release" /\ calls' = [calls EXCEPT ![r] = d]
      /\ num_pending_batches' = num_pending_batches - 1 /\ workload' = workload
  BY <1>1 DEF ReleaseBatch, CallInv, WorkInv, CallShape, CallsOf
<1> HIDE DEF d
<1>4. /\ workload' \in ByobWorkloads
      /\ calls' = [q \in DOMAIN workload'.groups |-> calls'[q]]
      /\ \A q \in Calls' : CallInv(calls'[q], workload'.groups[q])
      /\ Calls' = Calls
      /\ calls'[r] = d /\ \A q \in Calls \ {r} : calls'[q] = calls[q]
  BY <1>2, <1>3, OneCallSteps
<1>5. \A S : Batches(S)' = IF d.at \in S THEN Batches(S) \cup {r} ELSE Batches(S) \ {r}
  BY <1>4, BatchesAfter
<1>6. /\ Batches(UnderWay)' = Batches(UnderWay) \ {r} /\ r \in Batches(UnderWay)
      /\ Batches(OnThread)' = Batches(OnThread) \ {r} /\ r \in Batches(OnThread)
      /\ Batches(OnThread) \in SUBSET Batches(UnderWay)
  BY <1>3, <1>5 DEF Batches, UnderWay, OnThread
<1>7. /\ ClientCounts /\ workload.threads \in Nat /\ workload.max_pending_batches \in Nat
  BY ByobWorkload DEF ByobInv
<1>8. /\ IsFiniteSet(Batches(UnderWay) \ {r})
      /\ Cardinality(Batches(UnderWay)) \in Nat
      /\ Cardinality(Batches(UnderWay) \ {r}) = Cardinality(Batches(UnderWay)) - 1
  BY <1>6, <1>7, FS_CardinalityType, FS_RemoveElement DEF ClientCounts
<1>9. /\ Cardinality(Batches(OnThread)) \in Nat
      /\ Cardinality(Batches(OnThread) \ {r}) = Cardinality(Batches(OnThread)) - 1
  BY <1>6, <1>7, FiniteSubset, FS_RemoveElement DEF ClientCounts
<1>10. ClientCounts'
  BY <1>3, <1>6, <1>7, <1>8, <1>9 DEF ClientCounts
<1> QED
  BY <1>4, <1>10 DEF ByobInv

\* The thread that dispatches is where it was when the runs end.
LEMMA PlaceStays ==
    ASSUME NEW c, "at" \in DOMAIN c, NEW s, NEW B, NEW any, NEW d,
           \/ d \in FinishWithResponse(c, s, B)
           \/ any \in BOOLEAN /\ d \in OnAllBidsDone(c, any)
           \/ d \in AfterTask(c, s)
    PROVE  d.at = c.at
<1>1. ASSUME NEW e, "at" \in DOMAIN e, NEW t, NEW C, NEW f \in FinishWithResponse(e, t, C)
      PROVE  f.at = e.at
  BY <1>1 DEF FinishWithResponse
<1>2. ASSUME NEW e, "at" \in DOMAIN e, NEW b \in BOOLEAN, NEW f \in OnAllBidsDone(e, b)
      PROVE  f.at = e.at
  BY <1>1, <1>2 DEF OnAllBidsDone
<1>3. ASSUME d \in AfterTask(c, s)
      PROVE  d.at = c.at
  <2> DEFINE e == [c EXCEPT !.tracker = Counted(@, s)]
             b == AnyTaskSuccessfullyCompleted(e.tracker)
  <2>1. e.at = c.at /\ "at" \in DOMAIN e /\ b \in BOOLEAN
    BY DEF AnyTaskSuccessfullyCompleted
  <2>2. d = e \/ d \in OnAllBidsDone(e, b)
    BY <1>3 DEF AfterTask
  <2> HIDE DEF e, b
  <2> QED
    BY <1>2, <2>1, <2>2
<1> QED
  BY <1>1, <1>2, <1>3

\* The steps of one call that leave the counter of the client alone.
LEMMA ReactorKeeps ==
    ASSUME ByobInv, NEW r \in Calls,
           \/ ExecutePasBinary(r)
           \/ DispatchInterestGroup(r) \/ ProcessResponse(r) \/ CompleteTask(r)
           \/ ByobExecuteReturns(r) \/ ByobOnCancel(r) \/ ByobOnDone(r)
    PROVE  ByobInv'
<1> DEFINE c == calls[r]
           n == workload.groups[r]
<1>1. CallInv(c, n) /\ n \in Nat /\ c \in CallsOf(n) /\ "at" \in DOMAIN c
  BY ByobWorkload DEF ByobInv, CallInv, WorkInv, CallShape, CallsOf
<1>2. ASSUME NEW d, CallInv(d, n), calls' = [calls EXCEPT ![r] = d],
             UNCHANGED <<workload, num_pending_batches>>,
             d.at = c.at \/ (c.at = "execute" /\ d.at = "done")
      PROVE  ByobInv'
  <2>1. /\ d.at \in UnderWay <=> c.at \in UnderWay
        /\ d.at \in OnThread <=> c.at \in OnThread
    BY <1>2 DEF UnderWay, OnThread
  <2> QED
    BY <1>2, <2>1, CounterStays
<1>3. CASE ExecutePasBinary(r)
  <2> DEFINE d == [c EXCEPT !.at = "done", !.rpc = Finished(@, "UNIMPLEMENTED")]
  <2>1. /\ calls' = [calls EXCEPT ![r] = d] /\ UNCHANGED <<workload, num_pending_batches>>
        /\ c.at = "execute" /\ d.at = "done"
    BY <1>1, <1>3 DEF ExecutePasBinary, Becomes, CallsOf
  <2>2. CallInv(d, n)
    BY <1>1, <2>1, ExecuteKeeps
  <2> QED
    BY <1>2, <2>1, <2>2
<1>4. CASE DispatchInterestGroup(r)
  <2> DEFINE i == c.next
             next == [c EXCEPT !.next = @ + 1]
             failed == [next EXCEPT !.outcome[i] = "failed"]
  <2>1. c.at = "single" /\ i <= c.igs
    BY <1>4 DEF DispatchInterestGroup
  <2>2. PICK d : /\ d = [next EXCEPT !.running = @ \cup {i}] \/ d \in AfterTask(failed, "ERROR")
                 /\ calls' = [calls EXCEPT ![r] = d]
                 /\ UNCHANGED <<workload, num_pending_batches>>
    BY <1>4 DEF DispatchInterestGroup, Becomes
  <2>3. CallInv(d, n)
    BY <1>1, <2>1, <2>2, DispatchInterestGroupKeeps
  <2>4. "at" \in DOMAIN failed /\ failed.at = c.at
    BY <1>1 DEF CallsOf
  <2>5. d.at = c.at
    <3>1. CASE d = [next EXCEPT !.running = @ \cup {i}]
      BY <1>1, <3>1 DEF CallsOf
    <3>2. CASE d \in AfterTask(failed, "ERROR")
      <4> HIDE DEF failed
      <4> QED
        BY <2>4, <3>2, PlaceStays
    <3> QED
      BY <2>2, <3>1, <3>2
  <2> QED
    BY <1>2, <2>2, <2>3, <2>5
<1>5. CASE ProcessResponse(r)
  <2> DEFINE e(i, o, w) == [c EXCEPT !.outcome[i] = o, !.timeout_waiting = w,
                                     !.ads_with_bids = IF o = "bids" THEN @ \cup {i} ELSE @]
  <2>1. c.at = "single"
    BY <1>5 DEF ProcessResponse
  <2>2. PICK i \in c.running, o \in Outcomes :
           /\ c.outcome[i] = "lost"
           /\ Becomes(r, {e(i, o, w) : w \in Racing(c.timeout_waiting, o = "unstarted")})
    BY <1>5 DEF ProcessResponse
  <2>3. PICK w \in Racing(c.timeout_waiting, o = "unstarted") :
           /\ calls' = [calls EXCEPT ![r] = e(i, o, w)]
           /\ UNCHANGED <<workload, num_pending_batches>>
    <3> HIDE DEF e
    <3> QED
      BY <2>2 DEF Becomes
  <2>4. CallInv(e(i, o, w), n)
    BY <1>1, <2>1, <2>2, ProcessResponseKeeps
  <2>5. e(i, o, w).at = c.at
    BY <1>1 DEF CallsOf
  <2> HIDE DEF e
  <2> QED
    BY <1>2, <2>3, <2>4, <2>5
<1>6. CASE CompleteTask(r)
  <2> DEFINE e(i) == [c EXCEPT !.running = @ \ {i}]
  <2>1. c.at = "single"
    BY <1>6 DEF CompleteTask
  <2>2. PICK i, d :
           /\ i \in c.running /\ d \in AfterTask(e(i), TaskStatusOf(c.outcome[i]))
           /\ c.outcome[i] # "lost" /\ calls' = [calls EXCEPT ![r] = d]
           /\ UNCHANGED <<workload, num_pending_batches>>
    BY <1>6 DEF CompleteTask, Becomes
  <2>3. CallInv(d, n)
    BY <1>1, <2>1, <2>2, CompleteTaskKeeps
  <2>4. "at" \in DOMAIN e(i) /\ e(i).at = c.at
    BY <1>1 DEF CallsOf
  <2>5. d.at = c.at
    <3> HIDE DEF e
    <3> QED
      BY <2>2, <2>4, PlaceStays
  <2> QED
    BY <1>2, <2>2, <2>3, <2>5
<1>7. CASE ByobExecuteReturns(r) \/ ByobOnCancel(r) \/ ByobOnDone(r)
  <2> DEFINE e(q) == [c EXCEPT !.rpc = q]
  <2>1. PICK q :
           /\ \/ q \in {Returned(c.rpc), ByClient(c.rpc)}
              \/ q = Deleted(c.rpc) /\ c.rpc.statuses # <<>>
           /\ calls' = [calls EXCEPT ![r] = e(q)]
           /\ UNCHANGED <<workload, num_pending_batches>>
    BY <1>7 DEF ByobExecuteReturns, ByobOnCancel, ByobOnDone, CanDelete, Becomes
  <2>2. CallInv(e(q), n)
    BY <1>1, <2>1, RpcStepKeeps
  <2>3. e(q).at = c.at
    BY <1>1 DEF CallsOf
  <2> HIDE DEF e
  <2> QED
    BY <1>2, <2>1, <2>2, <2>3
<1> QED
  BY <1>3, <1>4, <1>5, <1>6, <1>7

\* Execute.
LEMMA ExecuteBinaryKeeps ==
    ASSUME ByobInv, NEW r \in Calls, ExecuteBinary(r)
    PROVE  ByobInv'
<1> DEFINE c == calls[r]
           n == workload.groups[r]
           done == [c EXCEPT !.at = "done"]
<1>1. /\ CallInv(c, n) /\ n \in Nat /\ c \in CallsOf(n) /\ n > 0 /\ c.at = "execute"
  BY ByobWorkload DEF ByobInv, CallInv, WorkInv, CallShape, ExecuteBinary
<1>2. "at" \in DOMAIN done /\ done.at = "done"
  BY <1>1 DEF CallsOf
<1>3. ASSUME NEW d, CallInv(d, n), calls' = [calls EXCEPT ![r] = d],
             UNCHANGED <<workload, num_pending_batches>>, d.at \in {"done", "single"}
      PROVE  ByobInv'
  <2>1. d.at \notin UnderWay /\ d.at \notin OnThread /\ c.at \notin UnderWay /\ c.at \notin OnThread
    BY <1>1, <1>3 DEF UnderWay, OnThread
  <2> QED
    BY <1>3, <2>1, CounterStays
<1>4. CASE \E s \in {"CANCELLED", "RESOURCE_EXHAUSTED"} :
              /\ s = "CANCELLED" => c.rpc.cancelled
              /\ Becomes(r, FinishWithResponse(done, s, {}))
  <2>a. PICK s \in {"CANCELLED", "RESOURCE_EXHAUSTED"} :
           /\ s = "CANCELLED" => c.rpc.cancelled
           /\ Becomes(r, FinishWithResponse(done, s, {}))
    BY <1>4
  <2>1. PICK d \in FinishWithResponse(done, s, {}) :
           /\ calls' = [calls EXCEPT ![r] = d]
           /\ UNCHANGED <<workload, num_pending_batches>>
    BY <2>a DEF Becomes
  <2>2. CallInv(d, n)
    BY <1>1, <2>a, <2>1, ExecuteKeeps
  <2>3. d.at = "done"
    <3> HIDE DEF done
    <3> QED
      BY <1>2, <2>a, <2>1, PlaceStays
  <2> QED
    BY <1>3, <2>1, <2>2, <2>3
<1>5. CASE Becomes(r, {[c EXCEPT !.at = "single"]})
  <2> DEFINE d == [c EXCEPT !.at = "single"]
  <2>1. /\ calls' = [calls EXCEPT ![r] = d] /\ UNCHANGED <<workload, num_pending_batches>>
        /\ d.at = "single"
    BY <1>1, <1>5 DEF Becomes, CallsOf
  <2>2. CallInv(d, n)
    BY <1>1, ExecuteKeeps
  <2> QED
    BY <1>3, <2>1, <2>2
<1>6. CASE /\ PendingAllows /\ calls' = [calls EXCEPT ![r].at = "queued"]
           /\ num_pending_batches' = num_pending_batches + 1 /\ UNCHANGED workload
  <2>1. CallInv([c EXCEPT !.at = "queued"], n)
    BY <1>1, ExecuteKeeps
  <2> QED
    BY <1>1, <1>6, <2>1, AcceptKeeps
<1> QED
  BY <1>4, <1>5, <1>6 DEF ExecuteBinary, DispatchExecutionsInBatch

\* The steps of a batch between its start and its end.
LEMMA BatchStepsKeep ==
    ASSUME ByobInv, NEW r \in Calls,
           DispatchRun(r) \/ StoreResult(r) \/ CancelRuns(r) \/ EndBatch(r)
    PROVE  ByobInv'
<1> DEFINE c == calls[r]
           n == workload.groups[r]
<1>1. CallInv(c, n) /\ n \in Nat /\ c \in CallsOf(n) /\ "at" \in DOMAIN c
  BY ByobWorkload DEF ByobInv, CallInv, WorkInv, CallShape, CallsOf
<1>2. ASSUME NEW d, CallInv(d, n), calls' = [calls EXCEPT ![r] = d],
             UNCHANGED <<workload, num_pending_batches>>,
             d.at = c.at \/ (c.at \in {"loop", "await"} /\ d.at \in {"await", "release"})
      PROVE  ByobInv'
  <2>1. /\ d.at \in UnderWay <=> c.at \in UnderWay
        /\ d.at \in OnThread <=> c.at \in OnThread
    BY <1>2 DEF UnderWay, OnThread
  <2> QED
    BY <1>2, <2>1, CounterStays
<1>3. CASE DispatchRun(r)
  <2>1. c.at = "loop" /\ c.next \in Nat /\ c.igs \in Nat
    BY <1>1, <1>3 DEF DispatchRun, CallsOf
  <2>2. PICK d :
           /\ \/ c.next > c.igs /\ d = [c EXCEPT !.at = "await"]
              \/ ~(c.next > c.igs) /\ d = [c EXCEPT !.running = @ \cup {c.next}, !.next = @ + 1]
              \/ ~(c.next > c.igs) /\ \E f \in Failures : d = StartFails(c, f)
           /\ calls' = [calls EXCEPT ![r] = d]
           /\ UNCHANGED <<workload, num_pending_batches>>
    BY <1>3 DEF DispatchRun, Becomes
  <2>3. CallInv(d, n)
    <3>1. CASE \E f \in Failures : d = StartFails(c, f) /\ ~(c.next > c.igs)
      <4>1. c.next <= c.igs
        BY <2>1, <3>1
      <4> QED
        BY <1>1, <2>1, <3>1, <4>1, StartFailsKeeps
    <3>2. CASE \/ c.next > c.igs /\ d = [c EXCEPT !.at = "await"]
               \/ ~(c.next > c.igs) /\ d = [c EXCEPT !.running = @ \cup {c.next}, !.next = @ + 1]
      BY <1>1, <2>1, <3>2, DispatchRunKeeps
    <3> QED
      BY <2>2, <3>1, <3>2
  <2>4. d.at \in {"loop", "await"}
    BY <1>1, <2>1, <2>2 DEF CallsOf, StartFails
  <2> QED
    BY <1>2, <2>1, <2>2, <2>3, <2>4
<1>4. CASE StoreResult(r)
  <2> DEFINE e(i, o) == [c EXCEPT !.running = @ \ {i}, !.count = @ - 1,
                                  !.responses[i] = o, !.outcome[i] = o]
  <2>1. c.at \notin {"single", "execute"}
    BY <1>4 DEF StoreResult
  <2>2. PICK i \in c.running, o \in Outcomes :
           /\ calls' = [calls EXCEPT ![r] = e(i, o)]
           /\ UNCHANGED <<workload, num_pending_batches>>
    BY <1>4 DEF StoreResult, Becomes
  <2>3. CallInv(e(i, o), n)
    BY <1>1, <2>1, StoreResultKeeps
  <2>4. e(i, o).at = c.at
    BY <1>1 DEF CallsOf
  <2> HIDE DEF e
  <2> QED
    BY <1>2, <2>2, <2>3, <2>4
<1>5. CASE CancelRuns(r)
  <2> DEFINE d == [c EXCEPT !.killed = TRUE]
  <2>1. /\ c.at = "await" /\ calls' = [calls EXCEPT ![r] = d]
        /\ UNCHANGED <<workload, num_pending_batches>>
    BY <1>5 DEF CancelRuns, Becomes
  <2>2. CallInv(d, n)
    BY <1>1, <2>1, StartAndCancelKeep
  <2>3. d.at = c.at
    BY <1>1 DEF CallsOf
  <2> HIDE DEF d
  <2> QED
    BY <1>2, <2>1, <2>2, <2>3
<1>6. CASE EndBatch(r)
  <2> DEFINE e == HandedOver(c)
             any == Responded(c, Ran) # {}
  <2>1. /\ c.at = "await" /\ c.count = 0
    BY <1>6 DEF EndBatch
  <2>2. PICK d \in OnAllBidsDone(e, any) :
           /\ calls' = [calls EXCEPT ![r] = d]
           /\ UNCHANGED <<workload, num_pending_batches>>
    BY <1>6 DEF EndBatch, Becomes, HandedOver, Responded
  <2>3. CallInv(d, n)
    BY <1>1, <2>1, <2>2, EndBatchKeeps
  <2>4. "at" \in DOMAIN e /\ e.at = "release" /\ any \in BOOLEAN
    BY <1>1 DEF CallsOf, HandedOver
  <2>5. d.at = "release"
    <3> HIDE DEF e, any
    <3> QED
      BY <2>2, <2>4, PlaceStays
  <2> QED
    BY <1>2, <2>1, <2>2, <2>3, <2>5
<1> QED
  BY <1>3, <1>4, <1>5, <1>6

\* Every step of the reactors over BYOB keeps the invariant.
LEMMA ByobNextKeeps ==
    ASSUME ByobInv, [ByobNext]_byobVars
    PROVE  ByobInv'
<1>1. CASE UNCHANGED byobVars
  BY <1>1 DEF byobVars, ByobInv, Calls, ClientCounts, Batches
<1>2. CASE ByobNext
  <2>1. PICK r \in Calls : 
           \/ ExecuteBinary(r) \/ ExecutePasBinary(r)
           \/ DispatchInterestGroup(r) \/ ProcessResponse(r) \/ CompleteTask(r)
           \/ StartBatch(r) \/ DispatchRun(r) \/ StoreResult(r) \/ CancelRuns(r)
           \/ EndBatch(r) \/ ReleaseBatch(r)
           \/ ByobExecuteReturns(r) \/ ByobOnDone(r) \/ ByobOnCancel(r)
    BY <1>2 DEF ByobNext, ByobStep
  <2> QED
    BY <2>1, ExecuteBinaryKeeps, ReactorKeeps, StartKeeps, BatchStepsKeep, EndKeeps
<1> QED
  BY <1>1, <1>2

\* A call that has not begun.
LEMMA NewCallInv ==
    ASSUME NEW n \in Nat, NEW d \in BOOLEAN, NEW c, c = NewCall(n, d)
    PROVE  CallInv(c, n) /\ c.at = "execute"
<1> DEFINE m == IF d THEN n ELSE 0
           lost == [i \in 1..n |-> "lost"]
<1>1. m \in Nat /\ m \in {0, n} /\ 1..m \subseteq 1..n
  OBVIOUS
<1>2. /\ NewRpc(d) \in Rpcs /\ NewRpc(d).decrypted = d /\ NewRpc(d).encrypted
      /\ ~NewRpc(d).deleted
      /\ NewRpc(d).statuses = IF d THEN <<>> ELSE <<"INVALID_ARGUMENT">>
  BY NewRpcType
<1>3. /\ Tracking(m) \in Trackers /\ lost \in [1..n -> Outcomes \cup {"lost"}]
      /\ "execute" \in Locations /\ m = IF d THEN n ELSE 0
  BY <1>1, TrackingFields DEF Locations
<1>4. c = [rpc |-> NewRpc(d), igs |-> m, at |-> "execute", next |-> 1, running |-> {},
           killed |-> FALSE, count |-> 0, outcome |-> lost, responses |-> lost,
           tracker |-> Tracking(m), timeout_waiting |-> 0, success_executed |-> 0,
           ads_with_bids |-> {}, bids |-> {}]
  BY DEF NewCall
<1> HIDE DEF m, lost
<1>5. c \in CallsOf(n)
  BY <1>1, <1>2, <1>3, <1>4 DEF CallsOf
<1>6. CallShape(c, n)
  <2>1. c.igs = IF c.rpc.decrypted THEN n ELSE 0
    BY <1>2, <1>3, <1>4
  <2> QED
    BY <1>4, <1>5, <2>1 DEF CallShape
<1>7. LostRuns(c) = 1..c.igs
  BY <1>1, <1>4 DEF LostRuns, EndedIn, lost
<1>8. NothingRun(c) /\ RunsOneByOne(c)
  BY <1>4, <1>7 DEF NothingRun, RunsOneByOne
<1>9. RunsInABatch(c) /\ ~AtEnd(c)
  BY <1>4 DEF RunsInABatch, AtEnd
<1>10. FinishedWhenOver(c)
  <2>1. c.rpc.decrypted => c.rpc.statuses = <<>> /\ Len(<<>>) <= 1
    BY <1>2, <1>4
  <2>2. ~c.rpc.deleted
    BY <1>2, <1>4
  <2>3. c.rpc.decrypted => Len(c.rpc.statuses) <= 1
    BY <2>1
  <2> QED
    BY <1>4, <1>9, <2>1, <2>2, <2>3 DEF FinishedWhenOver
<1>11. CallStatus(c)
  BY <1>2, <1>4 DEF CallStatus, AnsweredWith
<1> QED
  BY <1>4, <1>6, <1>8, <1>9, <1>10, <1>11 DEF CallInv, WorkInv

\* The reactors over BYOB begin in the invariant.
LEMMA ByobInitInv == ByobInit => ByobInv
<1> SUFFICES ASSUME ByobInit PROVE ByobInv
  OBVIOUS
<1>1. PICK decrypted \in [DOMAIN workload.groups -> BOOLEAN] :
         calls = [r \in DOMAIN workload.groups |-> NewCall(workload.groups[r], decrypted[r])]
  BY DEF ByobInit
<1>2. workload \in ByobWorkloads /\ IsWorkload(workload) /\ num_pending_batches = 0
  BY ByobAssumption DEF ByobInit
<1>3. Calls = DOMAIN workload.groups /\ calls = [r \in DOMAIN workload.groups |-> calls[r]]
  BY <1>1 DEF Calls
<1>4. \A r \in Calls : CallInv(calls[r], workload.groups[r]) /\ calls[r].at = "execute"
  <2> SUFFICES ASSUME NEW r \in Calls
               PROVE  CallInv(calls[r], workload.groups[r]) /\ calls[r].at = "execute"
    OBVIOUS
  <2>1. workload.groups[r] \in Nat /\ decrypted[r] \in BOOLEAN
    BY <1>2, <1>3 DEF IsWorkload
  <2>2. calls[r] = NewCall(workload.groups[r], decrypted[r])
    BY <1>1, <1>3
  <2> QED
    BY <2>1, <2>2, NewCallInv
<1>5. Batches(UnderWay) = {} /\ Batches(OnThread) = {}
  BY <1>4 DEF Batches, UnderWay, OnThread
<1>6. ClientCounts
  BY <1>2, <1>5, FS_EmptySet DEF ClientCounts, IsWorkload
<1> QED
  BY <1>2, <1>3, <1>4, <1>6 DEF ByobInv

-----------------------------------------------------------------------------
(* A server has the reactors of the one or of the other.                     *)

\* Either kind of server begins in the invariant.
LEMMA InitIInv == Init => IInv
BY V8InitInv, ByobInitInv DEF Init, IInv

\* A server stays of its kind, and each of its steps keeps the invariant.
LEMMA NextIInv == IInv /\ [Next]_vars => IInv'
<1> SUFFICES ASSUME IInv, [Next]_vars PROVE IInv'
  OBVIOUS
<1>1. udf_mode' = udf_mode
  BY DEF Next, vars
<1>2. CASE udf_mode = "V8"
  <2>1. V8Inv /\ [V8Next]_v8Vars
    BY <1>2 DEF IInv, Next, vars
  <2> QED
    BY <1>1, <1>2, <2>1, V8NextKeeps DEF IInv
<1>3. CASE udf_mode = "BYOB"
  <2>1. ByobInv /\ [ByobNext]_byobVars
    BY <1>3 DEF IInv, Next, vars
  <2> QED
    BY <1>1, <1>3, <2>1, ByobNextKeeps DEF IInv
<1> QED
  BY <1>2, <1>3 DEF IInv

\* What every state of a server satisfies, for any requests, numbers of runs, limits
\* and threads.
THEOREM InductiveInvariant == Spec => []IInv
BY InitIInv, NextIInv, PTL DEF Spec

-----------------------------------------------------------------------------
(* What follows.                                                             *)

\* What the invariant of a call says of the types of its fields.
LEMMA CallInvType ==
    ASSUME NEW n \in Nat, NEW c, CallInv(c, n)
    PROVE  /\ c.rpc \in Rpcs /\ c.at \in Locations
           /\ c.running \subseteq 1..c.igs /\ c.count \in 0..c.igs
           /\ c.tracker \in Trackers
           /\ c.timeout_waiting + c.success_executed <= c.igs
           /\ c.bids \subseteq c.ads_with_bids
<1>1. /\ c \in CallsOf(n) /\ c.igs \in Nat /\ c.igs \in {0, n}
      /\ RunsInABatch(c) /\ RunsOneByOne(c) /\ NothingRun(c)
  BY DEF CallInv, WorkInv, CallShape, CallsOf
<1>2. \A os : EndedIn(c, os) \in SUBSET (1..c.igs)
  BY DEF EndedIn
<1>3. /\ LostRuns(c) \in SUBSET (1..c.igs)
      /\ Cardinality(LostRuns(c)) \in Nat /\ Cardinality(LostRuns(c)) <= c.igs
      /\ Cardinality(EndedIn(c, {"unstarted"})) \in Nat
      /\ Cardinality(EndedIn(c, {"unstarted"})) <= c.igs
  <2>1. LostRuns(c) \in SUBSET (1..c.igs)
    BY <1>2 DEF LostRuns
  <2> QED
    BY <1>1, <1>2, <2>1, UpTo
<1>4. c.count \in 0..c.igs
  BY <1>1, <1>3 DEF RunsInABatch
<1>5. c.at \in Locations /\ c.timeout_waiting \in Nat /\ c.success_executed \in Nat
  BY <1>1 DEF CallsOf
<1>6. c.running \subseteq 1..c.igs
  <2>1. CASE c.at \in {"execute", "queued", "release", "done"}
    BY <1>1, <2>1 DEF NothingRun, RunsInABatch
  <2>2. CASE c.at = "single"
    BY <1>1, <2>2 DEF RunsOneByOne
  <2>3. CASE c.at = "loop"
    BY <1>1, <2>3 DEF RunsInABatch
  <2>4. CASE c.at = "await"
    BY <1>1, <1>3, <2>4 DEF RunsInABatch
  <2> QED
    BY <1>5, <2>1, <2>2, <2>3, <2>4 DEF Locations
<1>7. c.timeout_waiting + c.success_executed <= c.igs
  <2>1. CASE c.at \in {"execute", "queued", "loop", "await"}
    BY <1>1, <2>1 DEF NothingRun, RunsInABatch
  <2>2. CASE c.at = "single"
    BY <1>1, <1>3, <1>5, <2>2 DEF RunsOneByOne
  <2>3. CASE c.at \in {"release", "done"}
    BY <1>1, <2>3 DEF RunsInABatch
  <2> QED
    BY <1>5, <2>1, <2>2, <2>3 DEF Locations
<1>8. c.bids \subseteq c.ads_with_bids
  BY DEF CallInv, FinishedWhenOver
<1> QED
  BY <1>1, <1>4, <1>5, <1>6, <1>7, <1>8 DEF CallsOf

\* The invariant implies the types...
LEMMA IInvTypeOK == IInv => TypeOK
<1> SUFFICES ASSUME IInv PROVE TypeOK
  OBVIOUS
<1>1. CASE udf_mode = "V8"
  BY <1>1 DEF IInv, V8Inv, TypeOK
<1>2. CASE udf_mode = "BYOB"
  <2>1. ByobInv
    BY <1>2 DEF IInv
  <2>2. \A r \in Calls : LET c == calls[r] IN
          /\ c.rpc \in Rpcs /\ c.at \in Locations
          /\ c.running \subseteq 1..c.igs /\ c.count \in 0..c.igs
          /\ c.tracker \in Trackers
          /\ c.timeout_waiting + c.success_executed <= c.igs \/ Unbatched
          /\ c.bids \subseteq c.ads_with_bids
    BY <2>1, ByobWorkload, CallInvType DEF ByobInv
  <2>3. ByobTypeOK
    BY <2>1, <2>2 DEF ByobInv, ClientCounts, ByobTypeOK
  <2> QED
    BY <1>2, <2>3 DEF TypeOK
<1> QED
  BY <1>1, <1>2 DEF IInv

\* The counters and locations of every reactor are of their types, and the counter of
\* the BYOB client is the number of the batches it has accepted and not released,
\* which never exceeds max_pending_batches, nor those that run the threads.
THEOREM TypeCorrect == Spec => []TypeOK
BY InductiveInvariant, IInvTypeOK, PTL

\* A reactor whose RPC is finished, and which may so be deleted, uses nothing more.
LEMMA OverUsesNothing ==
    ASSUME NEW n \in Nat, NEW c, CallInv(c, n), AtEnd(c)
    PROVE  ~Uses(c)
<1>1. /\ c \in CallsOf(n) /\ RunsInABatch(c)
  BY DEF CallInv, WorkInv, CallShape
<1>2. c.running = {}
  BY <1>1 DEF AtEnd, RunsInABatch, Pending
<1>3. c.at \notin UnderWay \ {"release"}
  BY DEF AtEnd, UnderWay
<1> QED
  BY <1>2, <1>3 DEF Uses

\* ...that callbacks find the state of their reactor...
LEMMA IInvCallbacks == IInv => CallbacksFindTheirState
<1> SUFFICES ASSUME IInv PROVE CallbacksFindTheirState
  OBVIOUS
<1>1. CASE udf_mode = "V8"
  <2>1. V8Inv
    BY <1>1 DEF IInv
  <2>2. ASSUME rpc.decrypted, rpc.deleted
        PROVE  stage = "done" /\ batch = NoBatch
    <3>1. stage = "done"
      BY <2>1, <2>2 DEF V8Inv, FinishedWhenDone
    <3>2. stage \notin Udfs
      BY <3>1 DEF Udfs
    <3> QED
      BY <2>1, <3>1, <3>2 DEF V8Inv, BatchOfRuns
  <2>3. rpc.decrypted /\ rpc.encrypted => Len(rpc.statuses) <= 1
    BY <2>1 DEF V8Inv, FinishedWhenDone
  <2> QED
    BY <1>1, <2>2, <2>3 DEF CallbacksFindTheirState
<1>2. CASE udf_mode = "BYOB"
  <2>1. ByobInv
    BY <1>2 DEF IInv
  <2> SUFFICES ASSUME NEW r \in Calls
               PROVE  /\ calls[r].at = "release" => calls[r].running = {}
                      /\ calls[r].rpc.decrypted =>
                           /\ calls[r].rpc.deleted => ~Uses(calls[r])
                           /\ calls[r].rpc.encrypted => Len(calls[r].rpc.statuses) <= 1
    BY <1>2 DEF CallbacksFindTheirState
  <2>2. CallInv(calls[r], workload.groups[r]) /\ workload.groups[r] \in Nat
    BY <2>1, ByobWorkload DEF ByobInv
  <2>3. calls[r].at = "release" => calls[r].running = {}
    BY <2>2 DEF CallInv, WorkInv, RunsInABatch
  <2>4. calls[r].rpc.decrypted /\ calls[r].rpc.deleted => AtEnd(calls[r])
    BY <2>2 DEF CallInv, FinishedWhenOver
  <2>5. calls[r].rpc.decrypted /\ calls[r].rpc.deleted => ~Uses(calls[r])
    BY <2>2, <2>4, OverUsesNothing
  <2>6. calls[r].rpc.decrypted /\ calls[r].rpc.encrypted => Len(calls[r].rpc.statuses) <= 1
    BY <2>2 DEF CallInv, FinishedWhenOver
  <2> QED
    BY <2>3, <2>5, <2>6
<1> QED
  BY <1>1, <1>2 DEF IInv

\* OnDone deletes a reactor only when no batch, look-up, run or closure is to go back
\* to it, and the RPC of a request that could be decrypted is finished once; a batch
\* releases its thread only after the last of its runs has called back.
THEOREM NothingOutlivesItsReactor == Spec => []CallbacksFindTheirState
BY InductiveInvariant, IInvCallbacks, PTL

\* ...and that the status tells the outcome.
LEMMA IInvStatus == IInv => StatusMatchesOutcome
<1> SUFFICES ASSUME IInv PROVE StatusMatchesOutcome
  OBVIOUS
<1>1. CASE udf_mode = "V8"
  BY <1>1 DEF IInv, V8Inv, V8Status, StatusMatchesOutcome
<1>2. CASE udf_mode = "BYOB"
  <2>1. \A r \in Calls : CallStatus(calls[r])
    BY <1>2 DEF IInv, ByobInv, CallInv
  <2> QED
    BY <1>2, <2>1 DEF StatusMatchesOutcome, CallStatus, EndedIn, LostRuns
<1> QED
  BY <1>1, <1>2 DEF IInv

\* The bids of an OK are those of exactly the interest groups whose own run returned
\* valid ones; RESOURCE_EXHAUSTED is answered only if nothing was run, INTERNAL only if
\* no run was successful, CANCELLED only if the client cancelled.
THEOREM StatusTellsTheOutcome == Spec => []StatusMatchesOutcome
BY InductiveInvariant, IInvStatus, PTL
=============================================================================
