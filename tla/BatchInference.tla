--------------------------- MODULE BatchInference ---------------------------
(* runInference(): the scripts of one bidding request call the inference      *)
(* sidecar with batches of inferences                                         *)
(* (src/services/bidding_service/inference/inference_utils.cc), each call in  *)
(* the thread of Roma that runs the script. The sidecar is a process of its   *)
(* own; its TensorFlow or PyTorch module runs the inferences of a batch in    *)
(* parallel. A batch travels as JSON, parsed by the sidecar, or as protocol   *)
(* buffers, parsed before the call, with what does not parse kept aside.      *)
(* Models come from module ModelStore; here one path has a model.             *)
EXTENDS Integers, SequencesExt

CONSTANTS
    Sidecars,         \* records [module, proto, atBidding, atSidecar]: flags of a server
    ScriptCalls,      \* calls of runInference() by the scripts of a request
    PreparationCalls, \* those of them that prepareDataForAdRetrieval makes
    Scripts,          \* what they ask: functions from calls that are made to batches
    RegisteredModels  \* the paths that have a model

\* What a script can ask of a model: tensors, which need not be what the model takes.
\* Of an inference, fails and outputs say what its model would do with it.
Tensors == [data_type : STRING, tensor_shape : Seq(Int), tensor_content : Seq(STRING),
            named : BOOLEAN]
InferenceRequests == [model_path : STRING, tensors : Seq(Tensors), fails : BOOLEAN,
                      outputs : Seq(STRING)]

\* A payload that is no JSON, or has no list of requests.
MalformedBatch == <<[model_path |-> "malformed"]>>
Malformed(batch) == batch = MalformedBatch

BatchInferenceAssumption ==
    /\ Sidecars \subseteq [module : {"tensorflow", "pytorch"}, proto : BOOLEAN,
                           atBidding : BOOLEAN, atSidecar : BOOLEAN]
    /\ PreparationCalls \subseteq ScriptCalls
    /\ \A script \in Scripts :
           /\ DOMAIN script \subseteq ScriptCalls
           /\ \A c \in DOMAIN script :
                  Malformed(script[c]) \/ script[c] \in Seq(InferenceRequests)

VARIABLES
    conf,      \* the deployment
    is_cancelled,    \* of the CancellableGrpcContextManager
    client_contexts, \* of each call: of the manager, or plain
    canceller, \* how many of the steps of TryCancelAll are done
    client,    \* RunInferenceInternal, for each call
    server,    \* Predict in the sidecar, for each call
    answers    \* the output string of each call: a list of answers

inferenceVars == <<conf, is_cancelled, client_contexts, canceller, client, server, answers>>

NoPath == "no path"   \* the model_path of an answer that has none
NoOutput == <<>>      \* before the call returns

-----------------------------------------------------------------------------
(* Data. A tensor has values "small" and "large" (only the former fits in an  *)
(* INT8), "text" (a string that is no number) or "bare" (no string). Of the   *)
(* outputs of a model those of type STRING have no form in an answer.         *)

DataTypes == {"FLOAT", "INT8"}
OutputTypes == DataTypes

Product(dims) == FoldSeq(LAMBDA d, product : d * product, 1, dims)

ParseTensor(t) ==
    /\ t.data_type \in DataTypes
    /\ \A k \in DOMAIN t.tensor_shape : t.tensor_shape[k] > 0
    /\ "bare" \notin Range(t.tensor_content)
    /\ Len(t.tensor_content) = Product(t.tensor_shape)

\* The conversion of a string to a number of the type.
Convert(value, type) == value = "small" \/ (value = "large" /\ type # "INT8")

\* In protocol buffers the numbers are converted before the call, which otherwise is
\* left to the model's task.
AddTensorContent(t) == \A k \in DOMAIN t.tensor_content : Convert(t.tensor_content[k], t.data_type)
ParseTensorProto(t) == ParseTensor(t) /\ AddTensorContent(t)

ParseInternal(r) ==
    /\ r.model_path # ""
    /\ \A k \in DOMAIN r.tensors :
           IF conf.proto THEN ParseTensorProto(r.tensors[k]) ELSE ParseTensor(r.tensors[k])

\* What a loop that skips some elements of a sequence keeps: those at the positions S.
Rank(k, S) == Cardinality({j \in 1..k : j \in S})
Kept(seq, S) == [m \in 1..Cardinality(S) |-> seq[CHOOSE k \in S : Rank(k, S) = m]]

\* An answer holds tensors (their types) or an error; one that fails as a whole has
\* neither a path nor an index.
Answer(path, tensors, error) ==
    [model_path |-> path, tensors |-> tensors, error |-> error]
ErrorFor(r, error) == Answer(r.model_path, <<>>, error)
CreateBatchErrorString(error) == <<Answer(NoPath, <<>>, error)>>

-----------------------------------------------------------------------------
(* The form of protocol buffers: what is sent, and what is kept aside.        *)

\* The requests of ConvertJsonToProto, in their order, and parsing_errors: indexed.
Parsed(batch) == Kept(batch, {k \in DOMAIN batch : ParseInternal(batch[k])})
ParsingErrors(batch) ==
    [k \in {k \in DOMAIN batch : ~ParseInternal(batch[k])} |->
        ErrorFor(batch[k], "INPUT_PARSING")]

\* A bug: the errors after the responses.
AppendErrors(response, errors) ==
    response \o [k \in 1..Cardinality(DOMAIN errors) |->
                    errors[SetToSortSeq(DOMAIN errors, <)[k]]]

\* MergeBatchResponse: the errors at their indices, the responses in the places left.
\* All is refused when an index is beyond the merged list.
MergeBatchResponse(response, errors) ==
    LET size == Len(response) + Cardinality(DOMAIN errors)
        free(k) == Cardinality({j \in 1..k : j \notin DOMAIN errors})
    IN IF \E k \in DOMAIN errors : k > size THEN CreateBatchErrorString("OUTPUT_PARSING")
       ELSE [k \in 1..size |-> IF k \in DOMAIN errors THEN errors[k]
                               ELSE response[free(k)]]

\* ConvertProtoToJson writes an error only where there are no tensors.
ConvertProtoToJson(response) ==
    [k \in DOMAIN response |->
        IF response[k].tensors # <<>> THEN [response[k] EXCEPT !.error = ""]
        ELSE response[k]]

-----------------------------------------------------------------------------
(* The client: RunInferenceInternal.                                          *)

ClientStates == {"absent", "none", "parsed", "waiting", "replied", "done"}
NoServer == [pc |-> "none", tasks |-> <<>>, response |-> <<>>]

InferenceInit ==
    /\ conf \in Sidecars
    /\ \E script \in Scripts :
           client = [c \in ScriptCalls |->
                        IF c \in DOMAIN script
                        THEN [pc |-> "none", batch |-> script[c], ok |-> TRUE]
                        ELSE [pc |-> "absent", batch |-> <<>>, ok |-> TRUE]]
    /\ is_cancelled = FALSE /\ client_contexts = [c \in ScriptCalls |-> "none"]
    /\ canceller = 0
    /\ server = [c \in ScriptCalls |-> NoServer]
    /\ answers = [c \in ScriptCalls |-> NoOutput]

Returns(c, output) ==
    /\ client' = [client EXCEPT ![c].pc = "done"]
    /\ answers' = [answers EXCEPT ![c] = output]

\* Only generateBids is given the manager of the request, and it runs on the ads that
\* were fetched with what prepareDataForAdRetrieval has returned.
HasManager(c) == c \notin PreparationCalls
ScriptRuns(c) == HasManager(c) => \A d \in PreparationCalls : client[d].pc \in {"absent", "done"}

RunInferenceInternal(c) ==
    /\ client[c].pc = "none" /\ ScriptRuns(c)
    /\ LET batch == client[c].batch
       IN IF conf.proto /\ (Malformed(batch) \/ Parsed(batch) = <<>>)
          THEN Returns(c, CreateBatchErrorString("INPUT_PARSING"))
          ELSE client' = [client EXCEPT ![c].pc = "parsed"] /\ UNCHANGED answers
    /\ UNCHANGED <<conf, is_cancelled, client_contexts, canceller, server>>

\* GetCancellableClientContext and the start of the RPC. The manager makes a context
\* under its mutex, or none if it is cancelled. Without a manager the call has a plain
\* context, which nobody cancels and which has no deadline.
CreateClientContext(c) ==
    /\ client[c].pc = "parsed"
    /\ IF HasManager(c) /\ is_cancelled
       THEN /\ Returns(c, CreateBatchErrorString("GRPC"))
            /\ UNCHANGED <<client_contexts, server>>
       ELSE /\ client_contexts' =
                   [client_contexts EXCEPT ![c] = IF HasManager(c) THEN "open" ELSE "plain"]
            /\ client' = [client EXCEPT ![c].pc = "waiting"]
            /\ server' = [server EXCEPT ![c].pc = "enter"]
            /\ UNCHANGED answers
    /\ UNCHANGED <<conf, is_cancelled, canceller>>

\* A bug: contexts are cancelled before no more of them can be created.
ContextsFirst == <<"contexts", "flag">>

\* OnCancel of the reactor: TryCancelAll sets the flag, and then cancels under the
\* mutex the contexts that the manager has made by then.
TryCancelSteps == <<"flag", "contexts">>

TryCancelAll ==
    /\ conf.atBidding /\ canceller < 2
    /\ canceller' = canceller + 1
    /\ \/ /\ TryCancelSteps[canceller'] = "flag"
          /\ is_cancelled' = TRUE /\ UNCHANGED client_contexts
       \/ /\ TryCancelSteps[canceller'] = "contexts"
          /\ client_contexts' = [c \in ScriptCalls |->
                 IF client_contexts[c] = "open" THEN "cancelled" ELSE client_contexts[c]]
          /\ UNCHANGED is_cancelled
    /\ UNCHANGED <<conf, client, server, answers>>

\* The RPC ends without a reply of the sidecar, which is gone (its process is not started
\* again), or as a context of the manager is cancelled or its deadline passes.
RpcFails(c) ==
    /\ client[c].pc = "waiting"
    /\ client' = [client EXCEPT ![c].pc = "replied", ![c].ok = FALSE]
    /\ UNCHANGED <<conf, is_cancelled, client_contexts, canceller, server, answers>>

RpcReplies(c) ==
    /\ client[c].pc = "waiting" /\ server[c].pc = "finished"
    /\ client' = [client EXCEPT ![c].pc = "replied"]
    /\ UNCHANGED <<conf, is_cancelled, client_contexts, canceller, server, answers>>

\* With protocol buffers only proto_output is read.
HandlePredictResponse(c) ==
    /\ client[c].pc = "replied"
    /\ Returns(c, IF ~client[c].ok THEN CreateBatchErrorString("GRPC")
                  ELSE IF conf.proto
                  THEN ConvertProtoToJson(MergeBatchResponse(
                           IF conf.module = "pytorch" THEN <<>> ELSE server[c].response,
                           ParsingErrors(client[c].batch)))
                  ELSE server[c].response)
    /\ UNCHANGED <<conf, is_cancelled, client_contexts, canceller, server>>

-----------------------------------------------------------------------------
(* The sidecar: Predict. It sees that an RPC is over when it looks.           *)

Over(c) == client_contexts[c] = "cancelled" \/ client[c].pc \in {"replied", "done"}

\* What the module is given to run: all of the batch in JSON, else what was parsed.
Requests(c) == IF conf.proto THEN Parsed(client[c].batch) ELSE client[c].batch

Finishes(c, response) ==
    server' = [server EXCEPT ![c] = [@ EXCEPT !.pc = "finished", !.response = response]]

\* PyTorch parses input(), which is empty when the batch is in protocol buffers.
Unreadable(c) ==
    \/ Malformed(client[c].batch)
    \/ conf.proto /\ conf.module = "pytorch"

\* RETURN_GRPC_IF_CANCELLED, the parsing of JSON, and the loop that takes the models
\* and starts a task for each inference that has one.
DispatchTasks(c) ==
    /\ server[c].pc = "enter"
    /\ IF Over(c) THEN server' = [server EXCEPT ![c].pc = "aborted"]
       ELSE IF Unreadable(c) THEN Finishes(c, CreateBatchErrorString("INPUT_PARSING"))
       ELSE server' = [server EXCEPT ![c] =
                [@ EXCEPT !.pc = "tasks",
                          !.tasks = [k \in DOMAIN Requests(c) |->
                              IF ~ParseInternal(Requests(c)[k]) THEN "INPUT_PARSING"
                              ELSE IF Requests(c)[k].model_path \notin RegisteredModels
                              THEN "MODEL_NOT_FOUND" ELSE "running"]]]
    /\ UNCHANGED <<conf, is_cancelled, client_contexts, canceller, client, answers>>

ConvertFlatArrayToTensor(t) ==
    \A value \in Range(t.tensor_content) : Convert(value, t.data_type)

\* PyTorch: its inputs are in order.
PredictInternal(r) ==
    IF \E t \in Range(r.tensors) : ~ConvertFlatArrayToTensor(t) THEN "INPUT_PARSING"
    ELSE IF r.fails THEN "MODEL_EXECUTION" ELSE "ok"

\* TensorFlow: its inputs have names, and in protocol buffers their numbers.
ConvertProtoToTensor(t) == t.data_type \in DataTypes
PredictPerModel(r) ==
    IF \E t \in Range(r.tensors) :
           \/ ~t.named
           \/ conf.proto /\ ~ConvertProtoToTensor(t)
           \/ ~conf.proto /\ ~ConvertFlatArrayToTensor(t)
    THEN "INPUT_PARSING"
    ELSE IF r.fails THEN "MODEL_EXECUTION" ELSE "ok"

Predicted(r) == IF conf.module = "tensorflow" THEN PredictPerModel(r) ELSE PredictInternal(r)

\* One task, in a thread of its own. A cancellation it finds is no invalid argument,
\* and so is reported as a failure of the model.
PredictTask(c, k) ==
    /\ server[c].pc = "tasks" /\ server[c].tasks[k] = "running"
    /\ server' = [server EXCEPT ![c].tasks[k] =
                      IF conf.atSidecar /\ Over(c) THEN "MODEL_EXECUTION"
                      ELSE Predicted(Requests(c)[k])]
    /\ UNCHANGED <<conf, is_cancelled, client_contexts, canceller, client, answers>>

Expressible(r) == Range(r.outputs) \subseteq OutputTypes

\* ConvertTensorToProto leaves out a tensor it cannot express.
ConvertTensorToProto(outputs) ==
    Kept(outputs, {k \in DOMAIN outputs : outputs[k] \in OutputTypes})

\* The loops that take the results in the order of the requests. With protocol buffers
\* a tensor that is left out sets the error of its inference;
\* ConvertTensorsOrErrorToJson and ConvertBatchOutputsToJson give up the batch.
Ok(c, k) == server[c].tasks[k] = "ok"
Lost(c, k) == Ok(c, k) /\ ~Expressible(Requests(c)[k])
Outputs(c, k) == IF Ok(c, k) THEN Requests(c)[k].outputs ELSE <<>>

PredictFromProtoHelper(c) ==
    [k \in DOMAIN server[c].tasks |->
        Answer(Requests(c)[k].model_path,
               ConvertTensorToProto(Outputs(c, k)),
               IF ~Ok(c, k) THEN server[c].tasks[k]
               ELSE IF Lost(c, k) THEN "OUTPUT_PARSING" ELSE "")]

PredictFromJsonHelper(c) ==
    IF \E k \in DOMAIN server[c].tasks : Lost(c, k) THEN CreateBatchErrorString("OUTPUT_PARSING")
    ELSE [k \in DOMAIN server[c].tasks |->
             Answer(Requests(c)[k].model_path, Outputs(c, k),
                    IF Ok(c, k) THEN "" ELSE server[c].tasks[k])]

Collect(c) ==
    /\ server[c].pc = "tasks" /\ "running" \notin Range(server[c].tasks)
    /\ Finishes(c, IF conf.proto THEN PredictFromProtoHelper(c) ELSE PredictFromJsonHelper(c))
    /\ UNCHANGED <<conf, is_cancelled, client_contexts, canceller, client, answers>>

-----------------------------------------------------------------------------

Call(c) ==
    \/ RunInferenceInternal(c) \/ CreateClientContext(c) \/ RpcReplies(c)
    \/ HandlePredictResponse(c)
    \/ DispatchTasks(c) \/ Collect(c)
    \/ \E k \in DOMAIN server[c].tasks : PredictTask(c, k)

InferenceNext == TryCancelAll \/ \E c \in ScriptCalls : Call(c) \/ RpcFails(c)

\* Threads run, a model has an end to its run, and an RPC that is over ends. No call
\* has to fail, and no client has to cancel.
Goes(c) == Call(c) \/ (server[c].pc = "aborted" /\ RpcFails(c))
InferenceFairness == \A c \in ScriptCalls : WF_inferenceVars(Goes(c))

InferenceSpec == InferenceInit /\ [][InferenceNext]_inferenceVars /\ InferenceFairness

-----------------------------------------------------------------------------
(* Properties.                                                                *)

InferenceTypeOK ==
    /\ conf \in Sidecars /\ is_cancelled \in BOOLEAN /\ canceller \in 0..2
    /\ client_contexts \in [ScriptCalls -> {"none", "open", "cancelled", "plain"}]
    /\ \A c \in ScriptCalls :
           /\ client[c].pc \in ClientStates /\ client[c].ok \in BOOLEAN
           /\ server[c].pc \in {"none", "enter", "tasks", "finished", "aborted"}
           /\ client_contexts[c] = "none" <=> server[c] = NoServer
           /\ client[c].pc # "done" => answers[c] = NoOutput

\* What one inference of a batch should be answered, by itself: the first thing that
\* is wrong with it, or the outputs of its model. What is cancelled counts as failed.
Fits(r, a) ==
    LET readable == ParseInternal(r)
        known == r.model_path \in RegisteredModels
        result == Predicted(r)
        error == CASE ~readable -> "INPUT_PARSING"
                   [] readable /\ ~known -> "MODEL_NOT_FOUND"
                   [] readable /\ known /\ result # "ok" -> result
                   [] OTHER -> ""
    IN /\ a.model_path = r.model_path
       /\ \/ error # "" /\ a.error = error /\ a.tensors = <<>>
          \/ /\ readable /\ known /\ conf.atSidecar /\ is_cancelled
             /\ a.error = "MODEL_EXECUTION" /\ a.tensors = <<>>
          \/ /\ error = "" /\ Expressible(r) /\ a.error = "" /\ a.tensors = r.outputs
          \/ /\ error = "" /\ ~Expressible(r) /\ conf.proto
             /\ a.tensors = ConvertTensorToProto(r.outputs)
             /\ a.error = (IF a.tensors = <<>> THEN "OUTPUT_PARSING" ELSE "")

\* When a whole batch may be answered by one error.
Excused(batch, error) ==
    \/ error = "GRPC"
    \/ error = "INPUT_PARSING" /\ (Malformed(batch) \/ (conf.proto /\ Parsed(batch) = <<>>))
    \/ /\ error = "OUTPUT_PARSING" /\ ~conf.proto
       /\ \E k \in DOMAIN batch : /\ ParseInternal(batch[k])
                                  /\ Predicted(batch[k]) = "ok"
                                  /\ ~Expressible(batch[k])

\* The script gets an answer for every inference of its batch, each in its place and
\* about its model, whatever the others come to and in whatever order their tasks run;
\* or one error for all of them, for a reason. A sidecar that cannot read protocol
\* buffers is left out: its error is dropped, and the script sees an empty list or only
\* the errors of parsing.
AnswersMatchInferences ==
    \A c \in ScriptCalls :
        LET batch == client[c].batch
            output == answers[c]
        IN client[c].pc = "done" /\ ~(conf.proto /\ conf.module = "pytorch") =>
               \/ /\ ~Malformed(batch) /\ Len(output) = Len(batch)
                  /\ \A k \in DOMAIN batch : Fits(batch[k], output[k])
               \/ /\ Len(output) = 1 /\ output[1].model_path = NoPath
                  /\ Excused(batch, output[1].error)

\* Once TryCancelAll has returned every call of the request that has a context is
\* cancelled, and none can get another, however the calls and the cancellation
\* interleave. The calls of prepareDataForAdRetrieval are excepted, as the manager does
\* not know of them: they are made and go on after the request was cancelled.
CancellationReachesCalls ==
    canceller = 2 =>
        /\ is_cancelled
        /\ \A c \in ScriptCalls \ PreparationCalls : client_contexts[c] \in {"none", "cancelled"}

\* Every call of a script returns, as the thread that runs the script waits for it.
CallsReturned == \A c \in ScriptCalls : client[c].pc \in {"absent", "done"}

EveryCallReturns == <>CallsReturned
=============================================================================
