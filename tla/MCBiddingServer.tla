-------------------------- MODULE MCBiddingServer ---------------------------
(* A bidding server: its requests, the models of its inference sidecar, and   *)
(* the batches of inferences that a script asks for. A request and a change   *)
(* of the models meet in the sidecar's Predict only, which                    *)
(* PeriodicModelFetcher has as inferences of any request, and a script that   *)
(* runs inferences is a run that takes its time, so that each of the three is *)
(* explored by itself (part).                                                 *)
EXTENDS BiddingService, PeriodicModelFetcher, BatchInference, TLC

CONSTANTS
    Parts,        \* "requests", "models", "inference"
    m1, m2, v1, v2, c1, c2, c3

VARIABLE part

-----------------------------------------------------------------------------
(* Two models; the first is always listed, in one of two contents, of which  *)
(* one has a grace period, the second in that content or not at all.         *)

Listing(a, b) == [m \in Models |-> IF m = m1 THEN a ELSE b]
MCConfigs == {Listing(v1, None), Listing(v2, v1)}

ASSUME ModelsAssumption == FetcherAssumption /\ StoreAssumption

-----------------------------------------------------------------------------
(* Batches: any two of the inferences, of which each is answered another way; *)
(* up to three with errors of parsing in between; none, and no batch at all;  *)
(* two calls at once; and calls of prepareDataForAdRetrieval, with a call of   *)
(* generateBids after it or without.                                          *)

Tensor(type, dims, content, named) ==
    [data_type |-> type, tensor_shape |-> dims, tensor_content |-> content, named |-> named]
Asked(path, tensors, fails, outputs) ==
    [model_path |-> path, tensors |-> tensors, fails |-> fails, outputs |-> outputs]
Pair == <<Tensor("FLOAT", <<1, 2>>, <<"small", "large">>, TRUE)>>
OfTensor(tensor) == Asked("m", <<tensor>>, FALSE, <<"FLOAT">>)
Good == Asked("m", Pair, FALSE, <<"FLOAT", "INT8">>)
Unknown == Asked("u", Pair, FALSE, <<"FLOAT">>)
Unparsed == OfTensor(Tensor("FLOAT", <<1>>, <<"bare">>, TRUE))

AskedOfModels ==
    {Good, Unknown, Unparsed, Asked("", Pair, FALSE, <<"FLOAT">>), Asked("m", Pair, TRUE, <<>>)}
    \cup {Asked("m", Pair, FALSE, outputs) : outputs \in {<<"STRING", "FLOAT">>, <<"STRING">>}}
    \cup {OfTensor(t) : t \in
            {Tensor("FLOAT", <<2>>, <<"small">>, TRUE), Tensor("FLOAT", <<0>>, <<>>, TRUE),
             Tensor("STRING", <<1>>, <<"text">>, TRUE), Tensor("FLOAT", <<1>>, <<"text">>, TRUE),
             Tensor("INT8", <<1>>, <<"large">>, TRUE), Tensor("INT8", <<1>>, <<"small">>, FALSE)}}

MCScripts ==
    {c1 :> <<a, b>> : a, b \in AskedOfModels}
    \cup {c1 :> <<Unparsed, a, b>> : a, b \in {Good, Unknown, Unparsed}}
    \cup {c1 :> <<[model_path |-> "malformed"]>>, c1 :> <<>>,
          (c1 :> <<Good>>) @@ (c2 :> <<Good>>), (c3 :> <<Good>>) @@ (c1 :> <<Good>>)}
    \cup {c3 :> <<Unparsed, a>> : a \in {Good, Unknown, Unparsed}}

\* Either module, in either form, with cancellation in both places or in one.
Flags(module, proto, atBidding, atSidecar) ==
    [module |-> module, proto |-> proto, atBidding |-> atBidding, atSidecar |-> atSidecar]
MCSidecars ==
    {Flags(module, proto, TRUE, module = "tensorflow") :
        module \in {"tensorflow", "pytorch"}, proto \in BOOLEAN}
    \cup {Flags("tensorflow", FALSE, FALSE, TRUE)}

ASSUME InferenceAssumption == BatchInferenceAssumption

allVars == <<part, vars, modelVars, inferenceVars>>

-----------------------------------------------------------------------------
\* Over V8, a request of either kind: up to three interest groups, one of which has
\* no input, and app signals with and without ads of their own or good metadata.
Request(kind, igs, built, metadata, contextual) ==
    [kind |-> kind, igs |-> igs, built |-> built, metadata |-> metadata,
     contextual |-> contextual]

MCV8Requests ==
    {Request("PA", {"ig1", "ig2", "ig3"}, <<"ig1", "ig3">>, TRUE, FALSE),
     Request("PA", {"ig2"}, <<>>, TRUE, FALSE)}
    \cup {Request("PAS", {}, <<>>, m, c) : m, c \in BOOLEAN}

\* Over BYOB, one request by itself where none shares anything with another, and two
\* that meet at the limit of pending batches or at the one thread for them. Of the
\* two, the second has nothing to run, as it could not be decrypted.
Workload(start, max, groups) ==
    [batch_start_timeout |-> start, max_pending_batches |-> max, threads |-> 1,
     groups |-> groups]

MCByobWorkloads ==
    {Workload("none", 1, [r1 |-> 2]), Workload("none", 1, [r1 |-> 0]),
     Workload("zero", 2, [r1 |-> 2]), Workload("zero", 2, [r1 |-> 1, r2 |-> 1]),
     Workload("some", 1, [r1 |-> 2]), Workload("some", 1, [r1 |-> 1, r2 |-> 1])}

-----------------------------------------------------------------------------

\* The part that is not explored stays in one of its initial states.
ServerInit ==
    /\ part \in Parts
    /\ Init /\ FetcherInit /\ InferenceInit
    /\ Cardinality(Calls) > 1 =>
           \A r \in Calls :
               calls[r].rpc.decrypted <=> r = "r1"
    /\ part # "requests" => /\ udf_mode = "V8" /\ rpc.decrypted
                            /\ request = CHOOSE r \in V8Requests : TRUE
    /\ part # "models" => listed = CHOOSE c \in MCConfigs : TRUE
    /\ part # "inference" => /\ conf = CHOOSE s \in MCSidecars : TRUE
                             /\ client[c1].batch = <<>>

Exploring(p) == part = p /\ UNCHANGED part

ServerNext ==
    \/ Exploring("requests") /\ Next /\ UNCHANGED <<modelVars, inferenceVars>>
    \/ Exploring("models") /\ FetcherNext /\ UNCHANGED <<vars, inferenceVars>>
    \/ Exploring("inference") /\ InferenceNext /\ UNCHANGED <<vars, modelVars>>

\* As in Fairness of BiddingService, PeriodicModelFetcher and BatchInference. Only
\* one part takes steps in a behaviour, so that fairness of a step of either part is
\* fairness of the step of the part that is explored; and the first script of a request
\* has ended, but for a number of steps, when the second begins.
V8Goes == ~rpc.deleted /\ V8Step /\ UNCHANGED <<udf_mode, byobVars>>
ByobGoes == ByobNext /\ ByobStep /\ UNCHANGED <<udf_mode, v8Vars>>

ServerFairness ==
    /\ WF_allVars(\/ Exploring("requests") /\ udf_mode = "V8" /\ V8Goes
                     /\ UNCHANGED <<modelVars, inferenceVars>>
                  \/ Exploring("requests") /\ udf_mode = "BYOB" /\ ByobGoes
                     /\ UNCHANGED <<modelVars, inferenceVars>>
                  \/ Exploring("models") /\ Poll /\ UNCHANGED <<vars, inferenceVars>>
                  \/ Exploring("inference") /\ (Goes(c1) \/ Goes(c3))
                     /\ UNCHANGED <<vars, modelVars>>)
    /\ WF_allVars(\/ Exploring("models") /\ ResetModels
                     /\ UNCHANGED <<vars, fetcherVars, inferenceVars>>
                  \/ Exploring("inference") /\ Goes(c2) /\ UNCHANGED <<vars, modelVars>>)
    /\ \A i \in Inferences :
           WF_allVars(Exploring("models") /\ Predict(i)
                      /\ UNCHANGED <<vars, fetcherVars, inferenceVars>>)
    /\ \A m \in Models :
           SF_allVars(/\ Exploring("models") /\ GracePeriodEnds(m)
                      /\ UNCHANGED <<vars, inferenceVars>>)

ServerSpec == ServerInit /\ [][ServerNext]_allVars /\ ServerFairness

-----------------------------------------------------------------------------

\* The type invariants of the three.
TypesOK == TypeOK /\ FetcherTypeOK /\ InferenceTypeOK

\* Every request is answered, and every call of a script returns: neither is undone.
EveryRequestAnswered ==
    <>(/\ part = "requests" => AllAnswered
       /\ part = "inference" => CallsReturned)

\* The sidecar comes to hold the listed models and no others.
ModelsFollowListing == part = "models" => ModelsFollowConfig
=============================================================================
