----------------------------- MODULE ModelStore -----------------------------
(* The inference sidecar: ModelStore                                         *)
(* (src/services/inference_sidecar/common/model/model_store.h), the thread   *)
(* that resets its models, and the inferences that use them (Predict of the  *)
(* TensorFlow and PyTorch modules). A production copy of a model may be      *)
(* changed by the inferences it runs, so after a use it is reset with some   *)
(* probability: a use is "drawn" when the thread has decided about it.       *)
(* Of the four mutexes only model_data_mutex_ is held over several steps     *)
(* (ResetModel builds a model under it); sections of the others are atomic.  *)
EXTENDS Naturals, FiniteSets

CONSTANTS
    Models,      \* model paths
    Versions,    \* contents of models, told apart by their checksum
    None,        \* no model
    Inferences   \* inferences of one model each; a batch is several of them

StoreAssumption == None \notin Versions /\ IsFiniteSet(Inferences)

VARIABLES
    model_data,  \* model_data_map_
    prod,        \* prod_model_map_: the content each copy was built from
    consented,   \* consented_model_map_
    count,       \* per_model_inference_count_
    resetter,    \* the background thread, inside ResetModels
    inference    \* the inferences, each in a thread of its own

storeVars == <<model_data, prod, consented, count, resetter, inference>>
maps == <<model_data, prod, consented>>

NoCount == Cardinality(Inferences) + 1   \* no counter for the model

Forms == {"json", "proto"}
NoInference == [pc |-> "none", form |-> "json", traffic |-> "prod",
                model |-> None, copy |-> "none"]

InferenceType ==
    [pc : {"none", "get", "run", "output", "count", "done", "failed"},
     form : Forms, traffic : {"prod", "consented"}, model : Models \cup {None},
     copy : {"none", "prod", "consented", "drawn"}]

ResetterType == [pc : {"take", "reset", "build"}, models : SUBSET Models,
                 key : Models \cup {None}, request : Versions \cup {None}]

StoreTypeOK ==
    /\ {model_data, prod, consented} \subseteq [Models -> Versions \cup {None}]
    /\ count \in [Models -> 0..NoCount]
    /\ resetter \in ResetterType
    /\ inference \in [Inferences -> InferenceType]

StoreInit ==
    /\ model_data = [m \in Models |-> None]
    /\ prod = model_data /\ consented = model_data
    /\ count = [m \in Models |-> NoCount]
    /\ resetter = [pc |-> "take", models |-> {}, key |-> None, request |-> None]
    /\ inference = [i \in Inferences |-> NoInference]

-----------------------------------------------------------------------------
(* Registration and deletion, for the fetcher.                               *)

\* A bug: registration and deletion that do not take model_data_mutex_.
NeverBusy == TRUE

\* ResetModel holds model_data_mutex_ while it builds a model.
Unlocked == resetter.pc # "build"

\* The production copy of m that inferences hold is no longer the store's.
Superseded(m) ==
    [i \in Inferences |->
        IF inference[i].model = m /\ inference[i].copy = "prod"
        THEN [inference[i] EXCEPT !.copy = "drawn"] ELSE inference[i]]

\* RegisterModel answers AlreadyExists, DeleteModel NotFound, otherwise.
Registrable(m) == prod[m] = None
Deletable(m) == model_data[m] # None

Stored(m, content) ==
    /\ model_data' = [model_data EXCEPT ![m] = content]
    /\ prod' = [prod EXCEPT ![m] = content]
    /\ consented' = [consented EXCEPT ![m] = content]

PutModel(m, content) ==
    /\ Unlocked /\ Registrable(m)
    /\ Stored(m, content)
    /\ count' = [count EXCEPT ![m] = 0]
    /\ UNCHANGED <<resetter, inference>>

DeleteFromStore(m) ==
    /\ Unlocked /\ Deletable(m)
    /\ Stored(m, None)
    /\ count' = [count EXCEPT ![m] = NoCount]
    /\ inference' = Superseded(m)
    /\ UNCHANGED resetter

-----------------------------------------------------------------------------
(* Predict, for an inference of a request.                                   *)

IncrementModelInferenceCount(m) ==
    IF count[m] = NoCount THEN count ELSE [count EXCEPT ![m] = @ + 1]

\* A bug: JSON requests counted before they run, as protocol buffers are.
CountFirst(form) == TRUE

\* Inferences given as protocol buffers are counted before they run.
CountedFirst(form) == form = "proto"

StartPredict(i) ==
    /\ inference[i].pc = "none"
    /\ \E form \in Forms, traffic \in {"prod", "consented"}, m \in Models :
        /\ inference' = [inference EXCEPT ![i] =
               [NoInference EXCEPT !.pc = "get", !.form = form,
                                   !.traffic = traffic, !.model = m]]
        /\ count' = IF CountedFirst(form) THEN IncrementModelInferenceCount(m) ELSE count
    /\ UNCHANGED <<maps, resetter>>

GetModel(i) ==
    /\ inference[i].pc = "get"
    /\ LET request == inference[i]
           found == IF request.traffic = "prod" THEN prod[request.model]
                                                ELSE consented[request.model]
       IN inference' = [inference EXCEPT ![i] =
              IF found = None THEN [@ EXCEPT !.pc = "output"]
              ELSE [@ EXCEPT !.pc = "run", !.copy = request.traffic]]
    /\ UNCHANGED <<maps, count, resetter>>

\* The task runs the model, or finds the request cancelled.
Run(i) ==
    /\ inference[i].pc = "run"
    /\ \/ inference' = [inference EXCEPT ![i].pc = "output"]
       \/ inference' = [inference EXCEPT ![i].pc = "output", ![i].copy = "none"]
    /\ UNCHANGED <<maps, count, resetter>>

\* Outputs that JSON cannot express fail the request before it is counted.
Output(i) ==
    /\ inference[i].pc = "output"
    /\ \E next \in IF CountedFirst(inference[i].form) THEN {"done"}
                                                      ELSE {"count", "failed"} :
        inference' = [inference EXCEPT ![i].pc = next]
    /\ UNCHANGED <<maps, count, resetter>>

CountInference(i) ==
    /\ inference[i].pc = "count"
    /\ count' = IncrementModelInferenceCount(inference[i].model)
    /\ inference' = [inference EXCEPT ![i].pc = "done"]
    /\ UNCHANGED <<maps, resetter>>

Predict(i) == GetModel(i) \/ Run(i) \/ Output(i) \/ CountInference(i)

-----------------------------------------------------------------------------
(* ResetModels, again and again in the background thread.                    *)

ListModels ==
    /\ resetter.pc = "take" /\ resetter.models = {}
    /\ resetter' = [resetter EXCEPT !.models = {m \in Models : model_data[m] # None}]
    /\ UNCHANGED <<maps, count, inference>>

\* Decides about all uses of m so far; a draw that is lost leaves the copy.
TakeCount(m) ==
    /\ resetter.pc = "take" /\ m \in resetter.models
    /\ count' = IF count[m] = NoCount THEN count ELSE [count EXCEPT ![m] = 0]
    /\ \E hit \in IF count[m] \in {0, NoCount} THEN {FALSE} ELSE BOOLEAN :
        resetter' = [pc |-> IF hit THEN "reset" ELSE "take",
                     models |-> resetter.models \ {m},
                     key |-> IF hit THEN m ELSE None, request |-> None]
    /\ inference' =
        [i \in Inferences |->
            IF /\ count[m] \notin {0, NoCount}
               /\ inference[i].model = m /\ inference[i].pc = "done"
               /\ inference[i].copy = "prod"
            THEN [inference[i] EXCEPT !.copy = "drawn"] ELSE inference[i]]
    /\ UNCHANGED maps

BeginReset ==
    /\ resetter.pc = "reset"
    /\ resetter' = IF model_data[resetter.key] = None
                   THEN [resetter EXCEPT !.pc = "take", !.key = None]
                   ELSE [resetter EXCEPT !.pc = "build",
                                         !.request = model_data[resetter.key]]
    /\ UNCHANGED <<maps, count, inference>>

\* The new copy is built from the request found under the lock.
EndReset ==
    /\ resetter.pc = "build"
    /\ prod' = [prod EXCEPT ![resetter.key] = resetter.request]
    /\ inference' = Superseded(resetter.key)
    /\ resetter' = [resetter EXCEPT !.pc = "take", !.key = None, !.request = None]
    /\ UNCHANGED <<model_data, consented, count>>

ResetModels == ListModels \/ (\E m \in Models : TakeCount(m)) \/ BeginReset \/ EndReset

Sidecar == ResetModels \/ (\E i \in Inferences : StartPredict(i) \/ Predict(i))
=============================================================================
