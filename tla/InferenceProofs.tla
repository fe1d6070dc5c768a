-------------------------- MODULE InferenceProofs ---------------------------
(* Proofs about the inference of the bidding service, for any models,         *)
(* contents, configurations, scripts, batches and tensors. First              *)
(* PeriodicModelFetcher and the ModelStore of the sidecar: the maps of the    *)
(* store, its counters and the entries of the fetcher agree, in whatever      *)
(* order the threads take the locks; each section of a lock is an action, and *)
(* a lemma for each says what it keeps. Then runInference(): TryCancelAll     *)
(* reaches every call that has the manager of the request, and each inference *)
(* of a batch is answered in its place, after its own merits, however the     *)
(* tasks, the calls and the cancellation interleave.                          *)
EXTENDS MCBiddingServer, BiddingServiceProofs

(***************************************************************************)
(* The inductive invariant of the fetcher and the store.                   *)
(***************************************************************************)
\* The inferences whose use of m has been counted, since the store was created.
HasCounted(use, m) ==
    /\ use.model = m
    /\ \/ use.form = "proto" /\ use.pc # "none"
       \/ use.form = "json" /\ use.pc = "done"
Counting(m) == {i \in Inferences : HasCounted(inference[i], m)}

\* A counter never gets beyond the inferences that were counted, and so stays
\* below the value that stands for no counter.
CountsWithin ==
    \A m \in Models : count[m] # NoCount => count[m] <= Cardinality(Counting(m))

\* A production copy in use that nobody has decided about is the store's.
UseFound(use) ==
    /\ use.pc = "none" => use.copy = "none"
    /\ use.pc # "none" => use.model \in Models
    /\ use.copy = "prod" => prod[use.model] # None
    /\ use.pc \in {"count", "failed"} => use.form = "json"
UsesFound == \A i \in Inferences : UseFound(inference[i])

\* ResetModel builds what the store holds under the lock.
ResetterKnows ==
    /\ resetter.pc # "take" => resetter.key \in Models
    /\ resetter.pc = "build" => /\ resetter.request = model_data[resetter.key]
                                /\ resetter.request # None

\* A poll registers listed models that have no entry.
PollKnows ==
    poll.pc = "register" =>
        \A m \in poll.todo : poll.config[m] # None /\ entry[m] = NoEntry

\* What MapsAgree says of the sidecar alone.
StoreMapsAgree ==
    \A m \in Models : /\ prod[m] = model_data[m] /\ consented[m] = model_data[m]
                      /\ (count[m] = NoCount) <=> (model_data[m] = None)

StoreInv ==
    /\ StoreTypeOK /\ StoreMapsAgree /\ NoUseForgotten
    /\ CountsWithin /\ UsesFound /\ ResetterKnows

ModelsIInv == FetcherTypeOK /\ MapsAgree /\ StoreInv /\ PollKnows

(***************************************************************************)
(* Sets of inferences and their number.                                    *)
(***************************************************************************)
\* Any set of inferences has a number, which its supersets exceed.
LEMMA Numbers ==
    ASSUME StoreAssumption,
           NEW T \in SUBSET Inferences, NEW S \in SUBSET T
    PROVE  /\ Cardinality(S) \in Nat /\ Cardinality(T) \in Nat
           /\ Cardinality(Inferences) \in Nat /\ NoCount \in Nat
           /\ Cardinality(S) <= Cardinality(T)
           /\ Cardinality(T) <= Cardinality(Inferences)
           /\ \A i \in T \ S : Cardinality(S) + 1 <= Cardinality(T)
<1>1. IsFiniteSet(Inferences)
  BY DEF StoreAssumption
<1>2. IsFiniteSet(T) /\ Cardinality(T) <= Cardinality(Inferences)
  BY <1>1, FS_Subset
<1>3. IsFiniteSet(S) /\ Cardinality(S) <= Cardinality(T)
  BY <1>2, FS_Subset
<1>4. /\ Cardinality(S) \in Nat /\ Cardinality(T) \in Nat
      /\ Cardinality(Inferences) \in Nat
  BY <1>1, <1>2, <1>3, FS_CardinalityType
<1>5. ASSUME NEW i \in T \ S PROVE Cardinality(S) + 1 <= Cardinality(T)
  <2>1. IsFiniteSet(S \cup {i}) /\ Cardinality(S \cup {i}) = Cardinality(S) + 1
    BY <1>3, <1>5, FS_AddElement
  <2>2. S \cup {i} \in SUBSET T
    BY <1>5
  <2>3. Cardinality(S \cup {i}) <= Cardinality(T)
    BY <1>2, <2>2, FS_Subset
  <2> QED
    BY <2>1, <2>3
<1>6. NoCount \in Nat
  BY <1>4 DEF NoCount
<1> QED
  BY <1>2, <1>3, <1>4, <1>5, <1>6

\* What the counters are worth in a state of the invariant.
LEMMA Counters ==
    ASSUME StoreAssumption,
           StoreTypeOK, NEW m \in Models
    PROVE  /\ Cardinality(Inferences) \in Nat /\ NoCount \in Nat
           /\ NoCount = Cardinality(Inferences) + 1
           /\ count[m] \in Nat /\ count[m] <= NoCount
           /\ Counting(m) \in SUBSET Inferences
           /\ Cardinality(Counting(m)) \in Nat
           /\ Cardinality(Counting(m)) <= Cardinality(Inferences)
<1>1. Counting(m) \in SUBSET Inferences
  BY DEF Counting
<1>2. /\ Cardinality(Counting(m)) \in Nat /\ Cardinality(Inferences) \in Nat
      /\ NoCount \in Nat /\ Cardinality(Counting(m)) <= Cardinality(Inferences)
  BY <1>1, Numbers
<1>3. count[m] \in 0..NoCount
  BY DEF StoreTypeOK
<1> QED
  BY <1>1, <1>2, <1>3 DEF NoCount

(***************************************************************************)
(* Registration and deletion.                                              *)
(***************************************************************************)
\* What a step that leaves the counted inferences of m does to their number: it
\* does not shrink.
LEMMA NumberGrows ==
    ASSUME StoreAssumption,
           NEW m \in Models,
           \A i \in Inferences :
               HasCounted(inference[i], m) => HasCounted(inference'[i], m)
    PROVE  /\ Cardinality(Counting(m)) \in Nat /\ Cardinality(Counting(m)') \in Nat
           /\ Cardinality(Counting(m)) <= Cardinality(Counting(m)')
<1>1. Counting(m)' \in SUBSET Inferences /\ Counting(m) \in SUBSET Counting(m)'
  BY DEF Counting
<1> QED
  BY <1>1, Numbers

\* PutModel leaves the store as it should be.
LEMMA PutModelKeeps ==
    ASSUME StoreAssumption,
           StoreInv, NEW m \in Models, NEW content \in Versions, PutModel(m, content)
    PROVE  StoreInv'
<1>1. /\ model_data \in [Models -> Versions \cup {None}]
      /\ prod \in [Models -> Versions \cup {None}]
      /\ consented \in [Models -> Versions \cup {None}]
      /\ count \in [Models -> 0..NoCount]
      /\ prod[m] = None /\ model_data[m] = None /\ count[m] = NoCount
  BY DEF StoreInv, StoreTypeOK, StoreMapsAgree, PutModel, Registrable
<1>2. /\ model_data' = [model_data EXCEPT ![m] = content]
      /\ prod' = [prod EXCEPT ![m] = content]
      /\ consented' = [consented EXCEPT ![m] = content]
      /\ count' = [count EXCEPT ![m] = 0]
      /\ resetter' = resetter /\ inference' = inference /\ Unlocked
  BY DEF PutModel, Stored
<1>3. content # None
  BY DEF StoreAssumption
<1>4. Cardinality(Inferences) \in Nat /\ NoCount = Cardinality(Inferences) + 1
  BY Counters DEF StoreInv
<1>5. StoreTypeOK'
  <2>1. count' \in [Models -> 0..NoCount]
    BY <1>1, <1>2, <1>4
  <2> QED
    BY <1>1, <1>2, <2>1 DEF StoreInv, StoreTypeOK
<1>6. StoreMapsAgree'
  BY <1>1, <1>2, <1>3, <1>4 DEF StoreInv, StoreMapsAgree
<1>7. CountsWithin'
  <2> SUFFICES ASSUME NEW n \in Models, count'[n] # NoCount
               PROVE  count'[n] <= Cardinality(Counting(n)')
    BY DEF CountsWithin
  <2>1. Counting(n)' = Counting(n)
    BY <1>2 DEF Counting
  <2>2. Cardinality(Counting(n)) \in Nat
    BY Counters DEF StoreInv
  <2> QED
    BY <1>1, <1>2, <2>1, <2>2 DEF StoreInv, CountsWithin
<1>8. UsesFound'
  BY <1>1, <1>2, <1>3 DEF StoreInv, UsesFound, UseFound
<1>9. ResetterKnows'
  BY <1>1, <1>2 DEF StoreInv, ResetterKnows, Unlocked
<1>10. NoUseForgotten'
  BY <1>1, <1>2 DEF StoreInv, NoUseForgotten, UsesFound, UseFound
<1> QED
  BY <1>5, <1>6, <1>7, <1>8, <1>9, <1>10 DEF StoreInv

\* What becomes of an inference when the store's copy of m is replaced.
LEMMA SupersededFields ==
    ASSUME NEW m, inference \in [Inferences -> InferenceType]
    PROVE  /\ Superseded(m) \in [Inferences -> InferenceType]
           /\ \A i \in Inferences :
                  /\ Superseded(m)[i].pc = inference[i].pc
                  /\ Superseded(m)[i].form = inference[i].form
                  /\ Superseded(m)[i].model = inference[i].model
                  /\ Superseded(m)[i].copy =
                        IF inference[i].model = m /\ inference[i].copy = "prod"
                        THEN "drawn" ELSE inference[i].copy
BY DEF Superseded, InferenceType

\* DeleteFromStore leaves the store as it should be.
LEMMA DeleteKeeps ==
    ASSUME StoreAssumption,
           StoreInv, NEW m \in Models, DeleteFromStore(m)
    PROVE  StoreInv'
<1>1. /\ model_data \in [Models -> Versions \cup {None}]
      /\ prod \in [Models -> Versions \cup {None}]
      /\ consented \in [Models -> Versions \cup {None}]
      /\ count \in [Models -> 0..NoCount]
      /\ inference \in [Inferences -> InferenceType]
  BY DEF StoreInv, StoreTypeOK
<1>2. /\ model_data' = [model_data EXCEPT ![m] = None]
      /\ prod' = [prod EXCEPT ![m] = None]
      /\ consented' = [consented EXCEPT ![m] = None]
      /\ count' = [count EXCEPT ![m] = NoCount]
      /\ resetter' = resetter /\ inference' = Superseded(m) /\ Unlocked
  BY DEF DeleteFromStore, Stored
<1>3. Cardinality(Inferences) \in Nat /\ NoCount = Cardinality(Inferences) + 1
  BY Counters DEF StoreInv
<1>4. /\ inference' \in [Inferences -> InferenceType]
      /\ \A i \in Inferences :
             /\ inference'[i].pc = inference[i].pc
             /\ inference'[i].form = inference[i].form
             /\ inference'[i].model = inference[i].model
             /\ inference'[i].copy =
                   IF inference[i].model = m /\ inference[i].copy = "prod"
                   THEN "drawn" ELSE inference[i].copy
  BY <1>1, <1>2, SupersededFields
<1>5. StoreTypeOK'
  <2>1. count' \in [Models -> 0..NoCount]
    BY <1>1, <1>2, <1>3
  <2> QED
    BY <1>1, <1>2, <1>4, <2>1 DEF StoreInv, StoreTypeOK
<1>6. StoreMapsAgree'
  BY <1>1, <1>2 DEF StoreInv, StoreMapsAgree
<1>7. CountsWithin'
  <2> SUFFICES ASSUME NEW n \in Models, count'[n] # NoCount
               PROVE  count'[n] <= Cardinality(Counting(n)')
    BY DEF CountsWithin
  <2>1. Counting(n)' = Counting(n)
    BY <1>4 DEF Counting, HasCounted
  <2> QED
    BY <1>1, <1>2, <2>1 DEF StoreInv, CountsWithin
<1>8. UsesFound'
  BY <1>1, <1>2, <1>4 DEF StoreInv, UsesFound, UseFound
<1>9. ResetterKnows'
  BY <1>1, <1>2 DEF StoreInv, ResetterKnows, Unlocked
<1>10. NoUseForgotten'
  <2> SUFFICES ASSUME NEW i \in Inferences, inference'[i].pc = "done",
                      inference'[i].form = "json", inference'[i].copy = "prod"
               PROVE  count'[inference'[i].model] \in 1..Cardinality(Inferences)
    BY DEF NoUseForgotten
  <2>1. /\ inference[i].pc = "done" /\ inference[i].form = "json"
        /\ inference[i].copy = "prod" /\ inference[i].model # m
        /\ inference'[i].model = inference[i].model
    BY <1>4
  <2>2. inference[i].model \in Models
    BY <2>1 DEF StoreInv, UsesFound, UseFound
  <2>3. count[inference[i].model] \in 1..Cardinality(Inferences)
    BY <2>1 DEF StoreInv, NoUseForgotten
  <2> QED
    BY <1>1, <1>2, <2>1, <2>2, <2>3
<1> QED
  BY <1>5, <1>6, <1>7, <1>8, <1>9, <1>10 DEF StoreInv

(***************************************************************************)
(* Inferences.                                                             *)
(***************************************************************************)
\* A use of a model is found in a counter of its own or no counter at all.
LEMMA CountedOnce ==
    ASSUME StoreAssumption,
           StoreInv, NEW m \in Models
    PROVE  /\ IncrementModelInferenceCount(m) \in [Models -> Nat]
           /\ \A n \in Models : IncrementModelInferenceCount(m)[n] =
                 IF n = m /\ count[m] # NoCount THEN count[m] + 1 ELSE count[n]
<1>1. count \in [Models -> 0..NoCount]
  BY DEF StoreInv, StoreTypeOK
<1>2. NoCount \in Nat
  BY Counters DEF StoreInv
<1> QED
  BY <1>1, <1>2 DEF IncrementModelInferenceCount

\* A step of one inference that keeps the maps, does not count a use and does not
\* begin to be counted keeps the store as it should be.
LEMMA UncountedKeeps ==
    ASSUME StoreAssumption,
           StoreInv, NEW i \in Inferences, NEW use \in InferenceType,
           inference' = [inference EXCEPT ![i] = use],
           UNCHANGED <<maps, count, resetter>>,
           UseFound(use),
           use.model = inference[i].model, use.form = inference[i].form,
           use.pc # "none", use.form = "json" => use.pc # "done",
           inference[i].form = "json" => inference[i].pc # "done"
    PROVE  StoreInv'
<1>1. /\ inference \in [Inferences -> InferenceType]
      /\ inference' \in [Inferences -> InferenceType]
      /\ inference'[i] = use
      /\ \A j \in Inferences \ {i} : inference'[j] = inference[j]
  BY DEF StoreInv, StoreTypeOK
<1>2. /\ model_data' = model_data /\ prod' = prod /\ consented' = consented
      /\ count' = count /\ resetter' = resetter
  BY DEF maps
<1>3. StoreTypeOK'
  BY <1>1, <1>2 DEF StoreInv, StoreTypeOK
<1>4. StoreMapsAgree' /\ ResetterKnows'
  BY <1>2 DEF StoreInv, StoreMapsAgree, ResetterKnows
<1>5. CountsWithin'
  <2> SUFFICES ASSUME NEW m \in Models, count'[m] # NoCount
               PROVE  count'[m] <= Cardinality(Counting(m)')
    BY DEF CountsWithin
  <2>1. \A j \in Inferences :
            HasCounted(inference[j], m) => HasCounted(inference'[j], m)
    BY <1>1 DEF HasCounted
  <2>2. /\ Cardinality(Counting(m)) \in Nat /\ Cardinality(Counting(m)') \in Nat
        /\ Cardinality(Counting(m)) <= Cardinality(Counting(m)')
    BY <2>1, NumberGrows
  <2>3. count[m] \in Nat /\ count[m] <= Cardinality(Counting(m))
    BY <1>2, Counters DEF StoreInv, CountsWithin
  <2> QED
    BY <1>2, <2>2, <2>3
<1>6. UsesFound'
  BY <1>1, <1>2 DEF StoreInv, UsesFound, UseFound
<1>7. NoUseForgotten'
  BY <1>1, <1>2 DEF StoreInv, NoUseForgotten
<1> QED
  BY <1>3, <1>4, <1>5, <1>6, <1>7 DEF StoreInv

\* A step of one inference that counts its use does not let the counter get beyond
\* those that were counted, nor lose the use.
LEMMA CountedKeeps ==
    ASSUME StoreAssumption,
           StoreInv, NEW i \in Inferences, NEW use \in InferenceType,
           inference' = [inference EXCEPT ![i] = use],
           use.model \in Models, count' = IncrementModelInferenceCount(use.model),
           UNCHANGED <<maps, resetter>>,
           UseFound(use), \A m : ~HasCounted(inference[i], m),
           HasCounted(use, use.model)
    PROVE  StoreInv'
<1> DEFINE k == use.model
<1>1. /\ inference \in [Inferences -> InferenceType]
      /\ inference' \in [Inferences -> InferenceType]
      /\ inference'[i] = use
      /\ \A j \in Inferences \ {i} : inference'[j] = inference[j]
  BY DEF StoreInv, StoreTypeOK
<1>2. /\ model_data' = model_data /\ prod' = prod /\ consented' = consented
      /\ resetter' = resetter
  BY DEF maps
<1>3. /\ count' \in [Models -> Nat]
      /\ \A n \in Models : count'[n] =
             IF n = k /\ count[k] # NoCount THEN count[k] + 1 ELSE count[n]
  BY CountedOnce
<1>4. Cardinality(Inferences) \in Nat /\ NoCount = Cardinality(Inferences) + 1
  BY Counters DEF StoreInv
<1>5. \A j \in Inferences, m \in Models :
          HasCounted(inference[j], m) => HasCounted(inference'[j], m)
  BY <1>1
<1>6. ASSUME NEW m \in Models, count[m] # NoCount
      PROVE  /\ count'[m] \in Nat /\ count'[m] <= Cardinality(Counting(m)')
             /\ Cardinality(Counting(m)') <= Cardinality(Inferences)
             /\ Cardinality(Counting(m)') \in Nat
  <2>1. /\ Cardinality(Counting(m)) \in Nat /\ Cardinality(Counting(m)') \in Nat
        /\ Cardinality(Counting(m)) <= Cardinality(Counting(m)')
    BY <1>5, NumberGrows
  <2>2. count[m] \in Nat /\ count[m] <= Cardinality(Counting(m))
    BY <1>6, Counters DEF StoreInv, CountsWithin
  <2>3. /\ Counting(m)' \in SUBSET Inferences
        /\ Counting(m) \in SUBSET Counting(m)'
    BY <1>5 DEF Counting
  <2>4. Cardinality(Counting(m)') <= Cardinality(Inferences)
    BY <2>3, Numbers
  <2>5. CASE m # k
    BY <1>3, <2>1, <2>2, <2>4, <2>5
  <2>6. CASE m = k
    <3>1. i \in Counting(m)' \ Counting(m)
      BY <1>1, <2>6 DEF Counting
    <3>2. Cardinality(Counting(m)) + 1 <= Cardinality(Counting(m)')
      BY <2>3, <3>1, Numbers
    <3>3. count'[m] = count[m] + 1
      BY <1>3, <1>6, <2>6
    <3> QED
      BY <2>1, <2>2, <2>4, <3>2, <3>3
  <2> QED
    BY <2>5, <2>6
<1>7. ASSUME NEW m \in Models
      PROVE  /\ count'[m] \in 0..NoCount
             /\ count'[m] = NoCount <=> count[m] = NoCount
  <2>1. CASE count[m] = NoCount
    BY <1>3, <1>4, <2>1
  <2>2. CASE count[m] # NoCount
    BY <1>4, <1>6, <2>2
  <2> QED
    BY <2>1, <2>2
<1>8. StoreTypeOK'
  <2>1. count' \in [Models -> 0..NoCount]
    BY <1>3, <1>7
  <2> QED
    BY <1>1, <1>2, <2>1 DEF StoreInv, StoreTypeOK
<1>9. StoreMapsAgree' /\ ResetterKnows'
  BY <1>2, <1>7 DEF StoreInv, StoreMapsAgree, ResetterKnows
<1>10. CountsWithin'
  BY <1>6, <1>7 DEF CountsWithin
<1>11. UsesFound'
  BY <1>1, <1>2 DEF StoreInv, UsesFound, UseFound
<1>12. NoUseForgotten'
  <2> SUFFICES ASSUME NEW j \in Inferences, inference'[j].pc = "done",
                      inference'[j].form = "json", inference'[j].copy = "prod"
               PROVE  count'[inference'[j].model] \in 1..Cardinality(Inferences)
    BY DEF NoUseForgotten
  <2> DEFINE m == inference'[j].model
  <2>1. m \in Models /\ prod[m] # None
    BY <1>1, <1>2, <1>11 DEF UsesFound, UseFound
  <2>2. count[m] # NoCount
    BY <2>1 DEF StoreInv, StoreMapsAgree
  <2>3. count'[m] \in Nat /\ count'[m] <= Cardinality(Inferences)
    BY <1>4, <1>6, <2>1, <2>2
  <2>4. count'[m] > 0
    <3>1. CASE m = k
      <4>1. count'[m] = count[m] + 1 /\ count[m] \in Nat
        BY <1>3, <2>1, <2>2, <3>1, Counters DEF StoreInv
      <4> QED
        BY <4>1
    <3>2. CASE m # k
      <4>1. j # i /\ inference'[j] = inference[j]
        BY <1>1, <3>2
      <4>2. count[m] \in 1..Cardinality(Inferences)
        BY <4>1 DEF StoreInv, NoUseForgotten
      <4> QED
        BY <1>3, <2>1, <3>2, <4>2
    <3> QED
      BY <3>1, <3>2
  <2> QED
    BY <1>4, <2>3, <2>4
<1> QED
  BY <1>8, <1>9, <1>10, <1>11, <1>12 DEF StoreInv

\* Each step of an inference leaves the store as it should be.
LEMMA StartPredictKeeps ==
    ASSUME StoreAssumption,
           StoreInv, NEW i \in Inferences, StartPredict(i)
    PROVE  StoreInv'
<1>1. PICK form \in Forms, traffic \in {"prod", "consented"}, m \in Models :
          /\ inference' = [inference EXCEPT ![i] =
                 [NoInference EXCEPT !.pc = "get", !.form = form,
                                     !.traffic = traffic, !.model = m]]
          /\ count' = IF CountedFirst(form) THEN IncrementModelInferenceCount(m) ELSE count
  BY DEF StartPredict
<1> DEFINE use == [NoInference EXCEPT !.pc = "get", !.form = form,
                                      !.traffic = traffic, !.model = m]
<1>2. inference' = [inference EXCEPT ![i] = use]
  BY <1>1
<1>3. /\ use \in InferenceType /\ UseFound(use)
      /\ use.pc = "get" /\ use.form = form /\ use.model = m
  <2>1. NoInference \in InferenceType /\ NoInference.copy = "none"
    BY DEF NoInference, InferenceType, Forms
  <2>2. use \in InferenceType
    BY <1>1, <2>1 DEF InferenceType
  <2>3. /\ use.pc = "get" /\ use.form = form /\ use.model = m
        /\ use.copy = "none"
    BY <2>1 DEF InferenceType
  <2> HIDE DEF use
  <2> QED
    BY <2>2, <2>3 DEF UseFound
<1>4. inference[i].pc = "none" /\ UNCHANGED <<maps, resetter>>
  BY DEF StartPredict
<1>5. CASE form = "proto"
  <2>1. count' = IncrementModelInferenceCount(use.model) /\ use.model \in Models
    BY <1>1, <1>3, <1>5 DEF CountedFirst
  <2>2. \A n : ~HasCounted(inference[i], n)
    BY <1>4 DEF HasCounted
  <2>3. HasCounted(use, use.model)
    BY <1>3, <1>5 DEF HasCounted
  <2> HIDE DEF use
  <2> QED
    BY <1>2, <1>3, <1>4, <2>1, <2>2, <2>3, CountedKeeps
<1>6. CASE form = "json"
  <2>1. count' = count
    BY <1>1, <1>6 DEF CountedFirst
  <2>2. \A n : ~HasCounted(inference[i], n)
    BY <1>4 DEF HasCounted
  <2>3. \A n : ~HasCounted(use, n)
    BY <1>3, <1>6 DEF HasCounted
  <2> HIDE DEF use
  <2>4. /\ inference \in [Inferences -> InferenceType]
        /\ inference' \in [Inferences -> InferenceType]
        /\ inference'[i] = use
        /\ \A j \in Inferences \ {i} : inference'[j] = inference[j]
    BY <1>2, <1>3 DEF StoreInv, StoreTypeOK
  <2>5. /\ model_data' = model_data /\ prod' = prod /\ consented' = consented
        /\ resetter' = resetter
    BY <1>4 DEF maps
  <2>6. StoreTypeOK'
    BY <2>1, <2>4, <2>5 DEF StoreInv, StoreTypeOK
  <2>7. StoreMapsAgree' /\ ResetterKnows'
    BY <2>1, <2>5 DEF StoreInv, StoreMapsAgree, ResetterKnows
  <2>8. CountsWithin'
    <3>1. \A n \in Models : Counting(n)' = Counting(n)
      BY <2>2, <2>3, <2>4 DEF Counting
    <3> QED
      BY <2>1, <3>1 DEF StoreInv, CountsWithin
  <2>9. UsesFound'
    BY <1>3, <2>4, <2>5 DEF StoreInv, UsesFound, UseFound
  <2>10. NoUseForgotten'
    BY <1>3, <2>1, <2>4 DEF StoreInv, NoUseForgotten
  <2> QED
    BY <2>6, <2>7, <2>8, <2>9, <2>10 DEF StoreInv
<1> QED
  BY <1>5, <1>6 DEF Forms

\* A copy that is found is in the store.
LEMMA GetModelKeeps ==
    ASSUME StoreAssumption,
           StoreInv, NEW i \in Inferences, GetModel(i)
    PROVE  StoreInv'
<1> DEFINE asked == inference[i]
           found == IF asked.traffic = "prod" THEN prod[asked.model]
                                                ELSE consented[asked.model]
           use == IF found = None THEN [asked EXCEPT !.pc = "output"]
                  ELSE [asked EXCEPT !.pc = "run", !.copy = asked.traffic]
<1>1. /\ asked \in InferenceType /\ UseFound(asked) /\ asked.pc = "get"
      /\ UNCHANGED <<maps, count, resetter>>
  BY DEF GetModel, StoreInv, StoreTypeOK, UsesFound
<1>2. inference' = [inference EXCEPT ![i] = use]
  BY DEF GetModel
<1>3. use \in InferenceType
  BY <1>1 DEF InferenceType
<1>4. UseFound(use)
  BY <1>1 DEF UseFound, InferenceType
<1>5. /\ use.model = asked.model /\ use.form = asked.form
      /\ use.pc \in {"output", "run"}
  BY <1>1 DEF InferenceType
<1> HIDE DEF use
<1> QED
  BY <1>1, <1>2, <1>3, <1>4, <1>5, UncountedKeeps

\* A run keeps its copy, or is cancelled and gives it up.
LEMMA RunKeeps ==
    ASSUME StoreAssumption,
           StoreInv, NEW i \in Inferences, Run(i)
    PROVE  StoreInv'
<1> DEFINE asked == inference[i]
<1>1. /\ asked \in InferenceType /\ UseFound(asked) /\ asked.pc = "run"
      /\ UNCHANGED <<maps, count, resetter>>
      /\ inference \in [Inferences -> InferenceType]
  BY DEF Run, StoreInv, StoreTypeOK, UsesFound
<1>2. \E copy \in {asked.copy, "none"} :
          inference' = [inference EXCEPT ![i] = [asked EXCEPT !.pc = "output", !.copy = copy]]
  <2>1. CASE inference' = [inference EXCEPT ![i].pc = "output"]
    <3>1. [asked EXCEPT !.pc = "output"]
             = [asked EXCEPT !.pc = "output", !.copy = asked.copy]
      BY <1>1 DEF InferenceType
    <3>2. inference' = [inference EXCEPT ![i] = [asked EXCEPT !.pc = "output"]]
      BY <2>1
    <3> QED
      BY <3>1, <3>2
  <2>2. CASE inference' = [inference EXCEPT ![i].pc = "output", ![i].copy = "none"]
    <3>1. inference' = [inference EXCEPT ![i] =
                           [asked EXCEPT !.pc = "output", !.copy = "none"]]
      BY <1>1, <2>2
    <3> QED
      BY <3>1
  <2> QED
    BY <2>1, <2>2 DEF Run
<1>3. PICK copy \in {asked.copy, "none"} :
          inference' = [inference EXCEPT ![i] = [asked EXCEPT !.pc = "output", !.copy = copy]]
  BY <1>2
<1> DEFINE use == [asked EXCEPT !.pc = "output", !.copy = copy]
<1>4. use \in InferenceType
  BY <1>1 DEF InferenceType
<1>5. UseFound(use)
  BY <1>1 DEF UseFound, InferenceType
<1>6. use.model = asked.model /\ use.form = asked.form /\ use.pc = "output"
  BY <1>1 DEF InferenceType
<1>7. inference' = [inference EXCEPT ![i] = use]
  BY <1>3
<1> HIDE DEF use
<1> QED
  BY <1>1, <1>4, <1>5, <1>6, <1>7, UncountedKeeps

\* An inference in JSON is not done before it is counted.
LEMMA OutputKeeps ==
    ASSUME StoreAssumption,
           StoreInv, NEW i \in Inferences, Output(i)
    PROVE  StoreInv'
<1> DEFINE asked == inference[i]
<1>1. /\ asked \in InferenceType /\ UseFound(asked) /\ asked.pc = "output"
      /\ UNCHANGED <<maps, count, resetter>>
      /\ inference \in [Inferences -> InferenceType]
  BY DEF Output, StoreInv, StoreTypeOK, UsesFound
<1>2. PICK next \in IF CountedFirst(asked.form) THEN {"done"} ELSE {"count", "failed"} :
          inference' = [inference EXCEPT ![i].pc = next]
  BY DEF Output
<1> DEFINE use == [asked EXCEPT !.pc = next]
<1>3. asked.form \in {"json", "proto"}
  BY <1>1 DEF InferenceType, Forms
<1>4. /\ asked.form = "proto" => next = "done"
      /\ asked.form = "json" => next \in {"count", "failed"}
  BY <1>2, <1>3 DEF CountedFirst
<1>5. use \in InferenceType /\ UseFound(use)
  BY <1>1, <1>3, <1>4 DEF InferenceType, UseFound
<1>6. use.model = asked.model /\ use.form = asked.form /\ use.pc = next
  BY <1>1 DEF InferenceType
<1>7. inference' = [inference EXCEPT ![i] = use]
  BY <1>2
<1> HIDE DEF use
<1> QED
  BY <1>1, <1>3, <1>4, <1>5, <1>6, <1>7, UncountedKeeps

\* The use of an inference in JSON is counted when it is done.
LEMMA CountInferenceKeeps ==
    ASSUME StoreAssumption,
           StoreInv, NEW i \in Inferences, CountInference(i)
    PROVE  StoreInv'
<1> DEFINE asked == inference[i]
           use == [asked EXCEPT !.pc = "done"]
<1>1. /\ asked \in InferenceType /\ UseFound(asked) /\ asked.pc = "count"
      /\ UNCHANGED <<maps, resetter>> /\ count' = IncrementModelInferenceCount(asked.model)
      /\ inference' = [inference EXCEPT ![i] = use]
  BY DEF CountInference, StoreInv, StoreTypeOK, UsesFound
<1>2. asked.form = "json" /\ asked.model \in Models
  BY <1>1 DEF UseFound
<1>3. use \in InferenceType /\ UseFound(use) /\ use.model = asked.model
  BY <1>1, <1>2 DEF InferenceType, UseFound
<1>4. HasCounted(use, use.model) /\ \A m : ~HasCounted(asked, m)
  BY <1>1, <1>2 DEF HasCounted, InferenceType
<1> HIDE DEF use
<1> QED
  BY <1>1, <1>2, <1>3, <1>4, CountedKeeps

\* All steps of an inference together.
LEMMA PredictKeeps ==
    ASSUME StoreAssumption,
           StoreInv, NEW i \in Inferences, Predict(i)
    PROVE  StoreInv'
BY GetModelKeeps, RunKeeps, OutputKeeps, CountInferenceKeeps DEF Predict

(***************************************************************************)
(* The thread that resets models.                                          *)
(***************************************************************************)
LEMMA ListModelsKeeps ==
    ASSUME StoreAssumption,
           StoreInv, ListModels
    PROVE  StoreInv'
<1>1. /\ model_data' = model_data /\ prod' = prod /\ consented' = consented
      /\ count' = count /\ inference' = inference
  BY DEF ListModels, maps
<1>2. resetter' \in ResetterType /\ resetter'.pc = "take"
  BY DEF ListModels, StoreInv, StoreTypeOK, ResetterType
<1>3. \A m \in Models : Counting(m)' = Counting(m)
  BY <1>1 DEF Counting
<1> QED
  BY <1>1, <1>2, <1>3 DEF StoreInv, StoreTypeOK, StoreMapsAgree, NoUseForgotten,
     CountsWithin, UsesFound, UseFound, ResetterKnows

\* What is to be built is read under the lock.
LEMMA BeginResetKeeps ==
    ASSUME StoreAssumption,
           StoreInv, BeginReset
    PROVE  StoreInv'
<1>1. /\ model_data' = model_data /\ prod' = prod /\ consented' = consented
      /\ count' = count /\ inference' = inference
  BY DEF BeginReset, maps
<1>2. /\ resetter \in ResetterType /\ resetter.pc = "reset" /\ resetter.key \in Models
      /\ model_data[resetter.key] \in Versions \cup {None}
  BY DEF BeginReset, StoreInv, StoreTypeOK, ResetterKnows
<1>3. resetter' \in ResetterType /\ ResetterKnows'
  <2>1. CASE model_data[resetter.key] = None
    BY <1>1, <1>2, <2>1 DEF BeginReset, ResetterType, ResetterKnows
  <2>2. CASE model_data[resetter.key] # None
    <3>1. resetter' = [resetter EXCEPT !.pc = "build", !.request = model_data[resetter.key]]
      BY <2>2 DEF BeginReset
    <3> QED
      BY <1>1, <1>2, <2>2, <3>1 DEF ResetterType, ResetterKnows
  <2> QED
    BY <2>1, <2>2
<1>4. \A m \in Models : Counting(m)' = Counting(m)
  BY <1>1 DEF Counting
<1> QED
  BY <1>1, <1>3, <1>4 DEF StoreInv, StoreTypeOK, StoreMapsAgree, NoUseForgotten,
     CountsWithin, UsesFound, UseFound

\* The new copy is built of what the map of contents holds, so that the maps still
\* agree, and its users' draws are over.
LEMMA EndResetKeeps ==
    ASSUME StoreAssumption,
           StoreInv, EndReset
    PROVE  StoreInv'
<1> DEFINE m == resetter.key
<1>1. /\ inference \in [Inferences -> InferenceType]
      /\ prod \in [Models -> Versions \cup {None}] /\ resetter \in ResetterType
      /\ m \in Models /\ resetter.request = model_data[m] /\ resetter.request # None
      /\ prod[m] = model_data[m]
  BY DEF EndReset, StoreInv, StoreTypeOK, ResetterKnows, StoreMapsAgree
<1>2. /\ model_data' = model_data /\ consented' = consented /\ count' = count
      /\ prod' = [prod EXCEPT ![m] = resetter.request]
      /\ inference' = Superseded(m)
      /\ resetter' = [resetter EXCEPT !.pc = "take", !.key = None, !.request = None]
  BY DEF EndReset
<1>3. prod' = prod
  BY <1>1, <1>2
<1>4. /\ inference' \in [Inferences -> InferenceType]
      /\ \A i \in Inferences :
             /\ inference'[i].pc = inference[i].pc
             /\ inference'[i].form = inference[i].form
             /\ inference'[i].model = inference[i].model
             /\ inference'[i].copy =
                   IF inference[i].model = m /\ inference[i].copy = "prod"
                   THEN "drawn" ELSE inference[i].copy
  BY <1>1, <1>2, SupersededFields
<1>5. resetter' \in ResetterType /\ resetter'.pc = "take"
  BY <1>1, <1>2 DEF ResetterType
<1>6. StoreTypeOK'
  <2>1. StoreTypeOK
    BY DEF StoreInv
  <2>2. inference' \in [Inferences -> InferenceType]
    BY <1>4
  <2>3. /\ model_data' = model_data /\ prod' = prod /\ consented' = consented
        /\ count' = count
    BY <1>2, <1>3
  <2> QED
    BY <1>5, <2>1, <2>2, <2>3 DEF StoreTypeOK
<1>7. StoreMapsAgree' /\ ResetterKnows'
  BY <1>2, <1>3, <1>5 DEF StoreInv, StoreMapsAgree, ResetterKnows
<1>8. CountsWithin'
  <2>1. \A n \in Models : Counting(n)' = Counting(n)
    BY <1>4 DEF Counting, HasCounted
  <2> QED
    BY <1>2, <2>1 DEF StoreInv, CountsWithin
<1>9. UsesFound'
  BY <1>3, <1>4 DEF StoreInv, UsesFound, UseFound
<1>10. NoUseForgotten'
  BY <1>2, <1>4 DEF StoreInv, NoUseForgotten
<1> QED
  BY <1>6, <1>7, <1>8, <1>9, <1>10 DEF StoreInv

\* The thread takes a counter, and with it decides about every use that is in it.
LEMMA TakeCountKeeps ==
    ASSUME StoreAssumption,
           StoreInv, NEW m \in Models, TakeCount(m)
    PROVE  StoreInv'
<1> DEFINE Decided(i) == /\ count[m] \notin {0, NoCount}
                         /\ inference[i].model = m /\ inference[i].pc = "done"
                         /\ inference[i].copy = "prod"
<1>1. /\ inference \in [Inferences -> InferenceType]
      /\ count \in [Models -> 0..NoCount] /\ resetter \in ResetterType
  BY DEF StoreInv, StoreTypeOK
<1>2. /\ model_data' = model_data /\ prod' = prod /\ consented' = consented
      /\ count' = IF count[m] = NoCount THEN count ELSE [count EXCEPT ![m] = 0]
      /\ inference' = [i \in Inferences |->
             IF Decided(i) THEN [inference[i] EXCEPT !.copy = "drawn"] ELSE inference[i]]
  BY DEF TakeCount, maps
<1>3. /\ inference' \in [Inferences -> InferenceType]
      /\ \A i \in Inferences :
             /\ inference'[i].pc = inference[i].pc
             /\ inference'[i].form = inference[i].form
             /\ inference'[i].model = inference[i].model
             /\ inference'[i].copy = IF Decided(i) THEN "drawn" ELSE inference[i].copy
  BY <1>1, <1>2 DEF InferenceType
<1>4. Cardinality(Inferences) \in Nat /\ NoCount = Cardinality(Inferences) + 1
  BY Counters DEF StoreInv
<1>5. resetter' \in ResetterType /\ ResetterKnows'
  <2>1. PICK hit \in BOOLEAN :
            resetter' = [pc |-> IF hit THEN "reset" ELSE "take",
                         models |-> resetter.models \ {m},
                         key |-> IF hit THEN m ELSE None, request |-> None]
    BY DEF TakeCount
  <2> QED
    BY <1>1, <2>1 DEF ResetterType, ResetterKnows
<1>6. StoreTypeOK'
  <2>1. count' \in [Models -> 0..NoCount]
    BY <1>1, <1>2, <1>4
  <2> QED
    BY <1>2, <1>3, <1>5, <2>1 DEF StoreInv, StoreTypeOK
<1>7. StoreMapsAgree'
  BY <1>1, <1>2, <1>4 DEF StoreInv, StoreMapsAgree
<1>8. CountsWithin'
  <2> SUFFICES ASSUME NEW n \in Models, count'[n] # NoCount
               PROVE  count'[n] <= Cardinality(Counting(n)')
    BY DEF CountsWithin
  <2>1. Counting(n)' = Counting(n)
    BY <1>3 DEF Counting, HasCounted
  <2>2. Cardinality(Counting(n)) \in Nat
    BY Counters DEF StoreInv
  <2> QED
    BY <1>1, <1>2, <2>1, <2>2 DEF StoreInv, CountsWithin
<1>9. UsesFound'
  BY <1>2, <1>3 DEF StoreInv, UsesFound, UseFound
<1>10. NoUseForgotten'
  <2> SUFFICES ASSUME NEW i \in Inferences, inference'[i].pc = "done",
                      inference'[i].form = "json", inference'[i].copy = "prod"
               PROVE  count'[inference'[i].model] \in 1..Cardinality(Inferences)
    BY DEF NoUseForgotten
  <2>1. /\ inference[i].pc = "done" /\ inference[i].form = "json"
        /\ inference[i].copy = "prod" /\ ~Decided(i)
        /\ inference'[i].model = inference[i].model
    BY <1>3
  <2>2. inference[i].model \in Models
    BY <2>1 DEF StoreInv, UsesFound, UseFound
  <2>3. count[inference[i].model] \in 1..Cardinality(Inferences)
    BY <2>1 DEF StoreInv, NoUseForgotten
  <2>4. inference[i].model # m
    BY <1>4, <2>1, <2>3
  <2> QED
    BY <1>1, <1>2, <2>1, <2>2, <2>3, <2>4
<1> QED
  BY <1>5, <1>6, <1>7, <1>8, <1>9, <1>10 DEF StoreInv

\* Whatever the sidecar does by itself.
LEMMA SidecarKeeps ==
    ASSUME StoreAssumption,
           StoreInv, Sidecar
    PROVE  StoreInv'
<1>1. CASE ResetModels
  BY <1>1, ListModelsKeeps, TakeCountKeeps, BeginResetKeeps, EndResetKeeps
     DEF ResetModels
<1>2. CASE \E i \in Inferences : StartPredict(i) \/ Predict(i)
  BY <1>2, StartPredictKeeps, PredictKeeps
<1> QED
  BY <1>1, <1>2 DEF Sidecar

(***************************************************************************)
(* The fetcher.                                                            *)
(***************************************************************************)
\* A failed registration or RPC of a deletion leaves the store alone.
LEMMA StoreStays ==
    ASSUME StoreAssumption,
           StoreInv, UNCHANGED storeVars
    PROVE  StoreInv'
<1>1. /\ model_data' = model_data /\ prod' = prod /\ consented' = consented
      /\ count' = count /\ resetter' = resetter /\ inference' = inference
  BY DEF storeVars
<1>2. \A m \in Models : Counting(m)' = Counting(m)
  BY <1>1 DEF Counting
<1> QED
  BY <1>1, <1>2 DEF StoreInv, StoreTypeOK, StoreMapsAgree, NoUseForgotten,
     CountsWithin, UsesFound, UseFound, ResetterKnows

\* What MapsAgree says of the entries of the fetcher.
EntriesAgree == \A m \in Models : model_data[m] = entry[m].checksum

\* MapsAgree, as what it says of the sidecar and of the fetcher...
LEMMA MapsAgreeParts == MapsAgree <=> StoreMapsAgree /\ EntriesAgree
BY DEF MapsAgree, StoreMapsAgree, EntriesAgree

\* The fetcher's own part of the type invariant.
PollTypeOK ==
    /\ listed \in Configs /\ changes \in 0..MaxChanges /\ faults \in 0..MaxFaults
    /\ entry \in [Models -> [model_state : {"none", "ACTIVE", "IN_GRACE_PERIOD", "IN_DELETION"},
                             checksum : Versions \cup {None}]]
    /\ poll \in [pc : {"timer", "delete", "register"},
                 config : [Models -> Versions \cup {None}], todo : SUBSET Models]
    /\ grace = {m \in Models : entry[m].model_state = "IN_GRACE_PERIOD"}

\* ...and the invariant, accordingly, before and after a step.
LEMMA IInvParts ==
    /\ ModelsIInv <=> PollTypeOK /\ EntriesAgree /\ StoreInv /\ PollKnows
    /\ ModelsIInv' <=> PollTypeOK' /\ EntriesAgree' /\ StoreInv' /\ PollKnows'
BY DEF ModelsIInv, FetcherTypeOK, PollTypeOK, MapsAgree, StoreMapsAgree, EntriesAgree, StoreInv

\* Faults stay within their bound.
LEMMA FaultType ==
    ASSUME StoreAssumption, FetcherAssumption,
           PollTypeOK, Fault \/ UNCHANGED faults
    PROVE  faults' \in 0..MaxFaults
<1>1. MaxFaults \in Nat
  BY DEF FetcherAssumption
<1> QED
  BY <1>1 DEF PollTypeOK, Fault

\* DeleteModel, of a poll or at the end of a grace period: the entry goes with the
\* model, and stays with its content when the RPC fails.
LEMMA DeleteModelKeeps ==
    ASSUME StoreAssumption, FetcherAssumption,
           ModelsIInv, NEW m \in Models, DeleteModel(m)
    PROVE  /\ StoreInv' /\ EntriesAgree' /\ faults' \in 0..MaxFaults
           /\ entry' \in [Models -> [model_state : {"none", "ACTIVE", "IN_GRACE_PERIOD",
                                                    "IN_DELETION"},
                                     checksum : Versions \cup {None}]]
           /\ entry'[m].model_state # "IN_GRACE_PERIOD"
           /\ \A n \in Models \ {m} : entry'[n] = entry[n]
<1>1. PollTypeOK /\ EntriesAgree /\ StoreInv
  BY IInvParts
<1>2. entry \in [Models -> [model_state : {"none", "ACTIVE", "IN_GRACE_PERIOD", "IN_DELETION"},
                            checksum : Versions \cup {None}]]
  BY <1>1 DEF PollTypeOK
<1>3. CASE /\ DeleteFromStore(m)
           /\ entry' = [entry EXCEPT ![m] = NoEntry]
           /\ UNCHANGED faults
  <2>1. StoreInv'
    BY <1>1, <1>3, DeleteKeeps
  <2>2. model_data' = [model_data EXCEPT ![m] = None]
        /\ model_data \in [Models -> Versions \cup {None}]
    BY <1>1, <1>3 DEF DeleteFromStore, Stored, StoreInv, StoreTypeOK
  <2>3. EntriesAgree'
    BY <1>1, <1>2, <1>3, <2>2 DEF EntriesAgree, NoEntry
  <2> QED
    BY <1>1, <1>2, <1>3, <2>1, <2>3, FaultType DEF NoEntry
<1>4. CASE /\ IF Deletable(m) THEN Fault ELSE UNCHANGED faults
           /\ entry' = [entry EXCEPT ![m].model_state = "IN_DELETION"]
           /\ UNCHANGED storeVars
  <2>1. StoreInv'
    BY <1>1, <1>4, StoreStays
  <2>2. model_data' = model_data
    BY <1>4 DEF storeVars
  <2>3. EntriesAgree'
    BY <1>1, <1>2, <1>4, <2>2 DEF EntriesAgree
  <2> QED
    BY <1>1, <1>2, <1>4, <2>1, <2>3, FaultType
<1> QED
  BY <1>3, <1>4 DEF DeleteModel

\* The store and the fetcher begin empty.
LEMMA InitKeeps ==
    ASSUME StoreAssumption, FetcherAssumption
    PROVE  FetcherInit => ModelsIInv
<1> SUFFICES ASSUME FetcherInit PROVE ModelsIInv
  OBVIOUS
<1>1. /\ MaxChanges \in Nat /\ MaxFaults \in Nat
      /\ Configs \subseteq [Models -> Versions \cup {None}]
  BY DEF FetcherAssumption
<1>2. NoCount \in Nat
  BY Numbers
<1>3. StoreInv
  <2> USE DEF FetcherInit, StoreInit
  <2>1. StoreTypeOK
    BY <1>2 DEF StoreTypeOK, ResetterType, InferenceType, NoInference, Forms
  <2>2. StoreMapsAgree /\ CountsWithin /\ ResetterKnows
    BY DEF StoreMapsAgree, CountsWithin, ResetterKnows
  <2>3. UsesFound /\ NoUseForgotten
    BY DEF UsesFound, UseFound, NoUseForgotten, NoInference
  <2> QED
    BY <2>1, <2>2, <2>3 DEF StoreInv
<1>4. PollTypeOK
  BY <1>1 DEF FetcherInit, PollTypeOK, NoEntry, NoConfig
<1>5. EntriesAgree
  BY DEF FetcherInit, StoreInit, EntriesAgree, NoEntry
<1>6. PollKnows
  BY DEF FetcherInit, PollKnows
<1> QED
  BY <1>3, <1>4, <1>5, <1>6, IInvParts

\* Each step of the fetcher keeps the invariant.
LEMMA PublishKeeps ==
    ASSUME StoreAssumption, FetcherAssumption,
           ModelsIInv, Publish
    PROVE  ModelsIInv'
<1>1. PollTypeOK /\ EntriesAgree /\ StoreInv /\ PollKnows
  BY IInvParts
<1>2. StoreInv' /\ model_data' = model_data
  BY <1>1, StoreStays DEF Publish, storeVars
<1>3. MaxChanges \in Nat
  BY DEF FetcherAssumption
<1>4. PollTypeOK'
  BY <1>1, <1>3 DEF PollTypeOK, Publish
<1>5. EntriesAgree' /\ PollKnows'
  BY <1>1, <1>2 DEF EntriesAgree, PollKnows, Publish
<1> QED
  BY <1>2, <1>4, <1>5, IInvParts

\* A poll begins with deletions, which it takes from the entries.
LEMMA FetchModelConfigKeeps ==
    ASSUME StoreAssumption, FetcherAssumption,
           ModelsIInv, FetchModelConfig
    PROVE  ModelsIInv'
<1>1. PollTypeOK /\ EntriesAgree /\ StoreInv /\ PollKnows
  BY IInvParts
<1>2. StoreInv' /\ model_data' = model_data
  BY <1>1, StoreStays DEF FetchModelConfig, storeVars
<1>3. listed \in [Models -> Versions \cup {None}]
  BY <1>1 DEF FetcherAssumption, PollTypeOK
<1>4. PollTypeOK'
  BY <1>1, <1>3 DEF PollTypeOK, FetchModelConfig, GarbageCollectable
<1>5. EntriesAgree' /\ PollKnows'
  BY <1>1, <1>2 DEF EntriesAgree, PollKnows, FetchModelConfig
<1> QED
  BY <1>2, <1>4, <1>5, IInvParts

\* An entry that is no longer listed waits, is in its grace period, or goes.
LEMMA DeleteModelsKeeps ==
    ASSUME StoreAssumption, FetcherAssumption,
           ModelsIInv, NEW m \in Models, DeleteModels(m)
    PROVE  ModelsIInv'
<1>1. PollTypeOK /\ EntriesAgree /\ StoreInv /\ PollKnows
  BY IInvParts
<1>2. /\ poll.pc = "delete" /\ poll' = [poll EXCEPT !.todo = @ \ {m}]
      /\ UNCHANGED <<listed, changes>>
  BY DEF DeleteModels
<1>3. /\ poll' \in [pc : {"timer", "delete", "register"},
                    config : [Models -> Versions \cup {None}], todo : SUBSET Models]
      /\ poll'.pc = "delete"
  BY <1>1, <1>2 DEF PollTypeOK
<1>4. PollKnows'
  BY <1>3 DEF PollKnows
<1>5. CASE /\ DeletionScheduled(m)
           /\ UNCHANGED <<storeVars, entry, grace, faults>>
  <2>1. StoreInv' /\ model_data' = model_data
    BY <1>1, <1>5, StoreStays DEF storeVars
  <2>2. PollTypeOK' /\ EntriesAgree'
    BY <1>1, <1>2, <1>3, <1>5, <2>1 DEF PollTypeOK, EntriesAgree
  <2> QED
    BY <1>4, <2>1, <2>2, IInvParts
<1>6. CASE /\ ~DeletionScheduled(m) /\ HasGracePeriod(m)
           /\ entry' = [entry EXCEPT ![m].model_state = "IN_GRACE_PERIOD"]
           /\ grace' = grace \cup {m}
           /\ UNCHANGED <<storeVars, faults>>
  <2>1. StoreInv' /\ model_data' = model_data
    BY <1>1, <1>6, StoreStays DEF storeVars
  <2>2. PollTypeOK' /\ EntriesAgree'
    BY <1>1, <1>2, <1>3, <1>6, <2>1 DEF PollTypeOK, EntriesAgree
  <2> QED
    BY <1>4, <2>1, <2>2, IInvParts
<1>7. CASE /\ ~DeletionScheduled(m) /\ ~HasGracePeriod(m)
           /\ DeleteModel(m) /\ UNCHANGED grace
  <2>1. /\ StoreInv' /\ EntriesAgree' /\ faults' \in 0..MaxFaults
        /\ entry' \in [Models -> [model_state : {"none", "ACTIVE", "IN_GRACE_PERIOD",
                                                 "IN_DELETION"},
                                  checksum : Versions \cup {None}]]
        /\ entry'[m].model_state # "IN_GRACE_PERIOD"
        /\ \A n \in Models \ {m} : entry'[n] = entry[n]
    BY <1>7, DeleteModelKeeps
  <2>2. PollTypeOK'
    BY <1>1, <1>2, <1>3, <1>7, <2>1 DEF PollTypeOK, DeletionScheduled
  <2> QED
    BY <1>4, <2>1, <2>2, IInvParts
<1> QED
  BY <1>5, <1>6, <1>7 DEF DeleteModels

\* Pending models are listed and have no entry.
LEMMA FetchModelsKeeps ==
    ASSUME StoreAssumption, FetcherAssumption,
           ModelsIInv, FetchModels
    PROVE  ModelsIInv'
<1>1. PollTypeOK /\ EntriesAgree /\ StoreInv /\ PollKnows
  BY IInvParts
<1>2. StoreInv' /\ model_data' = model_data
  BY <1>1, StoreStays DEF FetchModels, storeVars
<1>3. UNCHANGED <<listed, changes, entry, grace>>
  BY DEF FetchModels
<1>4. /\ faults' \in 0..MaxFaults
      /\ \/ poll' = PollEnds
         \/ poll' = [pc |-> "register", config |-> poll.config, todo |-> PendingModels]
  BY <1>1, FaultType DEF FetchModels, PollTypeOK
<1>5. /\ PendingModels \subseteq Models
      /\ \A m \in PendingModels : poll.config[m] # None /\ entry[m] = NoEntry
  BY DEF PendingModels
<1>6. PollTypeOK'
  BY <1>1, <1>3, <1>4, <1>5 DEF PollTypeOK, PollEnds, NoConfig
<1>7. PollKnows'
  BY <1>1, <1>3, <1>4, <1>5 DEF PollTypeOK, PollKnows, PollEnds
<1>8. EntriesAgree'
  BY <1>1, <1>2, <1>3 DEF EntriesAgree
<1> QED
  BY <1>2, <1>6, <1>7, <1>8, IInvParts

\* A model enters the store and the entries with the same content, or neither.
LEMMA RegisterModelKeeps ==
    ASSUME StoreAssumption, FetcherAssumption,
           ModelsIInv, NEW m \in Models, RegisterModel(m)
    PROVE  ModelsIInv'
<1>1. PollTypeOK /\ EntriesAgree /\ StoreInv /\ PollKnows
  BY IInvParts
<1> DEFINE content == poll.config[m]
<1>2. /\ content \in Versions /\ entry[m] = NoEntry
      /\ \A n \in poll.todo : poll.config[n] # None /\ entry[n] = NoEntry
  BY <1>1 DEF RegisterModel, PollKnows, PollTypeOK
<1>3. /\ poll' = IF poll.todo = {m} THEN PollEnds ELSE [poll EXCEPT !.todo = @ \ {m}]
      /\ UNCHANGED <<listed, changes, grace>>
  BY DEF RegisterModel
<1>4. /\ poll' \in [pc : {"timer", "delete", "register"},
                    config : [Models -> Versions \cup {None}], todo : SUBSET Models]
      /\ poll'.pc = "register" => /\ poll'.config = poll.config
                                  /\ poll'.todo = poll.todo \ {m}
  BY <1>1, <1>3 DEF PollTypeOK, PollEnds, NoConfig
<1>5. CASE /\ PutModel(m, content)
           /\ entry' = [entry EXCEPT ![m] = [model_state |-> "ACTIVE", checksum |-> content]]
           /\ UNCHANGED faults
  <2>1. StoreInv'
    BY <1>1, <1>2, <1>5, PutModelKeeps
  <2>2. /\ model_data' = [model_data EXCEPT ![m] = content]
        /\ model_data \in [Models -> Versions \cup {None}]
    BY <1>1, <1>5 DEF PutModel, Stored, StoreInv, StoreTypeOK
  <2>3. EntriesAgree'
    BY <1>1, <1>5, <2>2 DEF EntriesAgree, PollTypeOK
  <2>4. PollTypeOK'
    <3>1. \A n \in Models : entry'[n].model_state = "IN_GRACE_PERIOD"
                               <=> entry[n].model_state = "IN_GRACE_PERIOD"
      BY <1>1, <1>2, <1>5 DEF PollTypeOK, NoEntry
    <3>2. entry' \in [Models -> [model_state : {"none", "ACTIVE", "IN_GRACE_PERIOD",
                                                "IN_DELETION"},
                                 checksum : Versions \cup {None}]]
      BY <1>1, <1>2, <1>5 DEF PollTypeOK
    <3> QED
      BY <1>1, <1>3, <1>4, <1>5, <3>1, <3>2 DEF PollTypeOK
  <2>5. PollKnows'
    BY <1>1, <1>2, <1>4, <1>5 DEF PollKnows, PollTypeOK
  <2> QED
    BY <2>1, <2>3, <2>4, <2>5, IInvParts
<1>6. CASE /\ IF Registrable(m) THEN Fault ELSE UNCHANGED faults
           /\ UNCHANGED <<storeVars, entry>>
  <2>1. StoreInv' /\ model_data' = model_data
    BY <1>1, <1>6, StoreStays DEF storeVars
  <2>2. faults' \in 0..MaxFaults
    BY <1>1, <1>6, FaultType
  <2>3. PollTypeOK' /\ EntriesAgree'
    BY <1>1, <1>3, <1>4, <1>6, <2>1, <2>2 DEF PollTypeOK, EntriesAgree
  <2>4. PollKnows'
    BY <1>1, <1>2, <1>4, <1>6 DEF PollKnows
  <2> QED
    BY <2>1, <2>3, <2>4, IInvParts
<1> QED
  BY <1>5, <1>6 DEF RegisterModel

\* The end of a grace period finds no poll at work.
LEMMA GracePeriodEndsKeeps ==
    ASSUME StoreAssumption, FetcherAssumption,
           ModelsIInv, NEW m \in Models, GracePeriodEnds(m)
    PROVE  ModelsIInv'
<1>1. PollTypeOK /\ EntriesAgree /\ StoreInv /\ PollKnows
  BY IInvParts
<1>2. /\ m \in grace /\ poll.pc = "timer" /\ DeleteModel(m)
      /\ grace' = grace \ {m} /\ UNCHANGED <<listed, changes, poll>>
  BY DEF GracePeriodEnds
<1>3. /\ StoreInv' /\ EntriesAgree' /\ faults' \in 0..MaxFaults
      /\ entry' \in [Models -> [model_state : {"none", "ACTIVE", "IN_GRACE_PERIOD",
                                               "IN_DELETION"},
                                checksum : Versions \cup {None}]]
      /\ entry'[m].model_state # "IN_GRACE_PERIOD"
      /\ \A n \in Models \ {m} : entry'[n] = entry[n]
  BY <1>2, DeleteModelKeeps
<1>4. PollTypeOK' /\ PollKnows'
  BY <1>1, <1>2, <1>3 DEF PollTypeOK, PollKnows
<1> QED
  BY <1>3, <1>4, IInvParts

\* The sidecar moves the maps' contents nowhere by itself.
LEMMA SidecarStepKeeps ==
    ASSUME StoreAssumption, FetcherAssumption,
           ModelsIInv, Sidecar, UNCHANGED fetcherVars
    PROVE  ModelsIInv'
<1>1. PollTypeOK /\ EntriesAgree /\ StoreInv /\ PollKnows
  BY IInvParts
<1>2. StoreInv'
  BY <1>1, SidecarKeeps
<1>3. model_data' = model_data
  BY DEF Sidecar, ResetModels, ListModels, TakeCount, BeginReset, EndReset, StartPredict,
         Predict, GetModel, Run, Output, CountInference, maps
<1>4. PollTypeOK' /\ EntriesAgree' /\ PollKnows'
  BY <1>1, <1>3 DEF PollTypeOK, EntriesAgree, PollKnows, fetcherVars
<1> QED
  BY <1>2, <1>4, IInvParts

\* Every step of the fetcher and of the sidecar keeps the invariant.
LEMMA ModelsNextKeeps ==
    ASSUME StoreAssumption, FetcherAssumption, ModelsIInv, [FetcherNext]_modelVars
    PROVE  ModelsIInv'
<1>1. CASE Publish
  BY <1>1, PublishKeeps
<1>2. CASE Poll
  BY <1>2, FetchModelConfigKeeps, FetchModelsKeeps, DeleteModelsKeeps,
     RegisterModelKeeps DEF Poll
<1>3. CASE \E m \in Models : GracePeriodEnds(m)
  BY <1>3, GracePeriodEndsKeeps
<1>4. CASE Sidecar /\ UNCHANGED fetcherVars
  BY <1>4, SidecarStepKeeps
<1>5. CASE UNCHANGED modelVars
  <2>1. StoreInv'
    BY <1>5, IInvParts, StoreStays DEF modelVars
  <2>2. PollTypeOK' /\ EntriesAgree' /\ PollKnows'
    BY <1>5, IInvParts DEF modelVars, storeVars, PollTypeOK, EntriesAgree, PollKnows
  <2> QED
    BY <2>1, <2>2, IInvParts
<1> QED
  BY <1>1, <1>2, <1>3, <1>4, <1>5 DEF FetcherNext

(***************************************************************************)
(* The theorems.                                                           *)
(***************************************************************************)
\* In every reachable state the maps of the sidecar, its counters and the entries of
\* the fetcher agree, and what a thread remembers between two sections of a lock is
\* still true (PeriodicModelFetcher, ModelStore, PerModelResetModels).
THEOREM ModelsInductiveInvariant ==
    ASSUME StoreAssumption, FetcherAssumption
    PROVE  FetcherSpec => []ModelsIInv
<1>1. FetcherInit => ModelsIInv
  BY InitKeeps
<1>2. ModelsIInv /\ [FetcherNext]_modelVars => ModelsIInv'
  BY ModelsNextKeeps
<1> QED
  BY <1>1, <1>2, PTL DEF FetcherSpec

\* Counters, maps, entries and the poll have their types; in particular no counter
\* outgrows the number of inferences, and the grace periods that run are those of the
\* entries that say so.
THEOREM ModelsTypeCorrect ==
    ASSUME StoreAssumption, FetcherAssumption
    PROVE  FetcherSpec => []FetcherTypeOK
<1>1. ModelsIInv => FetcherTypeOK
  BY DEF ModelsIInv
<1> QED
  BY <1>1, ModelsInductiveInvariant, PTL

\* The maps of the sidecar hold the same models of the same content, which the
\* fetcher's entries say, whichever of polls, ends of grace periods, failing RPCs and
\* resets meet (RegisterModel, DeleteModel, ResetModel).
THEOREM MapsAlwaysAgree ==
    ASSUME StoreAssumption, FetcherAssumption
    PROVE  FetcherSpec => []MapsAgree
<1>1. ModelsIInv => MapsAgree
  BY DEF ModelsIInv
<1> QED
  BY <1>1, ModelsInductiveInvariant, PTL

\* A use of a production copy is in the count that the reset thread will take until
\* that thread has decided about it or the copy is gone (IncrementModelInferenceCount,
\* PerModelResetModels).
THEOREM UsesAreRemembered ==
    ASSUME StoreAssumption, FetcherAssumption
    PROVE  FetcherSpec => []NoUseForgotten
<1>1. ModelsIInv => NoUseForgotten
  BY DEF ModelsIInv, StoreInv
<1> QED
  BY <1>1, ModelsInductiveInvariant, PTL

-----------------------------------------------------------------------------
(* The inductive invariant of runInference().                                *)

Lists == {MalformedBatch} \cup Seq(InferenceRequests)
Contexts == {"none", "open", "cancelled", "plain"}
ServerStates == {"none", "enter", "tasks", "finished", "aborted"}

Shape ==
    /\ conf \in Sidecars /\ is_cancelled \in BOOLEAN /\ canceller \in 0..2
    /\ client \in [ScriptCalls -> [pc : ClientStates, batch : Lists, ok : BOOLEAN]]
    /\ client_contexts \in [ScriptCalls -> Contexts]
    /\ server = [c \in ScriptCalls |-> server[c]]
    /\ \A c \in ScriptCalls :
           /\ server[c] = [pc |-> server[c].pc, tasks |-> server[c].tasks,
                           response |-> server[c].response]
           /\ server[c].pc \in ServerStates
    /\ answers = [c \in ScriptCalls |-> answers[c]]

\* A context is cancelled, and TryCancelAll done with its first step, only once no call
\* can get a context of the manager any more; and a call that has one has no other.
Cancellation ==
    /\ canceller > 0 => is_cancelled
    /\ \A c \in ScriptCalls :
           /\ client_contexts[c] = "cancelled" => is_cancelled
           /\ canceller = 2 => client_contexts[c] # "open"
           /\ client_contexts[c] = "plain" => ~HasManager(c)

\* Where the two ends of a call can be at once. Predict goes on alone only after the
\* client has given up.
CallStages(c) ==
    /\ client_contexts[c] = "none" <=> server[c] = NoServer
    /\ server[c].pc = "none" => server[c] = NoServer
    /\ client[c].pc \in {"absent", "none", "parsed"} => server[c] = NoServer
    /\ client[c].pc \in {"waiting", "replied"} => server[c] # NoServer
    /\ client[c].pc \in {"replied", "done"} /\ client[c].ok =>
           server[c].pc \in {"none", "finished"}
    /\ client[c].pc \in {"absent", "none", "parsed", "waiting"} => client[c].ok
    /\ client[c].pc \in {"parsed", "waiting", "replied"} /\ conf.proto =>
           ~Malformed(client[c].batch)
    /\ client[c].pc # "done" => answers[c] = NoOutput

\* The inferences that can be parsed.
Readable(list) == {k \in DOMAIN list : ParseInternal(list[k])}

\* Where an inference is among those that the module is given.
Place(k, list) == IF conf.proto THEN Rank(k, Readable(list)) ELSE k
GivenIn(list) == IF conf.proto THEN Readable(list) ELSE DOMAIN list

\* What the task of an inference may have come to.
TaskFits(r, s) ==
    \/ s = "INPUT_PARSING" /\ ~ParseInternal(r)
    \/ s = "MODEL_NOT_FOUND" /\ ParseInternal(r) /\ r.model_path \notin RegisteredModels
    \/ /\ ParseInternal(r) /\ r.model_path \in RegisteredModels
       /\ \/ s \in {"running", Predicted(r)}
          \/ conf.atSidecar /\ is_cancelled /\ s = "MODEL_EXECUTION"

\* AnswersMatchInferences of one call.
Matches(list, output) ==
    \/ /\ ~Malformed(list) /\ Len(output) = Len(list)
       /\ \A k \in DOMAIN list : Fits(list[k], output[k])
    \/ /\ Len(output) = 1 /\ output[1].model_path = NoPath
       /\ Excused(list, output[1].error)

\* ConvertProtoToJson of one answer.
Written(a) == IF a.tensors # <<>> THEN [a EXCEPT !.error = ""] ELSE a

\* What the sidecar may reply: in protocol buffers an answer for each of the inferences
\* that were sent.
ReplyFits(list, response) ==
    IF conf.proto
    THEN /\ ~Malformed(list) /\ Len(response) = Cardinality(Readable(list))
         /\ \A k \in Readable(list) :
                Fits(list[k], Written(response[Rank(k, Readable(list))]))
    ELSE Matches(list, response)

Reads == ~(conf.proto /\ conf.module = "pytorch")

\* The work of the sidecar for a client that still waits for it, or has taken its reply.
Served(c) ==
    Reads /\ client[c].ok =>
        /\ server[c].pc = "tasks" =>
               /\ ~Malformed(client[c].batch)
               /\ DOMAIN server[c].tasks = DOMAIN Requests(c)
               /\ \A k \in GivenIn(client[c].batch) :
                      TaskFits(client[c].batch[k], server[c].tasks[Place(k, client[c].batch)])
        /\ server[c].pc = "finished" => ReplyFits(client[c].batch, server[c].response)

AnswersFit(c) == client[c].pc = "done" /\ Reads => Matches(client[c].batch, answers[c])

ScriptCallInv(c) == CallStages(c) /\ Served(c) /\ AnswersFit(c)

BatchIInv == Shape /\ Cancellation /\ \A c \in ScriptCalls : ScriptCallInv(c)

-----------------------------------------------------------------------------
(* The elements that a loop keeps.                                           *)

\* An interval of numbers has one length.
LEMMA SameLength ==
    ASSUME NEW m \in Nat, NEW n \in Nat, 1..m = 1..n PROVE m = n
<1>1. Cardinality(1..m) = m /\ Cardinality(1..n) = n
  BY UpTo
<1> QED
  BY <1>1

\* A function on the first n numbers is a sequence of length n.
LEMMA LengthOf ==
    ASSUME NEW n \in Nat, NEW S, NEW f \in [1..n -> S]
    PROVE  f \in Seq(S) /\ Len(f) = n /\ DOMAIN f = 1..n
<1>1. f \in Seq(S)
  BY SeqDef
<1>2. Len(f) \in Nat /\ DOMAIN f = 1..Len(f)
  BY <1>1, LenProperties
<1>3. DOMAIN f = 1..n
  OBVIOUS
<1>4. Len(f) = n
  BY <1>2, <1>3, SameLength
<1> QED
  BY <1>1, <1>3, <1>4

\* The rank of a position among those that are kept is one of the first numbers, and
\* later positions have higher ranks.
LEMMA RankOf ==
    ASSUME NEW n \in Nat, NEW S \in SUBSET (1..n), NEW k \in S
    PROVE  /\ Rank(k, S) \in 1..Cardinality(S)
           /\ \A l \in S : l < k => Rank(l, S) < Rank(k, S)
<1> DEFINE below(m) == {j \in 1..m : j \in S}
<1>1. IsFiniteSet(S) /\ Cardinality(S) \in Nat
  BY UpTo
<1>2. ASSUME NEW m \in S
      PROVE  below(m) \in SUBSET S /\ m \in below(m)
  <2>1. m \in Nat /\ m >= 1
    OBVIOUS
  <2> QED
    BY <2>1
<1>3. ASSUME NEW m \in S
      PROVE  /\ IsFiniteSet(below(m)) /\ Cardinality(below(m)) \in Nat
             /\ Cardinality(below(m)) <= Cardinality(S)
             /\ Cardinality(below(m)) # 0
  <2>1. below(m) \in SUBSET S /\ below(m) # {}
    BY <1>2
  <2> HIDE DEF below
  <2> QED
    BY <1>1, <2>1, FS_Subset, FiniteSubset
<1>4. ASSUME NEW l \in S, l < k
      PROVE  Cardinality(below(l)) < Cardinality(below(k))
  <2>1. below(l) \cup {k} \in SUBSET below(k)
    BY <1>4
  <2>2. k \notin below(l)
    BY <1>4
  <2> HIDE DEF below
  <2>3. IsFiniteSet(below(l)) /\ Cardinality(below(l)) \in Nat
    BY <1>3
  <2>4. Cardinality(below(l) \cup {k}) = Cardinality(below(l)) + 1
    BY <2>2, <2>3, FS_AddElement
  <2>5. IsFiniteSet(below(k)) /\ Cardinality(below(k)) \in Nat
    BY <1>3
  <2>6. Cardinality(below(l) \cup {k}) <= Cardinality(below(k))
    BY <2>1, <2>5, FS_Subset
  <2> QED
    BY <2>3, <2>4, <2>5, <2>6
<1>5. \A m : Rank(m, S) = Cardinality(below(m))
  BY DEF Rank
<1> HIDE DEF below
<1>6. /\ Rank(k, S) \in Nat /\ Rank(k, S) # 0
      /\ Rank(k, S) <= Cardinality(S)
  BY <1>3, <1>5
<1>7. \A l \in S : l < k => Rank(l, S) < Rank(k, S)
  BY <1>4, <1>5
<1> QED
  BY <1>1, <1>6, <1>7

\* Each of the elements that are kept is found at its rank.
LEMMA KeptAtRank ==
    ASSUME NEW n \in Nat, NEW S \in SUBSET (1..n), NEW k \in S, NEW seq
    PROVE  Rank(k, S) \in DOMAIN Kept(seq, S) /\ Kept(seq, S)[Rank(k, S)] = seq[k]
<1>1. Rank(k, S) \in 1..Cardinality(S)
  BY RankOf
<1>2. ASSUME NEW l \in S, Rank(l, S) = Rank(k, S) PROVE l = k
  <2>1. k \in Nat /\ l \in Nat
    OBVIOUS
  <2>2. Cardinality(S) \in Nat
    BY UpTo
  <2>3. Rank(k, S) \in Nat
    BY <1>1, <2>2
  <2>4. CASE l < k
    <3>1. Rank(l, S) < Rank(k, S)
      BY <2>4, RankOf
    <3> QED
      BY <1>2, <2>3, <3>1
  <2>5. CASE k < l
    <3>1. Rank(k, S) < Rank(l, S)
      BY <2>5, RankOf
    <3> QED
      BY <1>2, <2>3, <3>1
  <2> QED
    BY <2>1, <2>4, <2>5
<1>3. (CHOOSE l \in S : Rank(l, S) = Rank(k, S)) = k
  BY <1>2
<1> QED
  BY <1>1, <1>3 DEF Kept

\* Nothing is lost when all is kept, and nothing kept of nothing.
LEMMA KeptAll ==
    ASSUME NEW T, NEW seq \in Seq(T) PROVE Kept(seq, DOMAIN seq) = seq
<1> DEFINE n == Len(seq)
<1>1. n \in Nat /\ DOMAIN seq = 1..n /\ seq \in [1..n -> T]
  BY LenProperties
<1>2. ASSUME NEW k \in 1..n PROVE Rank(k, 1..n) = k
  <2>1. k \in Nat /\ {j \in 1..k : j \in 1..n} = 1..k
    BY <1>1
  <2>2. Cardinality(1..k) = k
    BY <2>1, UpTo
  <2> QED
    BY <2>1, <2>2 DEF Rank
<1>3. Cardinality(1..n) = n
  BY <1>1, UpTo
<1> HIDE DEF n
<1>4. ASSUME NEW k \in 1..n PROVE Kept(seq, 1..n)[k] = seq[k]
  <2>1. \A S \in SUBSET (1..n) : k \in S => Kept(seq, S)[Rank(k, S)] = seq[k]
    BY <1>1, KeptAtRank
  <2>2. Kept(seq, 1..n)[Rank(k, 1..n)] = seq[k]
    BY <2>1
  <2> QED
    BY <1>2, <2>2
<1>5. Kept(seq, 1..n) = [k \in 1..n |-> Kept(seq, 1..n)[k]]
  BY <1>3 DEF Kept
<1> QED
  BY <1>1, <1>4, <1>5

\* An answer without outputs has no tensors either.
LEMMA KeptNone == ConvertTensorToProto(<<>>) = <<>>
<1>1. <<>> \in Seq({}) /\ DOMAIN <<>> = {}
  OBVIOUS
<1>2. Kept(<<>>, DOMAIN <<>>) = <<>>
  BY <1>1, KeptAll
<1>3. {k \in DOMAIN <<>> : <<>>[k] \in OutputTypes} = DOMAIN <<>>
  BY <1>1
<1> QED
  BY <1>2, <1>3 DEF ConvertTensorToProto

\* An answer whose outputs can all be expressed has all of them.
LEMMA ExpressedInFull ==
    ASSUME NEW r \in InferenceRequests, Expressible(r)
    PROVE  ConvertTensorToProto(r.outputs) = r.outputs
<1>1. r.outputs \in Seq(STRING)
  BY DEF InferenceRequests
<1>2. \A k \in DOMAIN r.outputs : r.outputs[k] \in OutputTypes
  BY DEF Expressible, Range
<1>3. {k \in DOMAIN r.outputs : r.outputs[k] \in OutputTypes} = DOMAIN r.outputs
  BY <1>2
<1> QED
  BY <1>1, <1>3, KeptAll DEF ConvertTensorToProto

-----------------------------------------------------------------------------
(* What one answer is held against does not change.                          *)

\* The deployment decides what can be parsed and what a model makes of it.
LEMMA SameReading ==
    ASSUME UNCHANGED conf, NEW r
    PROVE  ParseInternal(r)' = ParseInternal(r) /\ Predicted(r)' = Predicted(r)
<1>1. ParseInternal(r)' = ParseInternal(r)
  BY DEF ParseInternal
<1>2. PredictPerModel(r)' = PredictPerModel(r)
  BY DEF PredictPerModel
<1> QED
  BY <1>1, <1>2 DEF Predicted

\* An answer that fits still does when the request is cancelled.
LEMMA FitsStays ==
    ASSUME UNCHANGED conf, is_cancelled => is_cancelled', NEW r, NEW a, Fits(r, a)
    PROVE  Fits(r, a)'
BY SameReading DEF Fits

\* The inferences that are given to the module stay the same.
LEMMA SameBatch ==
    ASSUME UNCHANGED conf, NEW list
    PROVE  /\ Readable(list)' = Readable(list)
           /\ Parsed(list)' = Parsed(list)
           /\ GivenIn(list)' = GivenIn(list)
           /\ \A k : Place(k, list)' = Place(k, list)
<1>1. \A r : ParseInternal(r)' = ParseInternal(r)
  BY SameReading
<1>2. Readable(list)' = Readable(list)
  BY <1>1 DEF Readable
<1>3. Parsed(list)' = Parsed(list)
  BY <1>1 DEF Parsed
<1> QED
  BY <1>2, <1>3 DEF GivenIn, Place

\* One error for all stays excused, and answers in their places stay so.
LEMMA MatchesStays ==
    ASSUME UNCHANGED conf, is_cancelled => is_cancelled', NEW list, NEW output,
           Matches(list, output)
    PROVE  Matches(list, output)'
<1>1. \A r : ParseInternal(r)' = ParseInternal(r) /\ Predicted(r)' = Predicted(r)
  BY SameReading
<1>2. Parsed(list)' = Parsed(list)
  BY SameBatch
<1>3. ASSUME NEW e, Excused(list, e) PROVE Excused(list, e)'
  BY <1>1, <1>2, <1>3 DEF Excused
<1>4. \A r, a : Fits(r, a) => Fits(r, a)'
  BY FitsStays
<1> QED
  BY <1>3, <1>4 DEF Matches

\* Nor is what a task has come to held against anything else later.
LEMMA TaskFitsStays ==
    ASSUME UNCHANGED conf, is_cancelled => is_cancelled', NEW r, NEW s, TaskFits(r, s)
    PROVE  TaskFits(r, s)'
BY SameReading DEF TaskFits

\* The same for a reply of the sidecar as a whole.
LEMMA ReplyFitsStays ==
    ASSUME UNCHANGED conf, is_cancelled => is_cancelled', NEW list, NEW response,
           ReplyFits(list, response)
    PROVE  ReplyFits(list, response)'
<1>1. Readable(list)' = Readable(list)
  BY SameBatch
<1>2. \A r, a : Fits(r, a) => Fits(r, a)'
  BY FitsStays
<1>3. Matches(list, response) => Matches(list, response)'
  BY MatchesStays
<1> QED
  BY <1>1, <1>2, <1>3 DEF ReplyFits

\* A step leaves a call alone that it does not touch; TryCancelAll touches contexts.
LEMMA UntouchedCallKeeps ==
    ASSUME UNCHANGED conf, is_cancelled => is_cancelled', NEW c \in ScriptCalls, ScriptCallInv(c),
           client'[c] = client[c], server'[c] = server[c], answers'[c] = answers[c],
           client_contexts'[c] = "none" <=> client_contexts[c] = "none"
    PROVE  ScriptCallInv(c)'
<1> DEFINE list == client[c].batch
<1>1. CallStages(c)'
  BY DEF ScriptCallInv, CallStages
<1>2. AnswersFit(c)'
  <2>1. \A b, o : Matches(b, o) => Matches(b, o)'
    BY MatchesStays
  <2> QED
    BY <2>1 DEF ScriptCallInv, AnswersFit, Reads
<1>3. Served(c)'
  <2>1. /\ \A b, o : ReplyFits(b, o) => ReplyFits(b, o)'
        /\ \A r, s : TaskFits(r, s) => TaskFits(r, s)'
    BY ReplyFitsStays, TaskFitsStays
  <2>2. \A b : /\ Parsed(b)' = Parsed(b) /\ GivenIn(b)' = GivenIn(b)
               /\ \A k : Place(k, b)' = Place(k, b)
    BY SameBatch
  <2>3. Requests(c)' = Requests(c)
    BY <2>2 DEF Requests
  <2> QED
    BY <2>1, <2>2, <2>3 DEF ScriptCallInv, Served, Reads
<1> QED
  BY <1>1, <1>2, <1>3 DEF ScriptCallInv

-----------------------------------------------------------------------------
(* What is answered fits.                                                    *)

\* One error for all is an answer where it is excused.
LEMMA ErrorMatches ==
    ASSUME NEW list, NEW error, Excused(list, error)
    PROVE  Matches(list, CreateBatchErrorString(error))
<1>1. CreateBatchErrorString(error) = <<Answer(NoPath, <<>>, error)>>
  BY DEF CreateBatchErrorString
<1>2. /\ Len(CreateBatchErrorString(error)) = 1
      /\ CreateBatchErrorString(error)[1] = Answer(NoPath, <<>>, error)
  BY <1>1
<1> QED
  BY <1>2 DEF Matches, Answer

\* A model's task ends in one of three ways.
LEMMA Results ==
    ASSUME NEW r PROVE Predicted(r) \in {"INPUT_PARSING", "MODEL_EXECUTION", "ok"}
<1>1. /\ PredictPerModel(r) \in {"INPUT_PARSING", "MODEL_EXECUTION", "ok"}
      /\ PredictInternal(r) \in {"INPUT_PARSING", "MODEL_EXECUTION", "ok"}
  BY Zenon DEF PredictPerModel, PredictInternal
<1> QED
  BY <1>1 DEF Predicted

\* A task that has failed is reported with its error and no outputs.
LEMMA ErrorFits ==
    ASSUME NEW r, NEW s, TaskFits(r, s), s # "running", s # "ok"
    PROVE  Fits(r, Answer(r.model_path, <<>>, s))
<1> DEFINE a == Answer(r.model_path, <<>>, s)
<1>1. a.model_path = r.model_path /\ a.tensors = <<>> /\ a.error = s
  BY DEF Answer
<1>2. Predicted(r) \in {"INPUT_PARSING", "MODEL_EXECUTION", "ok"}
  BY Results
<1> HIDE DEF a
<1> SUFFICES Fits(r, a)
  BY DEF a
<1>3. CASE ~ParseInternal(r)
  BY <1>1, <1>3 DEF TaskFits, Fits
<1>4. CASE ParseInternal(r) /\ r.model_path \notin RegisteredModels
  BY <1>1, <1>4 DEF TaskFits, Fits
<1>5. CASE ParseInternal(r) /\ r.model_path \in RegisteredModels
  <2>1. \/ s = Predicted(r)
        \/ conf.atSidecar /\ is_cancelled /\ s = "MODEL_EXECUTION"
    BY <1>5 DEF TaskFits
  <2> QED
    BY <1>1, <1>2, <1>5, <2>1 DEF Fits
<1> QED
  BY <1>3, <1>4, <1>5

\* A task that went well has parsed its inference and run its model.
LEMMA OkRan ==
    ASSUME NEW r, TaskFits(r, "ok")
    PROVE  ParseInternal(r) /\ r.model_path \in RegisteredModels /\ Predicted(r) = "ok"
BY DEF TaskFits

\* Its outputs are written in full where all of them can be.
LEMMA OutputsFit ==
    ASSUME NEW r \in InferenceRequests, TaskFits(r, "ok"), Expressible(r)
    PROVE  Fits(r, Answer(r.model_path, r.outputs, ""))
BY OkRan DEF Fits, Answer

\* In protocol buffers what cannot be expressed is left out, and the error is written
\* only when there is nothing else.
LEMMA ProtoAnswerFits ==
    ASSUME conf.proto, NEW r \in InferenceRequests, NEW s, TaskFits(r, s), s # "running"
    PROVE  Fits(r, Written(Answer(
               r.model_path,
               ConvertTensorToProto(IF s = "ok" THEN r.outputs ELSE <<>>),
               IF s # "ok" THEN s ELSE IF ~Expressible(r) THEN "OUTPUT_PARSING" ELSE "")))
<1>1. CASE s # "ok"
  <2>1. ConvertTensorToProto(IF s = "ok" THEN r.outputs ELSE <<>>) = <<>>
    BY <1>1, KeptNone
  <2>2. Fits(r, Answer(r.model_path, <<>>, s))
    BY <1>1, ErrorFits
  <2>3. Written(Answer(r.model_path, <<>>, s)) = Answer(r.model_path, <<>>, s)
    BY DEF Written, Answer
  <2> QED
    BY <1>1, <2>1, <2>2, <2>3
<1>2. CASE s = "ok" /\ Expressible(r)
  <2>1. ConvertTensorToProto(r.outputs) = r.outputs
    BY <1>2, ExpressedInFull
  <2>2. Fits(r, Answer(r.model_path, r.outputs, ""))
    BY <1>2, OutputsFit
  <2>3. Written(Answer(r.model_path, r.outputs, "")) = Answer(r.model_path, r.outputs, "")
    BY DEF Written, Answer
  <2> QED
    BY <1>2, <2>1, <2>2, <2>3
<1>3. CASE s = "ok" /\ ~Expressible(r)
  <2> DEFINE t == ConvertTensorToProto(r.outputs)
             a == Answer(r.model_path, t, "OUTPUT_PARSING")
  <2>1. /\ Written(a).model_path = r.model_path /\ Written(a).tensors = t
        /\ Written(a).error = IF t = <<>> THEN "OUTPUT_PARSING" ELSE ""
    <3> HIDE DEF t
    <3> QED
      BY DEF Written, Answer
  <2>2. ParseInternal(r) /\ r.model_path \in RegisteredModels /\ Predicted(r) = "ok"
    BY <1>3, OkRan
  <2>3. Fits(r, Written(a))
    <3> HIDE DEF a
    <3> QED
      BY <1>3, <2>1, <2>2 DEF Fits
  <2> QED
    BY <1>3, <2>3
<1> QED
  BY <1>1, <1>2, <1>3

\* The answers of the sidecar and the errors that were kept aside come back in the
\* places of their inferences.
LEMMA MergeMatches ==
    ASSUME conf.proto, NEW list \in Seq(InferenceRequests), NEW response,
           ReplyFits(list, response)
    PROVE  Matches(list, ConvertProtoToJson(
                              MergeBatchResponse(response, ParsingErrors(list))))
<1> DEFINE n == Len(list)
           G == Readable(list)
           E == ParsingErrors(list)
           D == DOMAIN E
           M == MergeBatchResponse(response, E)
           O == ConvertProtoToJson(M)
<1>1. n \in Nat /\ DOMAIN list = 1..n
  BY LenProperties
<1>2. G \in SUBSET (1..n) /\ D = (1..n) \ G
  BY <1>1 DEF Readable, ParsingErrors
<1>3. \A k \in D : E[k] = ErrorFor(list[k], "INPUT_PARSING")
  BY DEF ParsingErrors
<1>4. /\ ~Malformed(list) /\ Len(response) = Cardinality(G)
      /\ \A k \in G : Fits(list[k], Written(response[Rank(k, G)]))
  BY DEF ReplyFits
<1>5. \A k \in D : ~ParseInternal(list[k])
  BY DEF ParsingErrors
<1> HIDE DEF G, E, n
<1>6. Cardinality(G) + Cardinality(D) = n
  <2>1. /\ IsFiniteSet(1..n) /\ Cardinality(1..n) = n /\ Cardinality(G) \in Nat
    BY <1>1, <1>2, UpTo
  <2>2. (1..n) \cap G = G
    BY <1>2
  <2>3. Cardinality((1..n) \ G) = Cardinality(1..n) - Cardinality((1..n) \cap G)
    BY <2>1, FS_Difference
  <2>4. Cardinality(D) = n - Cardinality(G)
    BY <1>2, <2>1, <2>2, <2>3
  <2> QED
    BY <1>1, <2>1, <2>4
<1>7. M = [k \in 1..n |-> IF k \in D THEN E[k] ELSE response[Rank(k, G)]]
  <2>1. ~\E k \in D : k > n
    BY <1>1, <1>2
  <2>2. Len(response) + Cardinality(D) = n
    BY <1>4, <1>6
  <2>3. ASSUME NEW k \in 1..n
        PROVE  Cardinality({j \in 1..k : j \notin D}) = Rank(k, G)
    <3>1. {j \in 1..k : j \notin D} = {j \in 1..k : j \in G}
      BY <1>1, <1>2
    <3> QED
      BY <3>1 DEF Rank
  <2>4. M = [k \in 1..n |-> IF k \in D THEN E[k]
                            ELSE response[Cardinality({j \in 1..k : j \notin D})]]
    BY <2>1, <2>2 DEF MergeBatchResponse
  <2> QED
    BY <2>3, <2>4
<1> HIDE DEF M
<1>8. O = [k \in 1..n |-> Written(M[k])]
  BY <1>7 DEF ConvertProtoToJson, Written
<1>9. ASSUME NEW k \in 1..n PROVE Fits(list[k], O[k])
  <2>1. CASE k \in D
    <3> DEFINE a == Answer(list[k].model_path, <<>>, "INPUT_PARSING")
    <3>a. M[k] = a
      BY <1>3, <1>7, <2>1 DEF ErrorFor
    <3>b. Written(a) = a
      BY DEF Written, Answer
    <3>1. O[k] = a
      BY <1>8, <3>a, <3>b
    <3>2. TaskFits(list[k], "INPUT_PARSING")
      BY <1>5, <2>1 DEF TaskFits
    <3> QED
      BY <3>1, <3>2, ErrorFits
  <2>2. CASE k \notin D
    <3>1. k \in G
      BY <1>2, <2>2
    <3> QED
      BY <1>4, <1>7, <1>8, <2>2, <3>1
  <2> QED
    BY <2>1, <2>2
<1>10. Len(O) = n
  <2>1. O \in [1..n -> {Written(M[k]) : k \in 1..n}]
    BY <1>8
  <2> HIDE DEF O
  <2> QED
    BY <1>1, <2>1, LengthOf
<1> QED
  BY <1>1, <1>4, <1>9, <1>10 DEF Matches, n, M, E

-----------------------------------------------------------------------------
(* The steps of a call.                                                      *)

\* What a step on one call has to show: it keeps that call, and the rest as it was.
LEMMA CallStep ==
    ASSUME BatchIInv, NEW c \in ScriptCalls, Shape', ScriptCallInv(c)',
           UNCHANGED <<conf, is_cancelled, canceller>>,
           \/ client_contexts'[c] = client_contexts[c]
           \/ client_contexts'[c] = "open" /\ ~is_cancelled
           \/ client_contexts'[c] = "plain" /\ ~HasManager(c),
           \A d \in ScriptCalls \ {c} :
               /\ client'[d] = client[d] /\ server'[d] = server[d]
               /\ answers'[d] = answers[d] /\ client_contexts'[d] = client_contexts[d]
    PROVE  BatchIInv'
<1>1. ASSUME NEW d \in ScriptCalls PROVE ScriptCallInv(d)'
  <2>1. CASE d = c
    BY <2>1
  <2>2. CASE d # c
    BY <2>2, UntouchedCallKeeps DEF BatchIInv
  <2> QED
    BY <2>1, <2>2
<1>2. Cancellation'
  <2>1. canceller \in 0..2 /\ (canceller > 0 => is_cancelled)
    BY DEF BatchIInv, Shape, Cancellation
  <2>2. ASSUME NEW d \in ScriptCalls
        PROVE  /\ client_contexts'[d] = "cancelled" => is_cancelled
               /\ canceller = 2 => client_contexts'[d] # "open"
               /\ client_contexts'[d] = "plain" => ~HasManager(d)
    <3>1. CASE d = c
      BY <2>1, <3>1 DEF BatchIInv, Cancellation
    <3>2. CASE d # c
      BY <3>2 DEF BatchIInv, Cancellation
    <3> QED
      BY <3>1, <3>2
  <2> QED
    BY <2>1, <2>2 DEF Cancellation
<1> QED
  BY <1>1, <1>2 DEF BatchIInv

\* The fields of the two ends of a call.
LEMMA CallFields ==
    ASSUME BatchIInv, NEW c \in ScriptCalls
    PROVE  /\ client \in [ScriptCalls -> [pc : ClientStates, batch : Lists, ok : BOOLEAN]]
           /\ client[c] \in [pc : ClientStates, batch : Lists, ok : BOOLEAN]
           /\ DOMAIN server = ScriptCalls /\ DOMAIN answers = ScriptCalls
           /\ DOMAIN client_contexts = ScriptCalls
           /\ server[c] = [pc |-> server[c].pc, tasks |-> server[c].tasks,
                           response |-> server[c].response]
           /\ server[c].pc \in ServerStates
           /\ ScriptCallInv(c)
BY DEF BatchIInv, Shape

\* Returns ends a call with an answer.
LEMMA ReturnsFields ==
    ASSUME BatchIInv, NEW c \in ScriptCalls, NEW output, Returns(c, output)
    PROVE  /\ client'[c].pc = "done" /\ client'[c].ok = client[c].ok
           /\ client'[c].batch = client[c].batch
           /\ answers'[c] = output
           /\ client' \in [ScriptCalls -> [pc : ClientStates, batch : Lists, ok : BOOLEAN]]
           /\ answers' = [d \in ScriptCalls |-> answers'[d]]
           /\ \A d \in ScriptCalls \ {c} : client'[d] = client[d] /\ answers'[d] = answers[d]
<1>1. /\ client \in [ScriptCalls -> [pc : ClientStates, batch : Lists, ok : BOOLEAN]]
      /\ client[c] \in [pc : ClientStates, batch : Lists, ok : BOOLEAN]
      /\ DOMAIN answers = ScriptCalls
  BY CallFields
<1>2. /\ client' = [client EXCEPT ![c] = [client[c] EXCEPT !.pc = "done"]]
      /\ answers' = [answers EXCEPT ![c] = output]
  BY <1>1 DEF Returns
<1>3. /\ [client[c] EXCEPT !.pc = "done"] \in
             [pc : ClientStates, batch : Lists, ok : BOOLEAN]
      /\ [client[c] EXCEPT !.pc = "done"].pc = "done"
      /\ [client[c] EXCEPT !.pc = "done"].ok = client[c].ok
      /\ [client[c] EXCEPT !.pc = "done"].batch = client[c].batch
  BY <1>1 DEF ClientStates
<1>4. answers' = [d \in ScriptCalls |-> answers'[d]]
  BY <1>1, <1>2
<1> QED
  BY <1>1, <1>2, <1>3, <1>4

\* A call that ends with an answer that matches, after its server or without one.
LEMMA ReturnKeeps ==
    ASSUME BatchIInv, NEW c \in ScriptCalls, NEW output, Returns(c, output),
           UNCHANGED <<conf, is_cancelled, canceller, client_contexts, server>>,
           Reads => Matches(client[c].batch, output),
           client[c].pc \in {"none", "parsed", "replied"}
    PROVE  BatchIInv'
<1>1. /\ client'[c].pc = "done" /\ client'[c].ok = client[c].ok
      /\ client'[c].batch = client[c].batch /\ answers'[c] = output
      /\ client' \in [ScriptCalls -> [pc : ClientStates, batch : Lists, ok : BOOLEAN]]
      /\ answers' = [d \in ScriptCalls |-> answers'[d]]
      /\ \A d \in ScriptCalls \ {c} : client'[d] = client[d] /\ answers'[d] = answers[d]
  BY ReturnsFields
<1>2. ScriptCallInv(c)
  BY CallFields
<1>3. Shape'
  BY <1>1 DEF BatchIInv, Shape
<1>4. CallStages(c)'
  BY <1>1, <1>2 DEF ScriptCallInv, CallStages, NoServer
<1>5. AnswersFit(c)'
  <2>1. \A b, o : Matches(b, o) => Matches(b, o)'
    BY MatchesStays
  <2> QED
    BY <1>1, <2>1 DEF AnswersFit, Reads
<1>6. Served(c)'
  <2>1. \A b, o : ReplyFits(b, o) => ReplyFits(b, o)'
    BY ReplyFitsStays
  <2>2. server[c].pc # "tasks" \/ ~client[c].ok
    BY <1>2 DEF ScriptCallInv, CallStages, NoServer
  <2> QED
    BY <1>1, <1>2, <2>1, <2>2 DEF ScriptCallInv, Served, Reads
<1> QED
  BY <1>1, <1>3, <1>4, <1>5, <1>6, CallStep DEF ScriptCallInv

\* Nothing is asked before a script calls.
LEMMA InitEstablishes ==
    ASSUME BatchInferenceAssumption, InferenceInit PROVE BatchIInv
<1>1. PICK script \in Scripts :
          client = [c \in ScriptCalls |->
                       IF c \in DOMAIN script
                       THEN [pc |-> "none", batch |-> script[c], ok |-> TRUE]
                       ELSE [pc |-> "absent", batch |-> <<>>, ok |-> TRUE]]
  BY DEF InferenceInit
<1>2. \A c \in DOMAIN script : script[c] \in Lists
  BY DEF BatchInferenceAssumption, Lists, Malformed
<1>3. <<>> \in Lists
  BY DEF Lists
<1>4. ASSUME NEW c \in ScriptCalls
      PROVE  /\ client[c] \in [pc : ClientStates, batch : Lists, ok : BOOLEAN]
             /\ client[c].pc \in {"absent", "none"} /\ client[c].ok
  BY <1>1, <1>2, <1>3 DEF ClientStates
<1>5. client \in [ScriptCalls -> [pc : ClientStates, batch : Lists, ok : BOOLEAN]]
  BY <1>1, <1>4
<1>6. Shape
  <2>1. /\ server = [c \in ScriptCalls |-> NoServer] /\ answers = [c \in ScriptCalls |-> NoOutput]
        /\ client_contexts = [c \in ScriptCalls |-> "none"] /\ canceller = 0
        /\ is_cancelled = FALSE /\ conf \in Sidecars
    BY DEF InferenceInit
  <2>2. ASSUME NEW c \in ScriptCalls
        PROVE  /\ server[c] = [pc |-> server[c].pc, tasks |-> server[c].tasks,
                               response |-> server[c].response]
               /\ server[c].pc \in ServerStates
    BY <2>1 DEF NoServer, ServerStates
  <2>3. /\ server = [c \in ScriptCalls |-> server[c]]
        /\ answers = [c \in ScriptCalls |-> answers[c]]
        /\ client_contexts \in [ScriptCalls -> Contexts]
    BY <2>1 DEF Contexts
  <2>4. canceller \in 0..2
    BY <2>1
  <2>5. is_cancelled \in BOOLEAN
    BY <2>1, Zenon
  <2> QED
    BY <1>5, <2>1, <2>2, <2>3, <2>4, <2>5, Zenon DEF Shape
<1>7. Cancellation
  BY DEF InferenceInit, Cancellation
<1>8. ASSUME NEW c \in ScriptCalls PROVE ScriptCallInv(c)
  <2>1. server[c] = NoServer /\ server[c].pc = "none" /\ client_contexts[c] = "none"
        /\ answers[c] = NoOutput
    BY DEF InferenceInit, NoServer
  <2> QED
    BY <1>4, <2>1 DEF ScriptCallInv, CallStages, Served, AnswersFit
<1> QED
  BY <1>6, <1>7, <1>8 DEF BatchIInv

\* The batch is parsed, or refused as a whole (RunInferenceInternal).
LEMMA RunInferenceInternalKeeps ==
    ASSUME BatchIInv, NEW c \in ScriptCalls, RunInferenceInternal(c) PROVE BatchIInv'
<1> DEFINE list == client[c].batch
<1>1. /\ client[c].pc = "none"
      /\ UNCHANGED <<conf, is_cancelled, client_contexts, canceller, server>>
  BY DEF RunInferenceInternal
<1>2. CASE conf.proto /\ (Malformed(list) \/ Parsed(list) = <<>>)
  <2>1. Returns(c, CreateBatchErrorString("INPUT_PARSING"))
    BY <1>2 DEF RunInferenceInternal
  <2>2. Matches(list, CreateBatchErrorString("INPUT_PARSING"))
    BY <1>2, ErrorMatches DEF Excused
  <2> QED
    BY <1>1, <2>1, <2>2, ReturnKeeps
<1>3. CASE ~(conf.proto /\ (Malformed(list) \/ Parsed(list) = <<>>))
  <2>1. client' = [client EXCEPT ![c].pc = "parsed"] /\ UNCHANGED answers
    BY <1>3 DEF RunInferenceInternal
  <2>2. /\ client \in [ScriptCalls -> [pc : ClientStates, batch : Lists, ok : BOOLEAN]]
        /\ client[c] \in [pc : ClientStates, batch : Lists, ok : BOOLEAN]
        /\ ScriptCallInv(c)
    BY CallFields
  <2>3. /\ client' \in [ScriptCalls -> [pc : ClientStates, batch : Lists, ok : BOOLEAN]]
        /\ client'[c].pc = "parsed" /\ client'[c].ok = client[c].ok
        /\ client'[c].batch = client[c].batch
        /\ \A d \in ScriptCalls \ {c} : client'[d] = client[d]
    BY <2>1, <2>2 DEF ClientStates
  <2>4. Shape'
    BY <1>1, <2>1, <2>3 DEF BatchIInv, Shape
  <2>5. server[c] = NoServer /\ server[c].pc = "none"
    BY <1>1, <2>2 DEF ScriptCallInv, CallStages, NoServer
  <2>6. CallStages(c)'
    BY <1>1, <1>3, <2>1, <2>2, <2>3, <2>5 DEF ScriptCallInv, CallStages
  <2>7. Served(c)' /\ AnswersFit(c)'
    BY <1>1, <2>3, <2>5 DEF Served, AnswersFit
  <2> QED
    BY <1>1, <2>1, <2>3, <2>4, <2>6, <2>7, CallStep DEF ScriptCallInv
<1> QED
  BY <1>2, <1>3

\* A call gets a context of the manager only while the request is not cancelled.
LEMMA CreateClientContextKeeps ==
    ASSUME BatchIInv, NEW c \in ScriptCalls, CreateClientContext(c) PROVE BatchIInv'
<1>1. client[c].pc = "parsed" /\ UNCHANGED <<conf, is_cancelled, canceller>>
  BY DEF CreateClientContext
<1>2. CASE HasManager(c) /\ is_cancelled
  <2>1. /\ Returns(c, CreateBatchErrorString("GRPC"))
        /\ UNCHANGED <<client_contexts, server>>
    BY <1>2 DEF CreateClientContext
  <2>2. Matches(client[c].batch, CreateBatchErrorString("GRPC"))
    BY ErrorMatches DEF Excused
  <2> QED
    BY <1>1, <2>1, <2>2, ReturnKeeps
<1>3. CASE ~(HasManager(c) /\ is_cancelled)
  <2> DEFINE context == IF HasManager(c) THEN "open" ELSE "plain"
  <2>1. /\ client_contexts' = [client_contexts EXCEPT ![c] = context]
        /\ client' = [client EXCEPT ![c].pc = "waiting"]
        /\ server' = [server EXCEPT ![c].pc = "enter"]
        /\ UNCHANGED answers
    BY <1>3 DEF CreateClientContext
  <2>2. /\ client \in [ScriptCalls -> [pc : ClientStates, batch : Lists, ok : BOOLEAN]]
        /\ client[c] \in [pc : ClientStates, batch : Lists, ok : BOOLEAN]
        /\ DOMAIN server = ScriptCalls /\ DOMAIN client_contexts = ScriptCalls
        /\ server[c] = [pc |-> server[c].pc, tasks |-> server[c].tasks,
                        response |-> server[c].response]
        /\ ScriptCallInv(c)
    BY CallFields
  <2>3. /\ client' \in [ScriptCalls -> [pc : ClientStates, batch : Lists, ok : BOOLEAN]]
        /\ client'[c].pc = "waiting" /\ client'[c].ok = client[c].ok
        /\ client'[c].batch = client[c].batch
        /\ \A d \in ScriptCalls \ {c} : client'[d] = client[d]
    BY <2>1, <2>2 DEF ClientStates
  <2>a. [server[c] EXCEPT !.pc = "enter"]
          = [pc |-> "enter", tasks |-> server[c].tasks, response |-> server[c].response]
    BY <2>2
  <2>b. server' = [server EXCEPT ![c] = [server[c] EXCEPT !.pc = "enter"]]
    BY <2>1
  <2>4. server' = [server EXCEPT ![c] = [pc |-> "enter", tasks |-> server[c].tasks,
                                         response |-> server[c].response]]
    BY <2>a, <2>b
  <2>5. /\ server'[c] = [pc |-> "enter", tasks |-> server[c].tasks,
                         response |-> server[c].response]
        /\ \A d \in ScriptCalls \ {c} : server'[d] = server[d]
        /\ server' = [d \in ScriptCalls |-> server'[d]]
    BY <2>2, <2>4
  <2>6. /\ client_contexts' \in [ScriptCalls -> Contexts] /\ client_contexts'[c] = context
        /\ \A d \in ScriptCalls \ {c} : client_contexts'[d] = client_contexts[d]
    BY <2>1 DEF BatchIInv, Shape, Contexts
  <2>7. Shape'
    <3>1. ASSUME NEW d \in ScriptCalls
          PROVE  /\ server'[d] = [pc |-> server'[d].pc, tasks |-> server'[d].tasks,
                                  response |-> server'[d].response]
                 /\ server'[d].pc \in ServerStates
      <4>1. CASE d = c
        BY <2>5, <4>1 DEF ServerStates
      <4>2. CASE d # c
        BY <2>5, <4>2 DEF BatchIInv, Shape
      <4> QED
        BY <4>1, <4>2
    <3> QED
      BY <1>1, <2>1, <2>3, <2>5, <2>6, <3>1 DEF BatchIInv, Shape
  <2>8. server'[c].pc = "enter" /\ server'[c] # NoServer
    BY <2>5 DEF NoServer
  <2>c. /\ client_contexts'[c] # "none"
        /\ \/ client_contexts'[c] = "open" /\ ~is_cancelled
           \/ client_contexts'[c] = "plain" /\ ~HasManager(c)
    BY <1>3, <2>6
  <2> HIDE DEF context
  <2>9. CallStages(c)'
    BY <1>1, <2>1, <2>2, <2>3, <2>c, <2>8 DEF ScriptCallInv, CallStages
  <2>10. Served(c)' /\ AnswersFit(c)'
    BY <2>3, <2>8 DEF Served, AnswersFit
  <2> QED
    BY <1>1, <2>1, <2>3, <2>5, <2>6, <2>c, <2>7, <2>9, <2>10, CallStep DEF ScriptCallInv
<1> QED
  BY <1>2, <1>3

\* The flag is set first, so that no context is left open.
LEMMA TryCancelAllKeeps ==
    ASSUME BatchIInv, TryCancelAll PROVE BatchIInv'
<1>1. /\ canceller \in 0..1 /\ canceller' = canceller + 1
      /\ UNCHANGED <<conf, client, server, answers>>
  BY DEF TryCancelAll, BatchIInv, Shape
<1>2. TryCancelSteps[1] = "flag" /\ TryCancelSteps[2] = "contexts"
  BY DEF TryCancelSteps
<1>3. CASE canceller = 0
  <2>1. is_cancelled' = TRUE /\ UNCHANGED client_contexts
    BY <1>1, <1>2, <1>3 DEF TryCancelAll
  <2>2. \A c \in ScriptCalls : ScriptCallInv(c)'
    BY <1>1, <2>1, UntouchedCallKeeps DEF BatchIInv
  <2>3. Shape'
    BY <1>1, <2>1 DEF BatchIInv, Shape
  <2>4. Cancellation'
    BY <1>1, <1>3, <2>1 DEF BatchIInv, Cancellation, HasManager
  <2> QED
    BY <2>2, <2>3, <2>4 DEF BatchIInv
<1>4. CASE canceller = 1
  <2>1. /\ client_contexts' = [c \in ScriptCalls |-> IF client_contexts[c] = "open"
                                               THEN "cancelled" ELSE client_contexts[c]]
        /\ UNCHANGED is_cancelled
    BY <1>1, <1>2, <1>4 DEF TryCancelAll
  <2>2. is_cancelled
    BY <1>4 DEF BatchIInv, Cancellation
  <2>3. ASSUME NEW c \in ScriptCalls PROVE ScriptCallInv(c)'
    <3>1. client_contexts'[c] = "none" <=> client_contexts[c] = "none"
      BY <2>1
    <3> QED
      BY <1>1, <2>1, <3>1, UntouchedCallKeeps DEF BatchIInv
  <2>4. Shape'
    <3>1. client_contexts' \in [ScriptCalls -> Contexts]
      BY <2>1 DEF BatchIInv, Shape, Contexts
    <3> QED
      BY <1>1, <2>1, <3>1 DEF BatchIInv, Shape
  <2>5. Cancellation'
    BY <1>1, <2>1, <2>2 DEF BatchIInv, Cancellation, HasManager
  <2> QED
    BY <2>3, <2>4, <2>5 DEF BatchIInv
<1> QED
  BY <1>1, <1>3, <1>4

\* The RPC of a call ends: with the sidecar's reply, or with none.
LEMMA RpcEndsKeeps ==
    ASSUME BatchIInv, NEW c \in ScriptCalls, RpcFails(c) \/ RpcReplies(c) PROVE BatchIInv'
<1>1. /\ client[c].pc = "waiting"
      /\ UNCHANGED <<conf, is_cancelled, client_contexts, canceller, server, answers>>
  BY DEF RpcFails, RpcReplies
<1>2. /\ client \in [ScriptCalls -> [pc : ClientStates, batch : Lists, ok : BOOLEAN]]
      /\ client[c] \in [pc : ClientStates, batch : Lists, ok : BOOLEAN]
      /\ ScriptCallInv(c)
  BY CallFields
<1>3. /\ client' \in [ScriptCalls -> [pc : ClientStates, batch : Lists, ok : BOOLEAN]]
      /\ client'[c].pc = "replied" /\ client'[c].batch = client[c].batch
      /\ \/ ~client'[c].ok
         \/ server[c].pc = "finished" /\ client'[c].ok = client[c].ok
      /\ \A d \in ScriptCalls \ {c} : client'[d] = client[d]
  <2>1. CASE RpcFails(c)
    BY <1>2, <2>1 DEF RpcFails, ClientStates
  <2>2. CASE RpcReplies(c)
    BY <1>2, <2>2 DEF RpcReplies, ClientStates
  <2> QED
    BY <2>1, <2>2
<1>4. Shape'
  BY <1>1, <1>3 DEF BatchIInv, Shape
<1>5. CallStages(c)'
  BY <1>1, <1>2, <1>3 DEF ScriptCallInv, CallStages
<1>6. Served(c)' /\ AnswersFit(c)'
  <2>1. \A b, o : ReplyFits(b, o) => ReplyFits(b, o)'
    BY <1>1, ReplyFitsStays
  <2> QED
    BY <1>1, <1>2, <1>3, <2>1 DEF ScriptCallInv, Served, AnswersFit, Reads
<1> QED
  BY <1>1, <1>3, <1>4, <1>5, <1>6, CallStep DEF ScriptCallInv

\* HandlePredictResponse merges the reply with the errors that were kept aside.
LEMMA HandlePredictResponseKeeps ==
    ASSUME BatchIInv, NEW c \in ScriptCalls, HandlePredictResponse(c) PROVE BatchIInv'
<1> DEFINE list == client[c].batch
           output == IF ~client[c].ok THEN CreateBatchErrorString("GRPC")
                     ELSE IF conf.proto
                     THEN ConvertProtoToJson(MergeBatchResponse(
                              IF conf.module = "pytorch" THEN <<>> ELSE server[c].response,
                              ParsingErrors(list)))
                     ELSE server[c].response
<1>1. /\ client[c].pc = "replied" /\ Returns(c, output)
      /\ UNCHANGED <<conf, is_cancelled, client_contexts, canceller, server>>
  BY DEF HandlePredictResponse
<1>2. client[c] \in [pc : ClientStates, batch : Lists, ok : BOOLEAN] /\ ScriptCallInv(c)
  BY CallFields
<1>3. ASSUME client[c].ok, Reads PROVE ReplyFits(list, server[c].response)
  <2>1. server[c].pc = "finished"
    BY <1>1, <1>2, <1>3 DEF ScriptCallInv, CallStages
  <2> QED
    BY <1>2, <1>3, <2>1 DEF ScriptCallInv, Served
<1>4. ASSUME Reads PROVE Matches(list, output)
  <2>1. CASE ~client[c].ok
    <3>1. Matches(list, CreateBatchErrorString("GRPC"))
      BY ErrorMatches DEF Excused
    <3> QED
      BY <2>1, <3>1
  <2>2. CASE client[c].ok /\ conf.proto
    <3>1. output = ConvertProtoToJson(
                       MergeBatchResponse(server[c].response, ParsingErrors(list)))
      BY <1>4, <2>2 DEF Reads
    <3>2. list \in Seq(InferenceRequests)
      BY <1>1, <1>2, <2>2 DEF ScriptCallInv, CallStages, Lists, Malformed
    <3> QED
      BY <1>3, <1>4, <2>2, <3>1, <3>2, MergeMatches
  <2>3. CASE client[c].ok /\ ~conf.proto
    BY <1>3, <1>4, <2>3 DEF ReplyFits
  <2> QED
    BY <2>1, <2>2, <2>3
<1> HIDE DEF output
<1> QED
  BY <1>1, <1>4, ReturnKeeps

-----------------------------------------------------------------------------
(* The steps of the sidecar.                                                 *)

\* The sidecar works for a call only while its client waits, or has given up.
LEMMA SidecarStep ==
    ASSUME BatchIInv, NEW c \in ScriptCalls, server[c].pc \in {"enter", "tasks"},
           UNCHANGED <<conf, is_cancelled, client_contexts, canceller, client, answers>>,
           NEW pc \in ServerStates \ {"none"}, NEW tasks, NEW response,
           server' = [server EXCEPT ![c] = [pc |-> pc, tasks |-> tasks, response |-> response]],
           Served(c)'
    PROVE  BatchIInv'
<1>1. /\ DOMAIN server = ScriptCalls /\ ScriptCallInv(c)
  BY CallFields
<1>2. /\ server'[c] = [pc |-> pc, tasks |-> tasks, response |-> response]
      /\ \A d \in ScriptCalls \ {c} : server'[d] = server[d]
      /\ server' = [d \in ScriptCalls |-> server'[d]]
  BY <1>1
<1>3. Shape'
  <2>1. ASSUME NEW d \in ScriptCalls
        PROVE  /\ server'[d] = [pc |-> server'[d].pc, tasks |-> server'[d].tasks,
                                response |-> server'[d].response]
               /\ server'[d].pc \in ServerStates
    <3>1. CASE d = c
      BY <1>2, <3>1
    <3>2. CASE d # c
      BY <1>2, <3>2 DEF BatchIInv, Shape
    <3> QED
      BY <3>1, <3>2
  <2> QED
    BY <1>2, <2>1 DEF BatchIInv, Shape
<1>4. server[c] # NoServer /\ server'[c] # NoServer /\ server'[c].pc # "none"
  BY <1>2 DEF NoServer
<1>6. client[c].pc \in ClientStates
  BY CallFields
<1>5. client[c].pc = "waiting" \/ ~client[c].ok
  BY <1>1, <1>4, <1>6 DEF ScriptCallInv, CallStages, ClientStates
<1>7. CallStages(c)'
  BY <1>1, <1>4, <1>5 DEF ScriptCallInv, CallStages
<1>8. AnswersFit(c)'
  <2>1. \A b, o : Matches(b, o) => Matches(b, o)'
    BY MatchesStays
  <2> QED
    BY <1>1, <2>1 DEF ScriptCallInv, AnswersFit, Reads
<1> QED
  BY <1>2, <1>3, <1>7, <1>8, CallStep DEF ScriptCallInv

\* A sidecar that is asked by a client that has not given up is waited for, by a call
\* that is not cancelled unless the request is.
LEMMA AskedBy ==
    ASSUME BatchIInv, NEW c \in ScriptCalls, server[c].pc \in {"enter", "tasks"}, client[c].ok
    PROVE  /\ client[c].pc = "waiting"
           /\ Over(c) => is_cancelled
           /\ conf.proto => ~Malformed(client[c].batch)
<1>1. ScriptCallInv(c) /\ client[c].pc \in ClientStates
  BY CallFields
<1>2. client[c].pc = "waiting"
  BY <1>1 DEF ScriptCallInv, CallStages, ClientStates, NoServer
<1> QED
  BY <1>1, <1>2 DEF ScriptCallInv, CallStages, Over, BatchIInv, Cancellation

\* An inference that is given to the module is found in its place.
LEMMA GivenPlace ==
    ASSUME NEW c \in ScriptCalls, client[c].batch \in Seq(InferenceRequests),
           NEW k \in GivenIn(client[c].batch)
    PROVE  /\ k \in DOMAIN client[c].batch
           /\ client[c].batch[k] \in InferenceRequests
           /\ Place(k, client[c].batch) \in DOMAIN Requests(c)
           /\ Requests(c)[Place(k, client[c].batch)] = client[c].batch[k]
<1> DEFINE list == client[c].batch
           n == Len(list)
<1>1. n \in Nat /\ DOMAIN list = 1..n
  BY LenProperties
<1>2. Readable(list) \in SUBSET (1..n) /\ k \in 1..n
  BY <1>1 DEF Readable, GivenIn
<1>3. list[k] \in InferenceRequests
  BY <1>2, ElementOfSeq
<1>4. CASE conf.proto
  <2>1. Parsed(list) = Kept(list, Readable(list)) /\ Requests(c) = Parsed(list)
    BY <1>4 DEF Parsed, Readable, Requests
  <2>2. k \in Readable(list) /\ Place(k, list) = Rank(k, Readable(list))
    BY <1>4 DEF GivenIn, Place
  <2> HIDE DEF n, list
  <2>3. /\ Rank(k, Readable(list)) \in DOMAIN Kept(list, Readable(list))
        /\ Kept(list, Readable(list))[Rank(k, Readable(list))] = list[k]
    BY <1>1, <1>2, <2>2, KeptAtRank
  <2> QED
    BY <1>1, <1>2, <1>3, <2>1, <2>2, <2>3 DEF list
<1>5. CASE ~conf.proto
  BY <1>1, <1>2, <1>3, <1>5 DEF Place, Requests
<1> QED
  BY <1>4, <1>5

\* What the module is given are all of the batch or the readable ones, in number.
LEMMA RequestsLength ==
    ASSUME NEW c \in ScriptCalls, client[c].batch \in Seq(InferenceRequests)
    PROVE  LET n == IF conf.proto THEN Cardinality(Readable(client[c].batch))
                    ELSE Len(client[c].batch)
           IN  n \in Nat /\ DOMAIN Requests(c) = 1..n
<1> DEFINE list == client[c].batch
<1>1. Len(list) \in Nat /\ DOMAIN list = 1..Len(list)
  BY LenProperties
<1>2. Cardinality(Readable(list)) \in Nat
  <2>1. Readable(list) \in SUBSET (1..Len(list))
    BY <1>1 DEF Readable
  <2> QED
    BY <1>1, <2>1, UpTo
<1>3. conf.proto => DOMAIN Requests(c) = 1..Cardinality(Readable(list))
  BY DEF Requests, Parsed, Kept, Readable
<1>4. ~conf.proto => Requests(c) = list
  BY DEF Requests
<1> HIDE DEF list
<1> QED
  BY <1>1, <1>2, <1>3, <1>4 DEF list

\* A server has three fields.
IsServer(s) == s = [pc |-> s.pc, tasks |-> s.tasks, response |-> s.response]

\* A server with other tasks keeps the rest.
LEMMA ServerWithTasks ==
    ASSUME NEW s, IsServer(s), NEW pc, NEW v
    PROVE  [s EXCEPT !.pc = pc, !.tasks = v]
              = [pc |-> pc, tasks |-> v, response |-> s.response]
<1> DEFINE T == [pc : {s.pc, pc}, tasks : {s.tasks, v}, response : {s.response}]
           e == [s EXCEPT !.pc = pc, !.tasks = v]
<1>1. s \in T
  BY DEF IsServer
<1>2. e \in T /\ e.pc = pc /\ e.tasks = v /\ e.response = s.response
  BY <1>1
<1>3. \A a \in T : a = [pc |-> a.pc, tasks |-> a.tasks, response |-> a.response]
  OBVIOUS
<1> HIDE DEF T, e
<1>4. e = [pc |-> pc, tasks |-> v, response |-> s.response]
  BY <1>2, <1>3
<1> QED
  BY <1>4 DEF e

\* A server with a response keeps the rest.
LEMMA ServerWithResponse ==
    ASSUME NEW s, IsServer(s), NEW pc, NEW v
    PROVE  [s EXCEPT !.pc = pc, !.response = v]
              = [pc |-> pc, tasks |-> s.tasks, response |-> v]
<1> DEFINE T == [pc : {s.pc, pc}, tasks : {s.tasks}, response : {s.response, v}]
           e == [s EXCEPT !.pc = pc, !.response = v]
<1>1. s \in T
  BY DEF IsServer
<1>2. e \in T /\ e.pc = pc /\ e.tasks = s.tasks /\ e.response = v
  BY <1>1
<1>3. \A a \in T : a = [pc |-> a.pc, tasks |-> a.tasks, response |-> a.response]
  OBVIOUS
<1> HIDE DEF T, e
<1>4. e = [pc |-> pc, tasks |-> s.tasks, response |-> v]
  BY <1>2, <1>3
<1> QED
  BY <1>4 DEF e

\* Predict gives each inference a task, or the error it has by then.
LEMMA DispatchTasksKeeps ==
    ASSUME BatchIInv, NEW c \in ScriptCalls, DispatchTasks(c) PROVE BatchIInv'
<1> DEFINE list == client[c].batch
           started == [k \in DOMAIN Requests(c) |->
                          IF ~ParseInternal(Requests(c)[k]) THEN "INPUT_PARSING"
                          ELSE IF Requests(c)[k].model_path \notin RegisteredModels
                          THEN "MODEL_NOT_FOUND" ELSE "running"]
<1>1. /\ server[c].pc = "enter"
      /\ UNCHANGED <<conf, is_cancelled, client_contexts, canceller, client, answers>>
  BY DEF DispatchTasks
<1>2. /\ DOMAIN server = ScriptCalls
      /\ server[c] = [pc |-> server[c].pc, tasks |-> server[c].tasks,
                      response |-> server[c].response]
      /\ client[c] \in [pc : ClientStates, batch : Lists, ok : BOOLEAN]
  BY CallFields
<1>3. CASE Over(c)
  <2>1. server' = [server EXCEPT ![c] = [server[c] EXCEPT !.pc = "aborted"]]
    BY <1>3 DEF DispatchTasks
  <2>2. [server[c] EXCEPT !.pc = "aborted"]
          = [pc |-> "aborted", tasks |-> server[c].tasks, response |-> server[c].response]
    BY <1>2
  <2>3. server' = [server EXCEPT ![c] = [pc |-> "aborted", tasks |-> server[c].tasks,
                                         response |-> server[c].response]]
    BY <2>1, <2>2
  <2>4. server'[c].pc = "aborted"
    BY <1>2, <2>3
  <2>5. Served(c)'
    BY <2>4 DEF Served
  <2> QED
    BY <1>1, <2>3, <2>5, SidecarStep DEF ServerStates
<1>4. CASE ~Over(c) /\ Unreadable(c)
  <2> DEFINE response == CreateBatchErrorString("INPUT_PARSING")
  <2>1. server' = [server EXCEPT
                      ![c] = [server[c] EXCEPT !.pc = "finished", !.response = response]]
    BY <1>4 DEF DispatchTasks, Finishes
  <2> HIDE DEF response
  <2>2. [server[c] EXCEPT !.pc = "finished", !.response = response]
          = [pc |-> "finished", tasks |-> server[c].tasks, response |-> response]
    BY <1>2, ServerWithResponse, Zenon DEF IsServer
  <2>3. server' = [server EXCEPT ![c] = [pc |-> "finished", tasks |-> server[c].tasks,
                                         response |-> response]]
    BY <2>1, <2>2
  <2>4. server'[c].pc = "finished" /\ server'[c].response = response
    BY <1>2, <2>3
  <2>5. ASSUME Reads, client[c].ok PROVE ReplyFits(list, response)
    <3>1. Malformed(list)
      BY <1>4, <2>5 DEF Reads, Unreadable
    <3>2. ~conf.proto
      BY <1>1, <2>5, <3>1, AskedBy
    <3>3. Matches(list, response)
      BY <3>1, ErrorMatches DEF Excused, response
    <3> QED
      BY <3>2, <3>3 DEF ReplyFits
  <2>6. Served(c)'
    <3>1. \A b, o : ReplyFits(b, o) => ReplyFits(b, o)'
      BY <1>1, ReplyFitsStays
    <3> QED
      BY <1>1, <2>4, <2>5, <3>1 DEF Served, Reads
  <2> QED
    BY <1>1, <2>3, <2>6, SidecarStep DEF ServerStates
<1>5. CASE ~Over(c) /\ ~Unreadable(c)
  <2>1. server' = [server EXCEPT ![c] = [server[c] EXCEPT !.pc = "tasks", !.tasks = started]]
    BY <1>5 DEF DispatchTasks
  <2>2. DOMAIN started = DOMAIN Requests(c)
    OBVIOUS
  <2>3. ~Malformed(list) /\ list \in Seq(InferenceRequests)
    BY <1>2, <1>5 DEF Unreadable, Lists, Malformed
  <2>4. ASSUME NEW k \in GivenIn(list) PROVE TaskFits(list[k], started[Place(k, list)])
    <3>1. /\ Place(k, list) \in DOMAIN Requests(c)
          /\ Requests(c)[Place(k, list)] = list[k]
      BY <2>3, GivenPlace
    <3> QED
      BY <3>1 DEF TaskFits
  <2> HIDE DEF started
  <2>5. [server[c] EXCEPT !.pc = "tasks", !.tasks = started]
          = [pc |-> "tasks", tasks |-> started, response |-> server[c].response]
    <3>1. PICK v : v = started
      OBVIOUS
    <3>2. PICK s : s = server[c]
      OBVIOUS
    <3>3. IsServer(s)
      BY <1>2, <3>2 DEF IsServer
    <3>4. [s EXCEPT !.pc = "tasks", !.tasks = v]
             = [pc |-> "tasks", tasks |-> v, response |-> s.response]
      BY <3>3, ServerWithTasks
    <3> QED
      BY <3>1, <3>2, <3>4
  <2>6. server' = [server EXCEPT ![c] = [pc |-> "tasks", tasks |-> started,
                                         response |-> server[c].response]]
    BY <2>1, <2>5
  <2>7. server'[c].pc = "tasks" /\ server'[c].tasks = started
    BY <1>2, <2>6
  <2>8. Served(c)'
    <3>1. \A r, s : TaskFits(r, s) => TaskFits(r, s)'
      BY <1>1, TaskFitsStays
    <3>2. \A b : /\ Parsed(b)' = Parsed(b) /\ GivenIn(b)' = GivenIn(b)
                 /\ \A k : Place(k, b)' = Place(k, b)
      BY <1>1, SameBatch
    <3>3. Requests(c)' = Requests(c)
      BY <1>1, <3>2 DEF Requests
    <3> QED
      BY <1>1, <2>2, <2>3, <2>4, <2>7, <3>1, <3>2, <3>3 DEF Served, Reads
  <2> QED
    BY <1>1, <2>6, <2>8, SidecarStep DEF ServerStates
<1> QED
  BY <1>3, <1>4, <1>5

\* A task leaves the others alone, in whatever order they run.
LEMMA PredictTaskKeeps ==
    ASSUME BatchIInv, NEW c \in ScriptCalls, NEW k \in DOMAIN server[c].tasks, PredictTask(c, k)
    PROVE  BatchIInv'
<1> DEFINE list == client[c].batch
           tasks == server[c].tasks
           status == IF conf.atSidecar /\ Over(c) THEN "MODEL_EXECUTION"
                     ELSE Predicted(Requests(c)[k])
<1>1. /\ server[c].pc = "tasks" /\ tasks[k] = "running"
      /\ server' = [server EXCEPT ![c].tasks[k] = status]
      /\ UNCHANGED <<conf, is_cancelled, client_contexts, canceller, client, answers>>
  BY DEF PredictTask
<1>2. /\ DOMAIN server = ScriptCalls
      /\ server[c] = [pc |-> server[c].pc, tasks |-> server[c].tasks,
                      response |-> server[c].response]
      /\ client[c] \in [pc : ClientStates, batch : Lists, ok : BOOLEAN]
      /\ ScriptCallInv(c)
  BY CallFields
<1>3. server' = [server EXCEPT ![c] = [pc |-> "tasks",
                                       tasks |-> [tasks EXCEPT ![k] = status],
                                       response |-> server[c].response]]
  <2> HIDE DEF status
  <2>1. server' = [server EXCEPT ![c] = [server[c] EXCEPT !.tasks =
                                            [tasks EXCEPT ![k] = status]]]
    BY <1>1, <1>2
  <2>2. [server[c] EXCEPT !.tasks = [tasks EXCEPT ![k] = status]]
          = [pc |-> "tasks", tasks |-> [tasks EXCEPT ![k] = status],
             response |-> server[c].response]
    BY <1>1, <1>2
  <2> QED
    BY <2>1, <2>2
<1>4. server'[c].pc = "tasks" /\ server'[c].tasks = [tasks EXCEPT ![k] = status]
  BY <1>2, <1>3
<1>5. ASSUME Reads, client[c].ok
      PROVE  /\ ~Malformed(list) /\ DOMAIN tasks = DOMAIN Requests(c)
             /\ \A g \in GivenIn(list) : TaskFits(list[g], tasks[Place(g, list)])
  BY <1>1, <1>2, <1>5 DEF ScriptCallInv, Served
<1>6. ASSUME Reads, client[c].ok, NEW g \in GivenIn(list)
      PROVE  TaskFits(list[g], [tasks EXCEPT ![k] = status][Place(g, list)])
  <2>1. list \in Seq(InferenceRequests)
    BY <1>2, <1>5, <1>6 DEF Lists, Malformed
  <2>2. /\ Place(g, list) \in DOMAIN tasks /\ Requests(c)[Place(g, list)] = list[g]
        /\ TaskFits(list[g], tasks[Place(g, list)])
    BY <1>5, <1>6, <2>1, GivenPlace
  <2>3. CASE Place(g, list) # k
    BY <2>2, <2>3
  <2>4. CASE Place(g, list) = k
    <3>1. ParseInternal(list[g]) /\ list[g].model_path \in RegisteredModels
      BY <1>1, <2>2, <2>4 DEF TaskFits
    <3>2. Over(c) => is_cancelled
      BY <1>1, <1>6, AskedBy
    <3>3. TaskFits(list[g], status)
      BY <2>2, <2>4, <3>1, <3>2 DEF TaskFits
    <3> HIDE DEF status
    <3>4. [tasks EXCEPT ![k] = status][Place(g, list)] = status
      BY <2>2, <2>4
    <3> QED
      BY <3>3, <3>4
  <2> QED
    BY <2>3, <2>4
<1> HIDE DEF status
<1>7. Served(c)'
  <2>1. \A r, s : TaskFits(r, s) => TaskFits(r, s)'
    BY <1>1, TaskFitsStays
  <2>2. \A b : /\ Parsed(b)' = Parsed(b) /\ GivenIn(b)' = GivenIn(b)
               /\ \A j : Place(j, b)' = Place(j, b)
    BY <1>1, SameBatch
  <2>3. Requests(c)' = Requests(c)
    BY <1>1, <2>2 DEF Requests
  <2>4. DOMAIN [tasks EXCEPT ![k] = status] = DOMAIN tasks
    OBVIOUS
  <2> QED
    BY <1>1, <1>4, <1>5, <1>6, <2>1, <2>2, <2>3, <2>4 DEF Served, Reads
<1>8. PICK v : v = [tasks EXCEPT ![k] = status]
  OBVIOUS
<1>9. PICK w : w = server[c].response
  OBVIOUS
<1>10. server' = [server EXCEPT ![c] = [pc |-> "tasks", tasks |-> v, response |-> w]]
  BY <1>3, <1>8, <1>9
<1>11. server[c].pc \in {"enter", "tasks"} /\ "tasks" \in ServerStates \ {"none"}
  BY <1>1 DEF ServerStates
<1>12. UNCHANGED <<conf, is_cancelled, client_contexts, canceller, client, answers>>
  BY <1>1
<1> QED
  BY <1>7, <1>10, <1>11, <1>12, SidecarStep

\* The answers of the sidecar, when each task has come to something.
LEMMA CollectedProtoFits ==
    ASSUME NEW c \in ScriptCalls, conf.proto,
           ~Malformed(client[c].batch), client[c].batch \in Seq(InferenceRequests),
           DOMAIN server[c].tasks = DOMAIN Requests(c),
           \A k \in DOMAIN server[c].tasks : server[c].tasks[k] # "running",
           \A k \in GivenIn(client[c].batch) :
               TaskFits(client[c].batch[k], server[c].tasks[Place(k, client[c].batch)])
    PROVE  ReplyFits(client[c].batch, PredictFromProtoHelper(c))
<1> DEFINE list == client[c].batch
           tasks == server[c].tasks
           G == Readable(list)
           O == PredictFromProtoHelper(c)
<1>1. /\ Cardinality(G) \in Nat /\ DOMAIN tasks = 1..Cardinality(G)
  BY RequestsLength
<1>2. ASSUME NEW k \in DOMAIN tasks, NEW r \in InferenceRequests, Requests(c)[k] = r,
             TaskFits(r, tasks[k])
      PROVE  Fits(r, Written(O[k]))
  <2> DEFINE s == tasks[k]
             a == Answer(r.model_path,
                         ConvertTensorToProto(IF s = "ok" THEN r.outputs ELSE <<>>),
                         IF s # "ok" THEN s
                         ELSE IF ~Expressible(r) THEN "OUTPUT_PARSING" ELSE "")
  <2>1. Outputs(c, k) = IF s = "ok" THEN r.outputs ELSE <<>>
    BY <1>2 DEF Outputs, Ok
  <2>2. Ok(c, k) = (s = "ok") /\ (s = "ok" => Lost(c, k) = ~Expressible(r))
    BY <1>2 DEF Ok, Lost
  <2>3. O[k] = Answer(r.model_path, ConvertTensorToProto(Outputs(c, k)),
                      IF ~Ok(c, k) THEN s
                      ELSE IF Lost(c, k) THEN "OUTPUT_PARSING" ELSE "")
    BY <1>2 DEF PredictFromProtoHelper
  <2>4. (IF ~Ok(c, k) THEN s ELSE IF Lost(c, k) THEN "OUTPUT_PARSING" ELSE "")
          = (IF s # "ok" THEN s ELSE IF ~Expressible(r) THEN "OUTPUT_PARSING" ELSE "")
    BY <1>2 DEF Ok, Lost
  <2>5. O[k] = a
    <3> HIDE DEF O
    <3> QED
      BY <2>1, <2>3, <2>4
  <2>6. s # "running"
    OBVIOUS
  <2>7. Fits(r, Written(a))
    BY <1>2, <2>6, ProtoAnswerFits
  <2> QED
    BY <2>5, <2>7
<1>3. O = [k \in 1..Cardinality(G) |-> O[k]]
  BY <1>1 DEF PredictFromProtoHelper
<1>4. Len(O) = Cardinality(G)
  <2>1. O \in [1..Cardinality(G) -> {O[k] : k \in 1..Cardinality(G)}]
    BY <1>3
  <2> HIDE DEF O, G
  <2> QED
    BY <1>1, <2>1, LengthOf
<1>5. ASSUME NEW k \in G PROVE Fits(list[k], Written(O[Rank(k, G)]))
  <2>1. k \in GivenIn(list) /\ Place(k, list) = Rank(k, G)
    BY DEF GivenIn, Place
  <2>2. /\ list[k] \in InferenceRequests /\ Rank(k, G) \in DOMAIN Requests(c)
        /\ Requests(c)[Rank(k, G)] = list[k]
    BY <2>1, GivenPlace
  <2>3. TaskFits(list[k], tasks[Rank(k, G)])
    BY <2>1
  <2> HIDE DEF O, G
  <2> QED
    BY <1>2, <2>2, <2>3
<1> QED
  BY <1>4, <1>5 DEF ReplyFits

\* The same in JSON, where one output without a form gives up the batch.
LEMMA CollectedJsonFits ==
    ASSUME NEW c \in ScriptCalls, ~conf.proto,
           ~Malformed(client[c].batch), client[c].batch \in Seq(InferenceRequests),
           DOMAIN server[c].tasks = DOMAIN Requests(c),
           \A k \in DOMAIN server[c].tasks : server[c].tasks[k] # "running",
           \A k \in GivenIn(client[c].batch) :
               TaskFits(client[c].batch[k], server[c].tasks[Place(k, client[c].batch)])
    PROVE  ReplyFits(client[c].batch, PredictFromJsonHelper(c))
<1> DEFINE list == client[c].batch
           tasks == server[c].tasks
           n == Len(list)
           O == PredictFromJsonHelper(c)
<1>1. /\ Requests(c) = list /\ n \in Nat /\ DOMAIN list = 1..n /\ DOMAIN tasks = 1..n
  BY LenProperties DEF Requests
<1>2. ASSUME NEW k \in 1..n
      PROVE  /\ list[k] \in InferenceRequests /\ tasks[k] # "running"
             /\ TaskFits(list[k], tasks[k])
  <2>1. k \in GivenIn(list) /\ Place(k, list) = k
    BY <1>1 DEF GivenIn, Place
  <2>2. tasks[k] # "running" /\ TaskFits(list[k], tasks[k])
    BY <1>1, <2>1
  <2>3. list[k] \in InferenceRequests
    BY ElementOfSeq
  <2> QED
    BY <2>2, <2>3
<1>3. CASE \E k \in DOMAIN tasks : Lost(c, k)
  <2>1. PICK k \in 1..n : tasks[k] = "ok" /\ ~Expressible(list[k])
    BY <1>1, <1>3 DEF Lost, Ok
  <2>2. ParseInternal(list[k]) /\ Predicted(list[k]) = "ok"
    BY <1>2, <2>1, OkRan
  <2>3. Excused(list, "OUTPUT_PARSING")
    BY <1>1, <2>1, <2>2 DEF Excused
  <2>4. Matches(list, CreateBatchErrorString("OUTPUT_PARSING"))
    BY <2>3, ErrorMatches
  <2> QED
    BY <1>3, <2>4 DEF ReplyFits, PredictFromJsonHelper
<1>4. CASE ~\E k \in DOMAIN tasks : Lost(c, k)
  <2>1. O = [k \in 1..n |-> Answer(list[k].model_path, Outputs(c, k),
                                   IF Ok(c, k) THEN "" ELSE tasks[k])]
    BY <1>1, <1>4 DEF PredictFromJsonHelper
  <2>2. ASSUME NEW k \in 1..n PROVE Fits(list[k], O[k])
    <3>1. O[k] = Answer(list[k].model_path, Outputs(c, k),
                        IF Ok(c, k) THEN "" ELSE tasks[k])
      BY <2>1
    <3> HIDE DEF O
    <3>2. CASE tasks[k] = "ok"
      <4>1. Expressible(list[k])
        BY <1>1, <1>4, <3>2 DEF Lost, Ok
      <4>2. O[k] = Answer(list[k].model_path, list[k].outputs, "")
        BY <1>1, <3>1, <3>2 DEF Outputs, Ok
      <4> QED
        BY <1>2, <3>2, <4>1, <4>2, OutputsFit
    <3>3. CASE tasks[k] # "ok"
      <4>1. O[k] = Answer(list[k].model_path, <<>>, tasks[k])
        BY <3>1, <3>3 DEF Outputs, Ok
      <4> QED
        BY <1>2, <3>3, <4>1, ErrorFits
    <3> QED
      BY <3>2, <3>3
  <2>3. Len(O) = n
    <3>1. O \in [1..n -> {O[k] : k \in 1..n}]
      BY <2>1
    <3> HIDE DEF O, n
    <3> QED
      BY <1>1, <3>1, LengthOf
  <2> HIDE DEF O
  <2>4. Matches(list, O)
    BY <1>1, <2>2, <2>3 DEF Matches
  <2> QED
    BY <2>4 DEF ReplyFits, O
<1> QED
  BY <1>3, <1>4

\* The results are collected in the order of the requests.
LEMMA CollectKeeps ==
    ASSUME BatchIInv, NEW c \in ScriptCalls, Collect(c) PROVE BatchIInv'
<1> DEFINE list == client[c].batch
           response == IF conf.proto THEN PredictFromProtoHelper(c) ELSE PredictFromJsonHelper(c)
<1>1. /\ server[c].pc = "tasks" /\ "running" \notin Range(server[c].tasks)
      /\ Finishes(c, response)
      /\ UNCHANGED <<conf, is_cancelled, client_contexts, canceller, client, answers>>
  BY DEF Collect
<1>2. /\ DOMAIN server = ScriptCalls
      /\ server[c] = [pc |-> server[c].pc, tasks |-> server[c].tasks,
                      response |-> server[c].response]
      /\ client[c] \in [pc : ClientStates, batch : Lists, ok : BOOLEAN]
      /\ ScriptCallInv(c)
  BY CallFields
<1>3. ASSUME Reads, client[c].ok PROVE ReplyFits(list, response)
  <2>1. /\ ~Malformed(list) /\ DOMAIN server[c].tasks = DOMAIN Requests(c)
        /\ \A k \in GivenIn(list) : TaskFits(list[k], server[c].tasks[Place(k, list)])
    BY <1>1, <1>2, <1>3 DEF ScriptCallInv, Served
  <2>2. \A k \in DOMAIN server[c].tasks : server[c].tasks[k] # "running"
    BY <1>1 DEF Range
  <2>3. list \in Seq(InferenceRequests)
    BY <1>2, <2>1 DEF Lists, Malformed
  <2>4. CASE conf.proto
    BY <2>1, <2>2, <2>3, <2>4, CollectedProtoFits
  <2>5. CASE ~conf.proto
    BY <2>1, <2>2, <2>3, <2>5, CollectedJsonFits
  <2> QED
    BY <2>4, <2>5
<1> HIDE DEF response
<1>4. server' = [server EXCEPT ![c] = [pc |-> "finished", tasks |-> server[c].tasks,
                                       response |-> response]]
  <2>1. server' = [server EXCEPT
                      ![c] = [server[c] EXCEPT !.pc = "finished", !.response = response]]
    BY <1>1 DEF Finishes
  <2>2. PICK v : v = response
    OBVIOUS
  <2>3. PICK s : s = server[c]
    OBVIOUS
  <2>4. IsServer(s)
    BY <1>2, <2>3 DEF IsServer
  <2>5. [s EXCEPT !.pc = "finished", !.response = v]
           = [pc |-> "finished", tasks |-> s.tasks, response |-> v]
    BY <2>4, ServerWithResponse
  <2> QED
    BY <2>1, <2>2, <2>3, <2>5
<1>5. server'[c].pc = "finished" /\ server'[c].response = response
  BY <1>2, <1>4
<1>6. Served(c)'
  <2>1. \A b, o : ReplyFits(b, o) => ReplyFits(b, o)'
    BY <1>1, ReplyFitsStays
  <2> QED
    BY <1>1, <1>3, <1>5, <2>1 DEF Served, Reads
<1> QED
  BY <1>1, <1>4, <1>6, SidecarStep DEF ServerStates

-----------------------------------------------------------------------------

\* Every step keeps the invariant.
LEMMA NextKeeps ==
    ASSUME BatchIInv, [InferenceNext]_inferenceVars PROVE BatchIInv'
<1>1. CASE UNCHANGED inferenceVars
  <2>1. UNCHANGED <<conf, is_cancelled, client_contexts, canceller, client, server, answers>>
    BY <1>1 DEF inferenceVars
  <2>2. \A c \in ScriptCalls : ScriptCallInv(c)'
    BY <2>1, UntouchedCallKeeps DEF BatchIInv
  <2>3. Shape' /\ Cancellation'
    BY <2>1 DEF BatchIInv, Shape, Cancellation
  <2> QED
    BY <2>2, <2>3 DEF BatchIInv
<1>2. CASE TryCancelAll
  BY <1>2, TryCancelAllKeeps
<1>3. ASSUME NEW c \in ScriptCalls, Call(c) PROVE BatchIInv'
  <2>1. CASE RunInferenceInternal(c)
    BY <2>1, RunInferenceInternalKeeps
  <2>2. CASE CreateClientContext(c)
    BY <2>2, CreateClientContextKeeps
  <2>3. CASE RpcReplies(c)
    BY <2>3, RpcEndsKeeps
  <2>4. CASE HandlePredictResponse(c)
    BY <2>4, HandlePredictResponseKeeps
  <2>5. CASE DispatchTasks(c)
    BY <2>5, DispatchTasksKeeps
  <2>6. CASE Collect(c)
    BY <2>6, CollectKeeps
  <2>7. CASE \E k \in DOMAIN server[c].tasks : PredictTask(c, k)
    BY <2>7, PredictTaskKeeps
  <2> QED
    BY <1>3, <2>1, <2>2, <2>3, <2>4, <2>5, <2>6, <2>7 DEF Call
<1>4. ASSUME NEW c \in ScriptCalls, RpcFails(c) PROVE BatchIInv'
  BY <1>4, RpcEndsKeeps
<1> QED
  BY <1>1, <1>2, <1>3, <1>4 DEF InferenceNext

-----------------------------------------------------------------------------
(* The theorems.                                                             *)

\* In every reachable state both ends of every call are where the other can be, and
\* what the sidecar has done so far of a batch fits its inferences.
THEOREM BatchInductiveInvariant ==
    ASSUME BatchInferenceAssumption PROVE InferenceSpec => []BatchIInv
<1>1. InferenceInit => BatchIInv
  BY InitEstablishes
<1>2. BatchIInv /\ [InferenceNext]_inferenceVars => BatchIInv'
  BY NextKeeps
<1> QED
  BY <1>1, <1>2, PTL DEF InferenceSpec

\* The invariant has the types in it.
LEMMA IInvTyped == ASSUME BatchIInv PROVE InferenceTypeOK
<1>1. /\ conf \in Sidecars /\ is_cancelled \in BOOLEAN /\ canceller \in 0..2
      /\ client_contexts \in [ScriptCalls -> {"none", "open", "cancelled", "plain"}]
  BY DEF BatchIInv, Shape, Contexts
<1>2. ASSUME NEW c \in ScriptCalls
      PROVE  /\ client[c].pc \in ClientStates /\ client[c].ok \in BOOLEAN
             /\ server[c].pc \in {"none", "enter", "tasks", "finished", "aborted"}
             /\ client_contexts[c] = "none" <=> server[c] = NoServer
             /\ client[c].pc # "done" => answers[c] = NoOutput
  <2>1. /\ client[c] \in [pc : ClientStates, batch : Lists, ok : BOOLEAN]
        /\ server[c].pc \in ServerStates /\ ScriptCallInv(c)
    BY CallFields
  <2>2. client[c].pc \in ClientStates /\ client[c].ok \in BOOLEAN
    BY <2>1
  <2>3. server[c].pc \in {"none", "enter", "tasks", "finished", "aborted"}
    BY <2>1 DEF ServerStates
  <2>4. CallStages(c)
    BY <2>1 DEF ScriptCallInv
  <2> QED
    BY <2>2, <2>3, <2>4 DEF CallStages
<1> QED
  BY <1>1, <1>2 DEF InferenceTypeOK

\* The variables keep their types.
THEOREM BatchTypeCorrect == ASSUME BatchInferenceAssumption PROVE InferenceSpec => []InferenceTypeOK
BY BatchInductiveInvariant, IInvTyped, PTL

\* TryCancelAll (cancellable_grpc_context_manager.h) sets its flag before it goes
\* through the contexts, and CreateClientContext looks at the flag under the same
\* mutex: once TryCancelAll has returned, the calls of generateBids that have a context
\* are cancelled, and none can get another. Those of prepareDataForAdRetrieval have a
\* context of their own (inference_utils.cc, "for backwards compatibility"), and escape.
THEOREM NoManagedCallEscapesCancellation ==
    ASSUME BatchInferenceAssumption PROVE InferenceSpec => []CancellationReachesCalls
<1>1. ASSUME BatchIInv PROVE CancellationReachesCalls
  <2>1. /\ canceller > 0 => is_cancelled
        /\ canceller \in 0..2
    BY <1>1 DEF BatchIInv, Shape, Cancellation
  <2>2. ASSUME canceller = 2, NEW c \in ScriptCalls \ PreparationCalls
        PROVE  client_contexts[c] \in {"none", "cancelled"}
    <3>1. client_contexts[c] \in Contexts
      BY <1>1 DEF BatchIInv, Shape
    <3>2. client_contexts[c] # "open" /\ client_contexts[c] # "plain"
      BY <1>1, <2>2 DEF BatchIInv, Cancellation, HasManager
    <3> QED
      BY <3>1, <3>2 DEF Contexts
  <2> QED
    BY <2>1, <2>2 DEF CancellationReachesCalls
<1> QED
  BY <1>1, BatchInductiveInvariant, PTL

\* MergeBatchResponse, the tasks of the sidecar's modules and the loops that collect
\* them: each inference of a batch is answered in its place, after its own merits, or
\* the whole batch by one error that has a reason.
THEOREM EachInItsPlace ==
    ASSUME BatchInferenceAssumption PROVE InferenceSpec => []AnswersMatchInferences
<1>1. ASSUME BatchIInv PROVE AnswersMatchInferences
  <2>1. \A c \in ScriptCalls : AnswersFit(c)
    BY <1>1 DEF BatchIInv, ScriptCallInv
  <2> QED
    BY <2>1 DEF AnswersFit, Reads, Matches, AnswersMatchInferences
<1> QED
  BY <1>1, BatchInductiveInvariant, PTL

-----------------------------------------------------------------------------
(* The composition: a bidding server.                                        *)

\* The reactors, the models of the sidecar and the batches of the scripts share no
\* state: a step of one leaves that of the others alone, so that the three invariants
\* hold of the server, whichever of the three is explored.
THEOREM ServerInvariant == ServerSpec => [](IInv /\ ModelsIInv /\ BatchIInv)
<1>1. ServerInit => IInv /\ ModelsIInv /\ BatchIInv
  <2> SUFFICES ASSUME Init, FetcherInit, InferenceInit PROVE IInv /\ ModelsIInv /\ BatchIInv
    BY DEF ServerInit
  <2>1. ModelsIInv
    BY InitKeeps, ModelsAssumption
  <2>2. BatchIInv
    BY InitEstablishes, InferenceAssumption
  <2> QED
    BY <2>1, <2>2, InitIInv
<1>2. IInv /\ ModelsIInv /\ BatchIInv /\ [ServerNext]_allVars => (IInv /\ ModelsIInv /\ BatchIInv)'
  <2> SUFFICES ASSUME IInv, ModelsIInv, BatchIInv, [ServerNext]_allVars
               PROVE  IInv' /\ ModelsIInv' /\ BatchIInv'
    OBVIOUS
  <2>1. [Next]_vars /\ [FetcherNext]_modelVars /\ [InferenceNext]_inferenceVars
    BY DEF ServerNext, allVars
  <2>2. ModelsIInv'
    BY <2>1, ModelsNextKeeps, ModelsAssumption
  <2>3. BatchIInv'
    BY <2>1, NextKeeps
  <2> QED
    BY <2>1, <2>2, <2>3, NextIInv
<1> QED
  BY <1>1, <1>2, PTL DEF ServerSpec

\* The types of the server's parts.
THEOREM ServerTypesOK == ServerSpec => []TypesOK
<1>1. IInv /\ ModelsIInv /\ BatchIInv => TypesOK
  BY IInvTypeOK, IInvTyped DEF ModelsIInv, TypesOK
<1> QED
  BY <1>1, ServerInvariant, PTL
=============================================================================
