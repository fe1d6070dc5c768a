------------------------ MODULE PeriodicModelFetcher ------------------------
(* The models of a bidding service: PeriodicModelFetcher                     *)
(* (src/services/bidding_service/inference/periodic_model_fetcher.cc) polls  *)
(* a configuration, deletes from the sidecar what is no longer listed, some  *)
(* of it after a grace period, and registers what is new. model_entry_mutex_ *)
(* is held for a whole poll and for a whole end of a grace period; the RPCs  *)
(* to the sidecar (module ModelStore) are made under it, one at a time.      *)
(* A poll that cannot fetch the configuration changes nothing.               *)
EXTENDS ModelStore

CONSTANTS
    Configs,     \* configurations: for each model its listed content, or None
    WithGrace,   \* contents that are listed with an eviction grace period
    MaxChanges,  \* bound on the changes of the configuration
    MaxFaults    \* bound on failing downloads and RPCs

FetcherAssumption ==
    /\ Configs \subseteq [Models -> Versions \cup {None}] /\ Configs # {}
    /\ WithGrace \subseteq Versions
    /\ MaxChanges \in Nat /\ MaxFaults \in Nat

VARIABLES
    listed,   \* the configuration in the bucket
    changes,  \* its changes so far
    faults,   \* failures so far
    entry,    \* model_entry_map_: checksum and model_state
    grace,    \* models whose grace period runs: a task on the executor
    poll      \* InternalModelFetchAndRegistration, or the timer before it

modelVars == <<storeVars, listed, changes, faults, entry, grace, poll>>
fetcherVars == <<listed, changes, faults, entry, grace, poll>>

NoEntry == [model_state |-> "none", checksum |-> None]

FetcherTypeOK ==
    /\ StoreTypeOK
    /\ listed \in Configs /\ changes \in 0..MaxChanges /\ faults \in 0..MaxFaults
    /\ entry \in [Models -> [model_state : {"none", "ACTIVE", "IN_GRACE_PERIOD", "IN_DELETION"},
                             checksum : Versions \cup {None}]]
    /\ poll \in [pc : {"timer", "delete", "register"},
                 config : [Models -> Versions \cup {None}], todo : SUBSET Models]
    /\ grace = {m \in Models : entry[m].model_state = "IN_GRACE_PERIOD"}

NoConfig == [m \in Models |-> None]

FetcherInit ==
    /\ StoreInit
    /\ listed \in Configs /\ changes = 0 /\ faults = 0
    /\ entry = [m \in Models |-> NoEntry] /\ grace = {}
    /\ poll = [pc |-> "timer", config |-> NoConfig, todo |-> {}]

Publish ==
    /\ changes < MaxChanges
    /\ changes' = changes + 1
    /\ listed' \in Configs \ {listed}
    /\ UNCHANGED <<storeVars, faults, entry, grace, poll>>

Fault == faults < MaxFaults /\ faults' = faults + 1

-----------------------------------------------------------------------------
(* A poll: deletions first, then downloads, then registrations.              *)

\* A bug: only models that are no longer listed are deleted.
UnlistedModels(config) ==
    {m \in Models : entry[m] # NoEntry /\ config[m] = None}

\* Entries that the configuration does not list with their checksum.
GarbageCollectable(config) ==
    {m \in Models : entry[m] # NoEntry /\ config[m] # entry[m].checksum}

FetchModelConfig ==
    /\ poll.pc = "timer"
    /\ poll' = [pc |-> "delete", config |-> listed, todo |-> GarbageCollectable(listed)]
    /\ UNCHANGED <<storeVars, listed, changes, faults, entry, grace>>

\* Listed models without an entry; the others are loaded, or wait for the
\* end of a grace period or a further attempt to delete them.
PendingModels == {m \in Models : poll.config[m] # None /\ entry[m] = NoEntry}

\* The RPC succeeds, or fails before the sidecar acts or because it must.
DeleteModel(m) ==
    \/ /\ DeleteFromStore(m)
       /\ entry' = [entry EXCEPT ![m] = NoEntry]
       /\ UNCHANGED faults
    \/ /\ IF Deletable(m) THEN Fault ELSE UNCHANGED faults
       /\ entry' = [entry EXCEPT ![m].model_state = "IN_DELETION"]
       /\ UNCHANGED storeVars

DeletionScheduled(m) == entry[m].model_state = "IN_GRACE_PERIOD"

HasGracePeriod(m) == entry[m].model_state = "ACTIVE" /\ entry[m].checksum \in WithGrace

DeleteModels(m) ==
    /\ poll.pc = "delete" /\ m \in poll.todo
    /\ poll' = [poll EXCEPT !.todo = @ \ {m}]
    /\ \/ /\ DeletionScheduled(m)
          /\ UNCHANGED <<storeVars, entry, grace, faults>>
       \/ /\ ~DeletionScheduled(m) /\ HasGracePeriod(m)
          /\ entry' = [entry EXCEPT ![m].model_state = "IN_GRACE_PERIOD"]
          /\ grace' = grace \cup {m}
          /\ UNCHANGED <<storeVars, faults>>
       \/ /\ ~DeletionScheduled(m) /\ ~HasGracePeriod(m)
          /\ DeleteModel(m) /\ UNCHANGED grace
    /\ UNCHANGED <<listed, changes>>

PollEnds == [pc |-> "timer", config |-> NoConfig, todo |-> {}]

\* FetchSync of all new models at once.
FetchModels ==
    /\ poll.pc = "delete" /\ poll.todo = {}
    /\ \/ /\ poll' = IF PendingModels = {} THEN PollEnds
                     ELSE [poll EXCEPT !.pc = "register", !.todo = PendingModels]
          /\ UNCHANGED faults
       \/ PendingModels # {} /\ Fault /\ poll' = PollEnds
    /\ UNCHANGED <<storeVars, listed, changes, entry, grace>>

\* Fails for a size or checksum that is wrong, in the RPC, or in the sidecar.
RegisterModel(m) ==
    /\ poll.pc = "register" /\ m \in poll.todo
    /\ poll' = IF poll.todo = {m} THEN PollEnds ELSE [poll EXCEPT !.todo = @ \ {m}]
    /\ \/ /\ PutModel(m, poll.config[m])
          /\ entry' = [entry EXCEPT ![m] = [model_state |-> "ACTIVE",
                                            checksum |-> poll.config[m]]]
          /\ UNCHANGED faults
       \/ /\ IF Registrable(m) THEN Fault ELSE UNCHANGED faults
          /\ UNCHANGED <<storeVars, entry>>
    /\ UNCHANGED <<listed, changes, grace>>

Poll ==
    \/ FetchModelConfig \/ FetchModels
    \/ \E m \in Models : DeleteModels(m) \/ RegisterModel(m)

\* The executor's task, once no poll holds model_entry_mutex_.
GracePeriodEnds(m) ==
    /\ m \in grace /\ poll.pc = "timer"
    /\ DeleteModel(m)
    /\ grace' = grace \ {m}
    /\ UNCHANGED <<listed, changes, poll>>

FetcherNext ==
    \/ Publish \/ Poll
    \/ \E m \in Models : GracePeriodEnds(m)
    \/ Sidecar /\ UNCHANGED fetcherVars

\* Polls are at least a minute apart (kMinModelFetchPeriod), so that the end
\* of a grace period gets the mutex between two of them. Nobody has to publish
\* a configuration or ask for an inference.
FetcherFairness ==
    /\ WF_modelVars(Poll)
    /\ \A m \in Models : SF_modelVars(GracePeriodEnds(m))
    /\ WF_modelVars(ResetModels /\ UNCHANGED fetcherVars)
    /\ \A i \in Inferences : WF_modelVars(Predict(i) /\ UNCHANGED fetcherVars)

FetcherSpec == FetcherInit /\ [][FetcherNext]_modelVars /\ FetcherFairness

-----------------------------------------------------------------------------
(* Properties.                                                               *)

\* The maps of the sidecar hold the same models of the same content, whatever
\* the reset thread rebuilds meanwhile, and the fetcher's entries say which.
MapsAgree ==
    \A m \in Models :
        /\ prod[m] = model_data[m] /\ consented[m] = model_data[m]
        /\ model_data[m] = entry[m].checksum
        /\ (count[m] = NoCount) <=> (model_data[m] = None)

\* A use of a production copy that the reset thread has not decided about is in the
\* count that it will take, whatever is registered, deleted or reset meanwhile. Two
\* kinds of use are not covered: an inference given as a protocol buffer is counted
\* before it runs, so that the thread may take the count too early, and one whose
\* output cannot be put in JSON is never counted.
NoUseForgotten ==
    \A i \in Inferences :
        LET use == inference[i]
        IN use.pc = "done" /\ use.form = "json" /\ use.copy = "prod"
               => count[use.model] \in 1..Cardinality(Inferences)

\* Once the configuration no longer changes the sidecar comes to hold the
\* models it lists, in the content it lists, and no others.
ModelsFollowConfig == <>[](prod = listed)
=============================================================================
