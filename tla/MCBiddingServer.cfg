CONSTANTS
    V8Requests <- MCV8Requests
    ByobWorkloads <- MCByobWorkloads
    Parts = {"requests", "models", "inference"}
    m1 = m1
    m2 = m2
    v1 = v1
    v2 = v2
    Inferences = {i1}
    Models = {m1, m2}
    Versions = {v1, v2}
    Configs <- MCConfigs
    WithGrace = {v1}
    MaxChanges = 2
    MaxFaults = 1
    Sidecars <- MCSidecars
    ScriptCalls = {c1, c2, c3}
    PreparationCalls = {c3}
    Scripts <- MCScripts
    RegisteredModels = {"m"}
    c1 = c1
    c2 = c2
    c3 = c3
    None = None
SPECIFICATION ServerSpec
INVARIANTS
    TypesOK
    CallbacksFindTheirState
    StatusMatchesOutcome
    MapsAgree
    NoUseForgotten
    AnswersMatchInferences
    CancellationReachesCalls
PROPERTIES
    EveryRequestAnswered
    ModelsFollowListing
CHECK_DEADLOCK FALSE
