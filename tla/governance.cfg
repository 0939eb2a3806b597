SPECIFICATION Spec
CONSTANTS
    Profiles <- MCProfiles
    AdmittedEvent <- MCAdmittedEvent
    DefaultMode <- MCDefaultMode
    Repositories = {"app", "lib"}
    Edits <- MCEdits
    InitialRefs <- MCInitialRefs
    Initial <- MCInitial
    Unset = Unset
    MaxDay = 2
    MaxMerges = 2
    MaxEvaluations = 2
INVARIANTS
    DigestDeterminesDecision
    WaiversInForce
    StagedAsDigested
CHECK_DEADLOCK FALSE
