SPECIFICATION Spec
CONSTANTS
    Runs = {"r1", "r2"}
    Commit <- MCCommit
    Environment <- MCEnvironment
    None = None
    MaxAttempts = 2
INVARIANTS
    RequestsVerify
    OneRequestPerRun
    EvidenceNamesItsAnalysis
CHECK_DEADLOCK FALSE
