SPECIFICATION Spec
CONSTANTS
    p1 = p1
    p2 = p2
    c1 = c1
    c2 = c2
    Producers = {p1, p2}
    Consumers = {c1, c2}
    NameOf <- MCNameOf
    RunOf <- MCRunOf
    SubjectOf <- MCSubjectOf
    ConsumerRun <- MCConsumerRun
    Checkouts <- MCCheckouts
    Projecting = {p1}
    MaxRetries = 1
    Tracked = Tracked
    Damaged = Damaged
    Absent = Absent
INVARIANTS
    AcceptedIsRequested
    AcceptedFromOneAttempt
    DescriptorNamesUpload
    UploadsVerifyUnlessLeftBehind
PROPERTY
    ImplementsExchange
CHECK_DEADLOCK FALSE
