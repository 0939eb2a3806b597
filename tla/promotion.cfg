SPECIFICATION Spec
CONSTANTS
    Revisions = {"v1", "v2"}
    Requirements <- MCRequirements
    Provides <- MCProvides
    Proposals <- MCProposals
    Calls = {"c1", "c2"}
    Workspace <- MCWorkspace
    First <- MCFirst
    None = None
    MaxActivities = 3
INVARIANTS
    AttestedWasSo
    DefaultProvisions
    RuntimeIsVerified
    OneWriterPerRuntime
CHECK_DEADLOCK FALSE
