SPECIFICATION RepoMkSpec
CONSTANTS
    Vars = {"A"}
    MaxDepth = 2
    MaxLines = 4
INVARIANT AcceptedLeafNeverIdle
CHECK_DEADLOCK FALSE
