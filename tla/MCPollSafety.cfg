SPECIFICATION Spec
CONSTANTS
    None = None
    PRs = {1, 2, 3}
    s1 = s1
    s2 = s2
    SHAs = {s1, s2}
    PageSize = 2
    Moves = {"push", "close", "reopen", "label", "write"}
    MaxMoves = 2
    FaultKinds = {"fetch", "empty", "api", "crash"}
    MaxFaults = 1
CHECK_DEADLOCK FALSE
INVARIANT TypeOK
PROPERTY OpenIsKept
SYMMETRY Symmetry
