SPECIFICATION FairSpec
CONSTANTS
    None = None
    PRs = {1, 2}
    SHAs = {"s1", "s2"}
    PageSize = 2
    Moves = {"push", "close", "reopen", "write"}
    MaxMoves = 2
    FaultKinds = {"fetch", "empty", "api", "crash"}
    MaxFaults = 1
CHECK_DEADLOCK FALSE
PROPERTIES OpenIsDeployed ClosedIsTornDown
