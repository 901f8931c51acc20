SPECIFICATION MCReachedSpec
CONSTANTS
    None = None
    Changing = {1}
    GitRepos = {"g1", "g2"}
    PRs = {1, 2}
    Moves = {"create", "delete", "mode", "open", "close"}
    MaxMoves = 2
    FaultKinds = {"lost"}
    MaxFaults = 1
CHECK_DEADLOCK FALSE
PROPERTIES OpenIsDeployed ClosedIsTornDown
