SPECIFICATION MCReachedSpec
CONSTANTS
    None = None
    Changing = {1}
    GitRepos = {"g1", "g2"}
    PRs = {1, 2}
    Moves = {"create", "close"}
    MaxMoves = 2
    FaultKinds = {}
    MaxFaults = 0
CHECK_DEADLOCK FALSE
PROPERTY ClosedUnderWebhook
