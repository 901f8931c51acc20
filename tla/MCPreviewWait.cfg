SPECIFICATION FairSpec
CONSTANTS
    None = None
    SHAs = {"s1"}
    Clones = {"upstream"}
    Upstream = "upstream"
    Handlers = {"h1"}
    AppLag = FALSE
    FaultKinds = {}
    MaxFaults = 0
    NotifyKinds = {"deploy", "error"}
    MaxComments = 2
    Platform = "gitea"
    Moves = {"comment"}
    MaxMoves = 1
CHECK_DEADLOCK FALSE
PROPERTY EventuallyDeployed
