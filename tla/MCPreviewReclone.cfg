SPECIFICATION FairSpec
CONSTANTS
    None = None
    SHAs = {"s1"}
    Clones = {"fork", "upstream"}
    Upstream = "upstream"
    Handlers = {"h1"}
    AppLag = FALSE
    FaultKinds = {}
    MaxFaults = 0
    NotifyKinds = {"deploy", "error"}
    MaxComments = 2
    Platform = "github"
    Moves = {"transfer", "comment"}
    MaxMoves = 2
CHECK_DEADLOCK FALSE
PROPERTY RebuiltFromClone
