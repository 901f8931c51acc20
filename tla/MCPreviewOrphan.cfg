SPECIFICATION Spec
CONSTANTS
    None = None
    SHAs = {"s1"}
    Clones = {"upstream"}
    Upstream = "upstream"
    Handlers = {"h1"}
    AppLag = TRUE
    FaultKinds = {}
    MaxFaults = 0
    NotifyKinds = {"deploy", "error"}
    MaxComments = 2
    Platform = "github"
    Moves = {"close"}
    MaxMoves = 1
CHECK_DEADLOCK FALSE
INVARIANT NoOrphanApp
