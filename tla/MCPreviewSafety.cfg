SPECIFICATION Spec
CONSTANTS
    None = None
    s1 = s1
    s2 = s2
    SHAs = {s1, s2}
    Clones = {"fork", "upstream"}
    Upstream = "upstream"
    h1 = h1
    h2 = h2
    Handlers = {h1, h2}
    AppLag = FALSE
    FaultKinds = {"crash", "api", "lost", "build", "post", "loss"}
    MaxFaults = 1
    NotifyKinds = {"deploy"}
    MaxComments = 1
    Platform = "github"
    Moves = {"push", "close", "reopen", "transfer", "label", "comment", "remove"}
    MaxMoves = 2
CHECK_DEADLOCK FALSE
INVARIANTS TypeOK NoOrphanApp
PROPERTIES LifecycleSpec NoLostUpdate
VIEW View
SYMMETRY Symmetry
