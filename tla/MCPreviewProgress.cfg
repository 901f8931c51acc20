SPECIFICATION FairSpec
CONSTANTS
    None = None
    SHAs = {"s1"}
    Clones = {"upstream"}
    Upstream = "upstream"
    Handlers = {"h1"}
    AppLag = TRUE
    FaultKinds = {"crash", "lost", "api", "build", "post"}
    MaxFaults = 1
    NotifyKinds = {"deploy", "error"}
    MaxComments = 1
    Platform = "github"
    Moves = {"close", "reopen", "rebuild"}
    MaxMoves = 2
CHECK_DEADLOCK FALSE
INVARIANT FlagAfterPost
PROPERTIES DeletionCompletes EventuallyDeployed StatusFollowsApp RunningIsAnnounced OrphanedByLookup LifecycleButOverlooked
