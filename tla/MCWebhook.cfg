SPECIFICATION FairSpec
CONSTANTS
    None = None
    Paths = {"default", "custom"}
    HookIds = {1, 2, 3, 4}
    Moves = {"touch", "path", "secret", "delete", "create"}
    MaxMoves = 2
    FaultKinds = {"secret", "register", "lost", "deregister", "api", "crash"}
    MaxFaults = 1
CHECK_DEADLOCK FALSE
INVARIANTS TypeOK RecordedHookExists
PROPERTIES HookNotReplaced RouteGone HookServed Routed HookRecorded RemovalCompletes
