SPECIFICATION MCFairSpec
CONSTANTS
    None = None
    Changing = {}
    GitRepos = {"g1", "g2"}
    PRs = {1}
    Moves = {"create", "delete", "mode"}
    MaxMoves = 2
    FaultKinds = {"fetch", "list", "status", "register", "crash"}
    MaxFaults = 1
CHECK_DEADLOCK FALSE
INVARIANTS TypeOK QuietlySettled NoneForgotten
PROPERTIES YieldsToWebhook ResumesPolling
