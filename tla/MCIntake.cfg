SPECIFICATION Spec
CONSTANTS
    None = None
    Upstream = "upstream"
    Characters = {"a", "b", "p", "r", "1", "2", "3", "A", "B", "-", "/", "_", "."}
    MaxName = 7
    Digits <- MCDigits
    PRs = {1, 2}
    SHAs = {"s1", "s2"}
    MaxMoves = 4
    Url <- MCUrl
    Profiles <- MCProfiles
    Configs <- MCConfigs
    Commenters <- MCCommenters
    Words <- MCWords
CHECK_DEADLOCK FALSE
INVARIANTS TypeOK EligibleIsDeployed PreviewIsWanted AskedIsDeployed PollConfirms NameLaws
