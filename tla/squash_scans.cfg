SPECIFICATION FairSpec
CHECK_DEADLOCK FALSE
CONSTANTS
    c0 = c0
    c1 = c1
    c2 = c2
    c3 = c3
    none = none
    Scans = {s1, s2}
    Commits = {c0, c1, c2, c3}
    NoCommit = none
    FirstParent <- Line
    Merges = {}
    Tips = {c0}
    Squashed = {c1, c2}
    MaxScan = 2
    MaxPending = 2
    MaxResolved = 1
    BatchSize = 1
    HeadMoves <- PullsAndReset
    MaxMoves = 2
    MaxFaults = 1
INVARIANTS
    NoCommitSkipped
PROPERTIES
    PendingKept
    NotStarvedAtHead
