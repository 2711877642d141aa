SPECIFICATION FairSpec
CHECK_DEADLOCK FALSE
CONSTANTS
    A = A
    B = B
    C = C
    ab = ab
    bc = bc
    bad = bad
    Hooks = {h1, h2}
    Thoughts = {t1}
    Destinations = {origin}
    Commits = {A, B, C}
    Batches = {ab, bc, bad}
    PairsOf <- Amends
    Malformed = {bad}
    NameOrder <- SecondFirst
    Born = {A}
    MaxFiles = 2
    MaxFaults = 1
    MaxUpsets = 2
INVARIANTS
    AcceptedNotLost
    FollowsRewrites
PROPERTIES
    AuthorityFromSource
    WaitingIsRecorded
    RedeliveredIsAccepted
