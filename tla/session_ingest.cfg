SPECIFICATION Spec
SYMMETRY Alike
CHECK_DEADLOCK FALSE
CONSTANTS
    r1 = r1
    r2 = r2
    r3 = r3
    none = none
    k1 = k1
    k2 = k2
    k3 = k3
    c1 = c1
    c2 = c2
    Runs = {p1, p2}
    Inodes = {i1, i2}
    None = nothing
    Script <- Session
    Responses = {r1, r2, r3}
    NoResponse = none
    Stops = {7}
    CommitAt <- ResultOf
    Commits = {c1, c2}
    Lost = {}
    MaxUpsets <- Upsets
INVARIANTS
    Exclusive
    RecordedWhole
    OneChain
    NothingSkipped
    DeletedStaysAway
    CommitsLinked
