SPECIFICATION Spec
SYMMETRY Alike
CHECK_DEADLOCK FALSE
CONSTANTS
    main = main
    side = side
    public = public
    stable = stable
    copy = copy
    observe = observe
    lint = lint
    Commands = {p1, p2}
    Worktrees = {main, side, public}
    Main = main
    Branch <- Branches
    Binaries = {copy}
    Cached = {copy}
    CoreHooks = {observe, lint}
    FirstFile <- Files
    None = none
    MaxStarts = 2
    MaxUpsets = 1
INVARIANTS
    UninstallTells
    HooksKept
    Uncommittable
PROPERTIES
    PromiseKept
