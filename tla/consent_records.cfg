SPECIFICATION Spec
CHECK_DEADLOCK FALSE
CONSTANTS
    Fp = fp
    l1 = l1
    Legacies = {l1}
    Requests <- Asked
    Conversations = {c1}
    None = none
    Procs = {p1, p2}
    MaxStarts = 3
    MaxDeaths = 1
INVARIANTS
    AdoptedBeforeUse
PROPERTIES
    KeepsLedger
    CommandsEnd
