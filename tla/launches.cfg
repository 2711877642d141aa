SPECIFICATION FairSpec
CHECK_DEADLOCK FALSE
CONSTANTS
    older = older
    newer = newer
    dead = dead
    script = script
    None = None
    Launchers = {older, newer, dead}
    Installers = {script}
    Elsewhere <- Containers
    Gone = {dead}
    Release <- Brings
    Want <- Asked
    FirstStable <- InBin
    FirstCache <- InCache
    MaxAttempts = 3
    MaxUpsets = 1
INVARIANTS
    OnePublisher
    RunsAtLeastPackage
    DeadRecordGoes
PROPERTIES
    NeverDowngrades
    LaunchEnds
