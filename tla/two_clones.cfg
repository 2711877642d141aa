SPECIFICATION Spec
CHECK_DEADLOCK FALSE
CONSTANTS
    alice = alice
    bob = bob
    origin = origin
    mirror = mirror
    chat = chat
    none = none
    t1 = t1
    t2 = t2
    Clones = {alice, bob}
    Destinations = {origin}
    Thoughts = {t1, t2}
    NoThought = none
    Sessions = {chat}
    Consented <- AllConsented
    AuthorOf <- OneEach
    SessionOf <- OneSession
    ParentOf <- NoParents
    SourceOf <- AllHarness
    RequestOf <- OwnRequests
    Clock = {1}
    LateArrival = FALSE
    MaxEvents = 4
INVARIANTS
    DeletedStaysDeleted
    ServedIsRecorded
    UnsharedIsAbsent
    PublishedIsHeld
    RedactionProven
    TombstonedNotServed
PROPERTIES
    AppendOnly
SYMMETRY Swap
