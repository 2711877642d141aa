SPECIFICATION FairSpec
CHECK_DEADLOCK FALSE
CONSTANTS
    alice = alice
    bob = bob
    origin = origin
    mirror = mirror
    chat = chat
    none = none
    t1 = t1
    t2 = t2
    Clones = {alice, bob}
    Destinations = {origin}
    Thoughts = {t1}
    NoThought = none
    Sessions = {chat}
    Consented <- AllConsented
    AuthorOf <- AliceOnly
    SessionOf <- OneSession
    ParentOf <- NoParents
    SourceOf <- AllMcp
    RequestOf <- OwnRequests
    Clock = {1}
    LateArrival = TRUE
    MaxEvents = 3
PROPERTIES
    UncertainSettles
    RedactionDelivered

