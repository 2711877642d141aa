SPECIFICATION Spec
CHECK_DEADLOCK FALSE
CONSTANTS
    origin = origin
    fork = fork
    f1 = f1
    f2 = f2
    session = session
    agent = agent
    pulled = pulled
    Remotes = {origin, fork}
    Destinations = {f1, f2}
    Conversations = {session, agent, pulled}
    None = none
    Unread = unread
    ParentOf <- Agent
    Imported = {pulled}
    FirstUrls <- Urls
    FirstConsents <- Consents
    FirstThoughts <- Thoughts
    FirstTime = 3
    FirstShared <- Shared
    Requested = origin
    MaxEdits = 1
    MaxFlows = 2
INVARIANTS
    ShownForRemote
    AskedOnShown
    UnshareCanHappen
