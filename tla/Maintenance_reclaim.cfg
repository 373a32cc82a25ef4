CONSTANTS
    Artifacts = {a1}
    Hashes = {h1, h2}
    Clients = {c1}
    Passes = {scheduled, manual}
    Droppable = {manual}
    replaced = {a1}
    times = 1
    MaxVersions <- MCMaxVersions
    MaxRestarts = 1
    None = None
    Gone = Gone
    path = path
    PathOf <- MCPathOf
SPECIFICATION FairSpec
INVARIANT OnePassAtATime
PROPERTY OrphansReclaimed
CHECK_DEADLOCK FALSE
