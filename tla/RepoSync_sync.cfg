CONSTANTS
    c1 = c1
    c2 = c2
    x = x
    y = y
    bin = bin
    Paths = {1, 2, 3, 4, 5}
    Blobs = {x, y, bin}
    Commits = {c1, c2}
    Artifacts = {1, 2, 3, 4, 5}
    Tree <- MCTree
    NotText = {bin}
    Settings <- MCSettings
    Pushes <- MCPushes
    Starters = {"person", "poll", "resume"}
    Syncs = {1, 2}
    ProgressEvery = 2
    MaxEdits = 1
    MaxFaults = 1
    None = None
SPECIFICATION ExploreFairly
INVARIANTS TypeOK OneSyncAtATime SyncStoresTree IndexedIsCurrent
PROPERTIES ArtifactsStay FollowsWhenPolled
