CONSTANTS
    c1 = c1
    c2 = c2
    x = x
    y = y
    bin = bin
    Paths = {1, 2, 3}
    Blobs = {x, y, bin}
    Commits = {c1, c2}
    Artifacts = {1, 2, 3}
    Tree <- RemovedTree
    NotText = {bin}
    Settings <- SmallSettings
    Pushes <- MCPushes
    Starters = {"person"}
    Syncs = {1, 2}
    ProgressEvery = 2
    MaxEdits = 0
    MaxFaults = 1
    None = None
SPECIFICATION Spec
INVARIANT NothingMeansInStep
