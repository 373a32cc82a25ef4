CONSTANTS
    a1 = a1
    a2 = a2
    b1 = b1
    w1 = w1
    w2 = w2
    s1 = s1
    s2 = s2
    j1 = j1
    j2 = j2
    None = None
    WorkspaceOf <- MCWorkspaceOf
    Artifacts = {a1}
    Workspaces = {w1}
    Slots = {s1, s2}
    Clients = {c1, c2}
    JobIds = {j1, j2}
    MaxContent = 2
    MaxRetries = 1
    MaxFaults = 1
    MaxRestarts = 1
SPECIFICATION FairExplore
INVARIANTS OneJobPerFile JobsAreOwned
PROPERTIES JobsEnd FilesSettle
CHECK_DEADLOCK FALSE
