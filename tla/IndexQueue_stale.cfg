CONSTANTS
    a1 = a1
    a2 = a2
    b1 = b1
    w1 = w1
    w2 = w2
    s1 = s1
    s2 = s2
    j1 = j1
    j2 = j2
    None = None
    WorkspaceOf <- MCWorkspaceOf
    Artifacts = {a1}
    Workspaces = {w1}
    Slots = {s1}
    Clients = {c1}
    JobIds = {}
    MaxContent = 2
    MaxRetries = 1
    MaxFaults = 0
    MaxRestarts = 0
SPECIFICATION FairSpec
PROPERTIES ReplacedContentIsIndexed
CHECK_DEADLOCK FALSE
