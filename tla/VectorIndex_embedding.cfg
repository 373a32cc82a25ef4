CONSTANTS
    m2 = m2
    w1 = w1
    w2 = w2
    Workspaces = {w1, w2}
    Passages = {1, 2, 3}
    WorkspaceOf <- MCWorkspaceOf
    Models = {m1, m2}
    Permits = {s1}
    Tasks = {t1}
    Handlers = {h1}
    Batch = 1
    MaxBatches = 1
    DailyLimit = 1
    MaxDays = 1
    MaxEdits = 1
    MaxFaults = 1
    Searches = {r1}
    Page = 1
    Budget = 2
    MaxSearches = 2
    None = None
SPECIFICATION ExploreFairly
INVARIANTS TypeOK IndexTypeOK WaitingIsQueued MissingIsRequested CopiesAreComplete
PROPERTIES KeepsVectorsUp PassagesAreEmbedded
CHECK_DEADLOCK FALSE
