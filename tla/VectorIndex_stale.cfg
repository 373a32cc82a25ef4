CONSTANTS
    m2 = m2
    w1 = w1
    w2 = w2
    Workspaces = {w1}
    Passages = {1, 2}
    WorkspaceOf <- MCWorkspaceOf
    Models = {m1, m2}
    Permits = {s1}
    Tasks = {t1}
    Handlers = {h1}
    Batch = 1
    MaxBatches = 1
    DailyLimit = 0
    MaxDays = 1
    MaxEdits = 0
    MaxFaults = 0
    Searches = {r1}
    Page = 1
    Budget = 2
    MaxSearches = 2
    None = None
SPECIFICATION IndexSpec
INVARIANT CopiesAreCurrent
CHECK_DEADLOCK FALSE
