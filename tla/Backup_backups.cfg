CONSTANTS
    Artifacts = {a1, a2}
    Hashes = {h1, h2}
    Clients = {c1}
    Passes = {q1}
    replaced = {a1}
    times = 0
    MaxVersions <- MCMaxVersions
    None = None
    Gone = Gone
    path = path
    PathOf <- MCPathOf
    e1 = e1
    k1 = k1
    k2 = k2
    s1 = s1
    s2 = s2
    s3 = s3
    Keys = {k1, k2}
    Salts = {s1, s2, s3}
    KeyOf <- MCKeyOf
    Plain = Plain
    MaxBackups = 2
    Keep = 1
    Environments = {e1}
    Nothing = Nothing
SPECIFICATION Explore
SYMMETRY Interchangeable
INVARIANTS BackupTypeOK BackupsAreKept RestoredIsWhole RecordMeansCopy
CHECK_DEADLOCK FALSE
