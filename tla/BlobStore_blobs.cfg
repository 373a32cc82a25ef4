CONSTANTS
    Artifacts = {a1, a2}
    Hashes = {h1, h2, h3}
    Clients = {c1, c2}
    Passes = {q1}
    replaced = {a1}
    times = 2
    MaxVersions <- MCMaxVersions
    None = None
    Gone = Gone
    path = path
    PathOf <- MCPathOf
SPECIFICATION Spec
SYMMETRY Interchangeable
INVARIANTS TypeOK ContentIsStored StoredIsKept
CHECK_DEADLOCK FALSE
