CONSTANTS
    Artifacts = {a1}
    Hashes = {h1, h2, h3}
    Clients = {c1, c2}
    Passes = {}
    replaced = {a1}
    times = 2
    MaxVersions <- MCMaxVersions
    None = None
    Gone = Gone
    path = path
    PathOf <- MCPathOf
SPECIFICATION Spec
INVARIANT VersionsKept
CHECK_DEADLOCK FALSE
