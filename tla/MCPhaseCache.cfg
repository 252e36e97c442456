SPECIFICATION Spec
CONSTANTS
    r1 = r1  r2 = r2  r3 = r3  s1 = s1  s2 = s2
    Requests = {r1, r2, r3}
    Sites = {s1, s2}
    Settings <- MCSettings
    Thresholds = {0, 90}
    MaxRevision = 2
    MaxReloads = 1
SYMMETRY Symmetry
INVARIANTS TypeOK ChainOwnSnapshot QuietChainFresh
CHECK_DEADLOCK FALSE
