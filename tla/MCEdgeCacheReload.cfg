SPECIFICATION Spec
CONSTANTS
    g1 = g1  g2 = g2  w1 = w1  k1 = k1  p1 = p1
    None = None
    Gets = {g1, g2}
    Writes = {w1}
    Keys = {k1}
    Paths = {p1}
    PathOf <- OnePath
    Sizes = {1}
    MaxSize = 2
    MaxEntries = 2
    Reloads = 1
INVARIANTS ClearedStaysCleared
PROPERTIES RequestsAnswered OldConfigDrains
CHECK_DEADLOCK FALSE
