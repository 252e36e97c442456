SPECIFICATION Spec
CONSTANTS
    g1 = g1  g2 = g2  g3 = g3  w1 = w1  k1 = k1  k2 = k2  p1 = p1
    None = None
    Gets = {g1, g2, g3}
    Writes = {w1}
    Keys = {k1, k2}
    Paths = {p1}
    PathOf <- OnePath
    Sizes = {1, 2}
    MaxSize = 2
    MaxEntries = 2
    Reloads = 0
SYMMETRY Symmetry
INVARIANTS TypeOK CacheCoherent CacheBounded
PROPERTY Implements
CHECK_DEADLOCK FALSE
