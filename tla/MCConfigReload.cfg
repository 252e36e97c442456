SPECIFICATION Spec
CONSTANTS
    n1 = n1  n2 = n2  e1 = e1  e2 = e2  w1 = w1  b1 = b1  b2 = b2
    t1 = t1  t2 = t2
    Off = Off
    FirstBus = b1
    Nodes = {n1, n2}
    Edits = {e1, e2}
    Switches = {w1}
    Home <- MCHome
    Tables = {t1, t2}
    ScriptTable = t1
    Buses = {b1, b2}
    Target <- MCTarget
    MaxFaults = 1
    MaxRestarts = 1
INVARIANTS TypeOK SnapshotComplete AckLive ScriptsHaveEngine IPListsLive
CHECK_DEADLOCK FALSE
