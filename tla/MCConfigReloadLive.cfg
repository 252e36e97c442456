SPECIFICATION FairSpec
CONSTANTS
    n1 = n1  n2 = n2  e1 = e1  e2 = e2  w1 = w1  b1 = b1  b2 = b2
    t1 = t1  t2 = t2
    Off = Off
    FirstBus = b1
    Nodes = {n1, n2}
    Edits = {e1, e2}
    Switches = {}
    Home <- MCHome
    Tables = {t1, t2}
    ScriptTable = t1
    Buses = {b1, b2}
    Target <- MCTarget
    MaxFaults = 0
    MaxRestarts = 0
PROPERTIES InSync
CHECK_DEADLOCK FALSE
