SPECIFICATION FairSpec
CONSTANTS
    a1 = a1  w1 = w1  p1 = p1
    c1 = c1  c2 = c2
    AsyncJobs = {a1}
    WaitJobs = {w1}
    PriorityJobs = {p1}
    Closers = {c1, c2}
    Capacity = 1
    BatchLimit = 2
INVARIANTS TypeOK CloseFlushesAll AtMostOnce LossAccounted
PROPERTIES CallsReturn Implements
CHECK_DEADLOCK FALSE
