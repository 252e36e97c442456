SPECIFICATION FairSpec
CONSTANTS
    s1 = s1  s2 = s2   b1 = b1
    c1 = c1
    Kinds <- MCKinds
    CachedKinds = {"security"}
    Records = {s1, s2, b1}
    KindOf <- MCKindOf
    Capacity <- MCCapacity
    BatchSize = 2
    DrainLimit = 1
    Closers = {c1}
INVARIANTS TypeOK LossVisible InsertedOnce StatementsAlive CountsFresh
PROPERTIES WriterExits
CHECK_DEADLOCK FALSE
