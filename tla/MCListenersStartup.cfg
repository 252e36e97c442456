SPECIFICATION Spec
CONSTANTS
    site = site  h3 = h3  old = old  new = new
    i1 = i1  i2 = i2  i3 = i3  i4 = i4
    None = None
    TcpNames = {site}
    H3Names = {h3}
    Tags = {old, new}
    MaxRevision = 2
    Plan <- Drift
    Ids = {i1, i2, i3, i4}
    MaxReloads = 1
    EarlyReload = TRUE
INVARIANTS Reconciled
CHECK_DEADLOCK FALSE
