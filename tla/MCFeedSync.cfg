SPECIFICATION Spec
CONSTANTS
    Feeds = {f1}
    EntryIds = {e1}
    Settings = {s1, s2}
    Admins = {a1}
    Loop = loop
    MaxRestarts = 1
    None = None
INVARIANTS TypeOK RowTellsEntries AdminWritesLast
PROPERTIES FeedsSynced
