CONSTANTS
    Threads = {t1, t2}
    Names = {"A", "B"}
    Columns <- SomeColumns
    MaxDictId = 3
    MaxTables = 3
    MaxCalls = 4
SPECIFICATION FairSpec
INVARIANTS TypeOK  DictsMatchColumns
PROPERTY CallsEnd
CHECK_DEADLOCK FALSE
