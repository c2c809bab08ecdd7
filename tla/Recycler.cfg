SPECIFICATION Spec
CONSTANTS
    s1 = s1
    s2 = s2
    s3 = s3
    s4 = s4
    Keys = {s1, s2, s3, s4}
    ItemSize <- MCItemSize
    Times = {1, 2}
    TotalCacheSize = 4
    MaxItemSize = 3
    TestEnv = FALSE
    MaxRefs = 2
CHECK_DEADLOCK FALSE
INVARIANTS
    OneItemPerKey
PROPERTIES
    
    LeastUsefulGo
