CONSTANTS
    str_a = str_a
    str_b = str_b
    str_c = str_c
    str_d = str_d
    EmptyString = EmptyString
    Canary = Canary
    Threads = {t1, t2}
    Strings = {str_a, str_b, str_c, str_d}
    Hash <- Hashes
    InitialCapacity = 2
    GrowSlots = 2
    MaxBatch = 2
    RepeatFirst = FALSE
SPECIFICATION Spec
INVARIANTS TableReady CellHolds
 
SYMMETRY ThreadSymmetry
