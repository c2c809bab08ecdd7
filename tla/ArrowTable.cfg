\* All types of columns; two queries while up to three tables are appended.  Calls
\* are bounded, so behaviours end.
CONSTANTS
    null = null
    Null = null
    NullArray = NullArray
    Kinds = {"int", "fixed", "text", "array"}
    InputRows <- SomeRows
    ListSize = 2
    FragmentSize = 2
    Queries = {q1, q2}
    MaxRows = 4
    MaxAppendRows = 3
    MaxAppends = 3
    MaxFetches = 1
    Hi = 9
    Lo = 0
SPECIFICATION Spec
INVARIANTS FragmentsTile StatsExact FetchedIsExact
SYMMETRY QuerySymmetry
CHECK_DEADLOCK FALSE
