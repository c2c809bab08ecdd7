CONSTANTS
    ThreadCount = 2
    NumElems = 4
    MaxVal = 3
    Keys <- WithPending
    Murmur <- HashPending
    EstimateError = 1

SPECIFICATION FairSpec
INVARIANTS OneSlotPerKey KeysFound JoinIsExact FailsForCause
PROPERTIES BuildEnds
CHECK_DEADLOCK FALSE
