SPECIFICATION FairSpec
CONSTANTS
    ChunkKeys = {c1, c2}
    AllocKeys = {a1}
    NoKey = NoKey
    MaxPoolPages = 4
    MaxSlabPages = 3
    MinSlabPages = 1
    MaxRequest = 4
    MaxPins = 1
    EpochMod = 2
INVARIANTS
    SegmentsTileSlabs
    PoolWithinLimits
    
    
    FreeRunsMerged
PROPERTIES
    SearchEnds
    
    EvictStartsRun
    RefusedOnlyWhenPinned
