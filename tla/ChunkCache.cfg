\* Three queries under fair scheduling; two pages at each level, so that buffers are
\* evicted and requests refused.  GPU and CPU queries share no chunk.  A refusal may
\* end the process (LOG(FATAL)) or leave a thread waiting, so behaviours may stop.
CONSTANTS
    cpu = cpu
    g1 = g1
    g2 = g2
    zero = zero
    grows = grows
    fixed = fixed
    NoKey = NoKey
    Cpu = cpu
    Keys = {zero, grows, fixed}
    ZeroCopyKeys = {zero}
    Threads = {t1, t2, t3}
    Gpus = {g1}
    Requests <- SeparateKeys
    Capacity <- TwoPages
    SafePages <- NoPages
    MaxRequests = 4
SPECIFICATION FairSpec
INVARIANTS TypeOK  PinsAreHeld OneInitializer
PROPERTY GetEnds
CHECK_DEADLOCK FALSE
