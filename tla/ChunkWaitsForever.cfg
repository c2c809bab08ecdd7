\* A query asks again for a chunk after a request for it was refused.
CONSTANTS
    cpu = cpu
    g1 = g1
    g2 = g2
    zero = zero
    grows = grows
    fixed = fixed
    NoKey = NoKey
    Cpu = cpu
    Keys = {zero, grows, fixed}
    ZeroCopyKeys = {zero}
    Threads = {t1, t2}
    Gpus = {}
    Requests <- CpuOnly
    Capacity <- TwoPages
    SafePages <- NoPages
    MaxRequests = 2
SPECIFICATION FairSpec
PROPERTY WaitEnds
CHECK_DEADLOCK FALSE
