\* The same chunk asked of two GPUs at a time.
CONSTANTS
    cpu = cpu
    g1 = g1
    g2 = g2
    zero = zero
    grows = grows
    fixed = fixed
    NoKey = NoKey
    Cpu = cpu
    Keys = {zero, grows, fixed}
    ZeroCopyKeys = {zero}
    Threads = {t1, t2}
    Gpus = {g1, g2}
    Requests <- SharedByGpus
    Capacity <- FourPages
    SafePages <- FourPages
    MaxRequests = 2
SPECIFICATION Spec
INVARIANT ParentNotRaced
CHECK_DEADLOCK FALSE
