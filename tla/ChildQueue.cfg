SPECIFICATION Spec
CONSTANTS
    ThreadsPerChild = 1
    MaxThreads = 1
    Conns = {c1, c2, c3}
    ForeignSlots = {}
    Failures = {"pollset", "pool", "poll", "accept", "emfile", "thread", "memory"}
    Forced = TRUE
    MaxSpurious = 1
SYMMETRY ConnSymmetry
INVARIANTS TypeOK IdlersAccount QueueBound
