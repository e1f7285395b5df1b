SPECIFICATION Spec
CONSTANTS
    ThreadsPerChild = 1
    MaxThreads = 1
    Conns = {c1, c2, c3}
    ForeignSlots = {}
    Failures = {}
    Forced = FALSE
    MaxSpurious = 0
INVARIANT QueueFits
