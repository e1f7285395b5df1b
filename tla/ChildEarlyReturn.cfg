SPECIFICATION Spec
CONSTANTS
    ThreadsPerChild = 1
    MaxThreads = 1
    Conns = {c1}
    ForeignSlots = {}
    Failures = {"pollset"}
    Forced = FALSE
    MaxSpurious = 0
CHECK_DEADLOCK FALSE
PROPERTY TerminationCompletes
