SPECIFICATION Spec
CONSTANTS
    ThreadsPerChild = 2
    MaxThreads = 2
    Conns = {c1, c2}
    ForeignSlots = {1}
    Failures = {"poll", "accept", "pool"}
    Forced = TRUE
    MaxSpurious = 0
SYMMETRY ConnSymmetry
INVARIANTS OnePlace WorkersDrain OneThreadPerEntry
PROPERTIES NoPushAfterTerm
