SPECIFICATION Spec
CONSTANTS
    ServerLimit = 2
    ThreadsPerChild = 2
    Pids = {p1, p2}
    StartServers = 1
    MinSpareThreads = 3
    MaxSpareThreads = 3
    MaxSpawnRate = 2
    PodCap = 1
    Signals = {}
    Failures = {"listener"}
INVARIANTS TypeOK NoLostChild OneListenerPerSlot FreeListSound
SYMMETRY PidSymmetry
