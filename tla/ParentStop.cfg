SPECIFICATION Spec
CONSTANTS
    ServerLimit = 1
    ThreadsPerChild = 1
    Pids = {p1, p2}
    StartServers = 1
    MinSpareThreads = 1
    MaxSpareThreads = 1
    MaxSpawnRate = 2
    PodCap = 1
    Signals = {"SIGTERM", "GRACEFUL_STOP", "SIGHUP", "SIG_GRACEFUL"}
    Failures = {"fork", "crash", "sick", "fatal", "listener"}
PROPERTIES NoStragglerSpared ShutdownCompletes
