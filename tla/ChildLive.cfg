SPECIFICATION Spec
CONSTANTS
    ThreadsPerChild = 2
    MaxThreads = 2
    Conns = {c1}
    ForeignSlots = {1}
    Failures = {"poll"}
    Forced = TRUE
    MaxSpurious = 0
PROPERTIES ListenerWoken ChildExits
