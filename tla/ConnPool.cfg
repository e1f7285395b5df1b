SPECIFICATION PoolSpec
CONSTANTS
    Threads = {t1, t2, t3, t4, t5}
    Resources = {r1, r2, r3}
    None = None
    Min = 1
    Smax = 1
    Hmax = 2
    Ttl = 1
    MaxTime = 3
    HasTimeout = TRUE
INVARIANTS PoolTypeOK Accounting OwnedOnce AvailOrdered NoLostWakeup SetupOnce
PROPERTIES UntimedOnlyInSetup
SYMMETRY Symmetry
