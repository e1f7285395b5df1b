SPECIFICATION FairSpec
CONSTANTS
    Threads = {t1, t2, t3}
    Data = {a, b}
    Capacity = 2
    Null = Null
INVARIANTS TypeOK WaitersCounted NoLostWakeup TermLeavesNoSleeper
PROPERTIES FifoSpec TermEndsCalls
