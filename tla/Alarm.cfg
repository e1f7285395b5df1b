SPECIFICATION Spec
CONSTANTS
    Delays <- MCDelays
    MaxReg = 3
    MaxTime = 4
INVARIANTS TypeOK TimerCovers CalledOnTime CallbacksSafe
CHECK_DEADLOCK FALSE
