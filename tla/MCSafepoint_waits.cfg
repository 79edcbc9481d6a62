SPECIFICATION Spec
CONSTANTS
    Threads = {t1}
    MainThread = t1
    Launcher = launcher
    InitialCapacity = 4
    MajorPeriod = 2
    Modulus = 8
    MaxPasses = 1
INVARIANT MainWaitsForThreads
CHECK_DEADLOCK FALSE
