SPECIFICATION Spec
CONSTANTS
    Threads = {t1, t2}
    MainThread = t1
    Launcher = launcher
    InitialCapacity = 4
    MajorPeriod = 2
    Modulus = 8
    MaxPasses = 1
    EdenSize = 4
    Alignment = 2
    Sizes = {1, 2}
    NoProc = none
INVARIANTS TypeOK EdenBounded ObjectsApart NullAfterMajor
PROPERTY EdenStill
CHECK_DEADLOCK FALSE
