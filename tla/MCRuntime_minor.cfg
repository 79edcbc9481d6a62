SPECIFICATION FairSpec
CONSTANTS
    Threads = {t1}
    MainThread = t1
    Launcher = launcher
    InitialCapacity = 4
    MajorPeriod = 2
    Modulus = 8
    MaxPasses = 1
    EdenSize = 4
    Alignment = 2
    Sizes = {3}
    NoProc = none
PROPERTY MinorIsTried
CHECK_DEADLOCK FALSE
