SPECIFICATION FairSpec
CONSTANTS
    Threads = {t1, t2}
    MainThread = t1
    Launcher = launcher
    InitialCapacity = 1
    MajorPeriod = 2
    Modulus = 8
    MaxPasses = 2
INVARIANTS TypeOK StopTheWorld RunnersPaidFor
PROPERTIES ForcedMajorHonoured BalancedProgress ResumeProgress
CHECK_DEADLOCK FALSE
