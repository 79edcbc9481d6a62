SPECIFICATION GCFairSpec
CONSTANTS
    Threads = {t1, t2}
    NoThread = none
    NoClass = null
    NoResult = noResult
    cls = cls
    error = error
    Classes <- MCClasses
    Super <- MCSuper
    WithClinit <- MCWithClinit
    WithStrings <- MCWithStrings
    ErrorClass = error
    Triggers <- MCTriggers
    MaxFrames = 4
    MainThread = t1
    Launcher = launcher
    InitialCapacity = 4
    MajorPeriod = 1
    Modulus = 8
    MaxPasses = 1
PROPERTIES ClassesStill InitializationEnds
CHECK_DEADLOCK FALSE
