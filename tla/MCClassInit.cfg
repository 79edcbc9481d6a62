SPECIFICATION FairSpec
CONSTANTS
    Threads = {t1, t2}
    NoThread = none
    NoClass = null
    NoResult = noResult
    super = super
    sub = sub
    error = error
    Classes <- MCClasses
    Super <- MCSuper
    WithClinit <- MCWithClinit
    WithStrings <- MCWithStrings
    ErrorClass = error
    Triggers <- MCTriggers
    MaxFrames = 6
INVARIANTS TypeOK InitializingIsOwned ClinitExclusive SuperFirst TrueMeansUsable
PROPERTIES InitializedIsFinal CallsReturn
CHECK_DEADLOCK FALSE
