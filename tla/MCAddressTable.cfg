SPECIFICATION FairSpec
CONSTANTS
    Threads = {t1, t2}
    NoThread = none
    AddrPerPage = 2
    SlotLimit = 3
    MaxAddresses = 5
INVARIANTS TypeOK OnePlace HeldIsProtected FreeCount
PROPERTIES PoolSpec OperationsReturn
CHECK_DEADLOCK FALSE
