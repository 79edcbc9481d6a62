SPECIFICATION FairSpec
CONSTANTS
    Threads = {t1, t2, t3}
    NoThread = none
    CountSize = 4
    MaxDepth = 3
INVARIANTS FieldsAgree
PROPERTIES MonitorSpec EntryProgress
CHECK_DEADLOCK FALSE
