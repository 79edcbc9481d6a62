SPECIFICATION FairSpec
CONSTANTS
    HeaderSize = 8
    SizeModulus = 36
    ParameterModulus = 6
    Keys <- MCKeys
    Hash <- MCHash
    Length = 6
    MaxFailures = 1
    t1 = t1
    t2 = t2
    Threads <- MCThreads
    Needs <- MCNeeds
    NoThread = none
    Primitives = {"Z"}
    Arrays = {"[Base"}
    Object = "Object"
    FileSets <- MCFileSets
    Null = null
    NoAnswer = noAnswer
INVARIANTS TypeOK TableSound ParsedRight Explained
PROPERTIES LoaderSpec LoadsReturn
CHECK_DEADLOCK FALSE
