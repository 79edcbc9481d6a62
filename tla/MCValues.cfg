SPECIFICATION Spec
CONSTANTS
    Bits = 4
    SmallBits = 2
    MaxKeys = 3
    NaN = NaN
    NoResult = NoResult
    Thrown = Thrown
    Trap = Trap
    Undefined = Undefined
    Default = Default
    Torn = Torn
INVARIANTS ArithmeticLaws SwitchFinds
PROPERTY SearchEnds
CHECK_DEADLOCK FALSE
