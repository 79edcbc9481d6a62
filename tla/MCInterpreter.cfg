SPECIFICATION Spec
CONSTANTS
    NumLocals = 2
    LocalTypes = {"i", "l"}
    NoCell = NoCell
    None = None
    Room = 2
INVARIANT TypeOK
PROPERTY InstructionSet
CHECK_DEADLOCK FALSE
