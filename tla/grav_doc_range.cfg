CONSTANTS
    Info <- MCInfo
    Session <- MCRange
    UniformCells = 2
SPECIFICATION Spec
INVARIANTS DrawsItsRange
CHECK_DEADLOCK FALSE
