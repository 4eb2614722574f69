CONSTANTS
    Info <- MCInfo
    Session <- MCSession
    UniformCells = 2
SPECIFICATION Spec
INVARIANTS DrawsAsRecorded OnlyStrayHandlesHurt NearestWins OutlineJoins
CHECK_DEADLOCK FALSE
