\* A payload of three cells.
CONSTANTS
    Size = 12
    Cmd <- OddCmd
    BufCells = 16
    Torn <- NoCmd
    IdxMod = 4
    PtrMod = 16
    Wraps = FALSE
SPECIFICATION Spec
INVARIANT AtPacket

