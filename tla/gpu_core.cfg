\* A driver that stays inside the ring: every command arrives.
CONSTANTS
    Size = 13
    Cmd <- WordCmd
    BufCells = 16
    Torn <- NoCmd
    IdxMod = 4
    PtrMod = 16
    Wraps = FALSE
SPECIFICATION FairSpec
INVARIANT AtPacket
PROPERTIES QueueSpec CommandEnds

