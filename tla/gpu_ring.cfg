\* The ring at its limits: packets of 2 to 5 cells in a ring of 7.
CONSTANTS
    Size = 7
    Cmd <- RingCmd
    BufCells = 2
    Torn <- NoCmd
    MaxDepth = 2
SPECIFICATION Spec
INVARIANTS PositionsInOrder PacketsWhole HeaderNamesPacket
PROPERTIES DoorbellDrains QueueSpec
