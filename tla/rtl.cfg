CONSTANTS
    W = 16
    A = 4
    Reg <- MCReg
    Sp = 7
    Decode <- MCDecode
    Alu <- MCAlu
    Program <- MCProgram
SPECIFICATION Spec
INVARIANT FetchedWord
PROPERTY IsaSpec
