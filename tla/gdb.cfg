CONSTANTS
    W = 9
    A = 3
    Reg <- MCReg
    Sp = 7
    Decode <- MCDecode
    Alu <- MCAlu
    Program <- MCProgram
    Session <- MCSession
    MaxBreakpoints = 2
    MaxTries = 2
SPECIFICATION StubSpec
INVARIANT AnswersCounted
PROPERTIES BreakpointsHold StaleByWrite StepIsInstruction
CHECK_DEADLOCK FALSE
