SPECIFICATION LiveSpec
CONSTANTS
  p1 = p1
  p2 = p2
  MemSize = 24
  Code <- LiveCode
  Insn <- LiveInsn
  Horizon = 15
  Pins = {p1, p2}
  MaxPinChanges = 3
  IrqOption = TRUE
  Resilient = FALSE
  WdtLimit = 0
INVARIANT LatchedPinIsPending
PROPERTIES TimerWakesWaiter PinsHeard
CHECK_DEADLOCK FALSE
