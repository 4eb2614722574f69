SPECIFICATION LiveSpec
CONSTANTS
  p1 = p1
  p2 = p2
  MemSize = 5
  Code <- ResilientCode
  Insn <- ResilientInsn
  Horizon = 1
  Pins = {}
  MaxPinChanges = 0
  IrqOption = TRUE
  Resilient = TRUE
  WdtLimit = 2
INVARIANTS PrefetchIsCurrent WatchdogExact
PROPERTIES ViolationsNeverHealed WatchdogFrees
CHECK_DEADLOCK FALSE
