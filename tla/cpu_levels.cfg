SPECIFICATION Spec
CONSTANTS
  p1 = p1
  p2 = p2
  MemSize = 15
  Code <- LevelCode
  Insn <- LevelInsn
  Horizon = 9
  Pins = {}
  MaxPinChanges = 0
  IrqOption = TRUE
  Resilient = FALSE
  WdtLimit = 0
INVARIANTS PrivMirrored UnnamedLevelIsClosed WaiterIsPrivileged
PROPERTIES PrivilegeRisesByEntry MachineConfigKept FramesIndependent WaitEndsInHandler InterruptsMasked
CHECK_DEADLOCK FALSE
